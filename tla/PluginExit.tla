----------------------------- MODULE PluginExit -----------------------------
(***************************************************************************)
(* plugin_exit and the output file it shares with every other traced run   *)
(* of the same program: <base name>.capnp.out in the working directory.    *)
(* A process traces (as TraceLog says, of which this module keeps the set  *)
(* of offsets executed) and then runs plugin_exit, cut where it touches    *)
(* what others can change: the binary, and the file.                       *)
(*                                                                         *)
(* A read of the file is one step, and so is the write of a message. What  *)
(* a reader meets in between is the truncated file.                        *)
(***************************************************************************)
EXTENDS Integers, FiniteSets

CONSTANTS
    Proc,              \* the processes; each runs once
    Build,             \* the builds of the binary; MD5 tells them apart
    Code,              \* Code[b]: the length of each instruction, by offset
    Base,              \* Base[b]: what parse_base_address finds in b, a
                       \* number of pages
    Versions,          \* the values of version= the runs are given
    ReadLimit,         \* the most instructions the reader accepts
    NoDigest,          \* the digest when md5sum printed nothing
    Serial,            \* one process at a time, as specinvoke runs them
    RebuildAnytime,    \* the binary may be rebuilt while it is traced
    Md5Works           \* the shell finds md5sum and takes the path unquoted

ASSUME PluginExitAssumption ==
    /\ \A b \in Build : \A o \in DOMAIN Code[b] : o \in Nat /\ Code[b][o] \in 1 .. 127
    /\ Base \in [Build -> Int \ {-1}]
    /\ Versions \subseteq {0, 1}
    /\ ReadLimit \in Nat
    /\ NoDigest \notin Build
    /\ Serial \in BOOLEAN /\ RebuildAnytime \in BOOLEAN /\ Md5Works \in BOOLEAN

VARIABLES
    pc,                \* where each process is
    version,           \* its output_version
    loaded,            \* the build it executes
    executed,          \* the offsets it has executed
    instructions, digest, base_address,    \* the locals of plugin_exit
    disk,              \* the build the binary's path leads to
    file,              \* the output file
    holds,             \* the processes whose open descriptor leads to it
    kept,              \* history: the runs whose instructions are to be in it
    last               \* history: the last complete contents of the file

process == <<version, loaded, executed>>
locals == <<instructions, digest, base_address>>
output == <<file, holds, kept, last>>
vars == <<pc, process, locals, disk, output>>

Content(kind, d, b, insns) == [kind |-> kind, digest |-> d, base |-> b, insns |-> insns]
Absent == Content("absent", NoDigest, -1, <<>>)
Truncated == Content("truncated", NoDigest, -1, <<>>)

(* map::insert and map::emplace keep what is there. *)
InsertAll(m, other) ==
    [o \in DOMAIN m \cup DOMAIN other |-> IF o \in DOMAIN m THEN m[o] ELSE other[o]]

Ended == {"done", "unsaved", "aborted", "dead"}
Live(p) == pc[p] \notin Ended \cup {"idle"}
Goto(p, label) == pc' = [pc EXCEPT ![p] = label]

Init ==
    /\ pc = [p \in Proc |-> "idle"]
    /\ version = [p \in Proc |-> 0]
    /\ disk \in Build
    /\ loaded = [p \in Proc |-> disk]
    /\ executed = [p \in Proc |-> {}]
    /\ instructions = [p \in Proc |-> <<>>]
    /\ digest = [p \in Proc |-> NoDigest]
    /\ base_address = [p \in Proc |-> -1]
    /\ file = Absent /\ holds = {} /\ last = Absent /\ kept = {}

-----------------------------------------------------------------------------
(* Tracing. *)

Start(p, v) ==
    /\ pc[p] = "idle"
    /\ Serial => \A q \in Proc : ~ Live(q)
    /\ Goto(p, "tracing")
    /\ version' = [version EXCEPT ![p] = v]
    /\ loaded' = [loaded EXCEPT ![p] = disk]
    /\ UNCHANGED <<executed, locals, disk, output>>

Execute(p, o) ==
    /\ pc[p] = "tracing"
    /\ o \in DOMAIN Code[loaded[p]] \ executed[p]
    /\ executed' = [executed EXCEPT ![p] = @ \cup {o}]
    /\ UNCHANGED <<pc, version, loaded, locals, disk, output>>

(* The guest forks: the child is traced with a copy of the tables.         *)
Fork(p, q) ==
    /\ ~ Serial /\ pc[p] = "tracing" /\ pc[q] = "idle"
    /\ Goto(q, "tracing")
    /\ version' = [version EXCEPT ![q] = version[p]]
    /\ loaded' = [loaded EXCEPT ![q] = loaded[p]]
    /\ executed' = [executed EXCEPT ![q] = executed[p]]
    /\ UNCHANGED <<locals, disk, output>>

-----------------------------------------------------------------------------
(* plugin_exit. *)

(* Mutant: what was translated goes out, not what was executed.            *)
EnterExitTranslated(p) ==
    /\ pc[p] = "tracing"
    /\ instructions' = [instructions EXCEPT ![p] = Code[loaded[p]]]
    /\ Goto(p, IF version[p] = 0 THEN "base" ELSE "digest")
    /\ UNCHANGED <<process, digest, base_address, disk, output>>

(* The tables are merged; version 1 then runs md5sum on the binary. *)
EnterExit(p) ==
    /\ pc[p] = "tracing"
    /\ instructions' = [instructions EXCEPT
           ![p] = [o \in executed[p] |-> Code[loaded[p]][o]]]
    /\ Goto(p, IF version[p] = 0 THEN "base" ELSE "digest")
    /\ UNCHANGED <<process, digest, base_address, disk, output>>

Digest(p) ==
    /\ pc[p] = "digest"
    /\ digest' = [digest EXCEPT ![p] = IF Md5Works THEN disk ELSE NoDigest]
    /\ Goto(p, "exists")
    /\ UNCHANGED <<process, instructions, base_address, disk, output>>

FileExists(p) ==
    /\ pc[p] = "exists"
    /\ Goto(p, IF file.kind = "absent" THEN "base" ELSE "read")
    /\ UNCHANGED <<process, locals, disk, output>>

(* A truncated message, one of the other schema and one over the reader's  *)
(* limit make Cap'n Proto throw; nothing in the plugin catches it.         *)
Unreadable(f) ==
    \/ f.kind \in {"truncated", "v0"}
    \/ f.kind = "v1" /\ Cardinality(DOMAIN f.insns) > ReadLimit

(* read_version_1 and what plugin_exit makes of it. An open that fails and *)
(* a digest that differs leave the base address to be parsed.              *)
ReadThrows(p) ==
    /\ pc[p] = "read" /\ Unreadable(file)
    /\ Goto(p, "aborted")
    /\ UNCHANGED <<process, locals, disk, output>>

ReadFails(p) ==
    /\ pc[p] = "read" /\ file.kind = "absent"
    /\ Goto(p, "base")
    /\ UNCHANGED <<process, locals, disk, output>>

(* Mutant: the other build's instructions are merged all the same.         *)
ReadOtherMerges(p) ==
    /\ pc[p] = "read" /\ file.kind # "absent" /\ ~ Unreadable(file)
    /\ file.digest # digest[p]
    /\ base_address' = [base_address EXCEPT ![p] = -1]
    /\ instructions' = [instructions EXCEPT ![p] = InsertAll(@, file.insns)]
    /\ Goto(p, "base")
    /\ UNCHANGED <<process, digest, disk, output>>

ReadOther(p) ==
    /\ pc[p] = "read" /\ file.kind # "absent" /\ ~ Unreadable(file)
    /\ file.digest # digest[p]
    /\ base_address' = [base_address EXCEPT ![p] = -1]
    /\ Goto(p, "base")
    /\ UNCHANGED <<process, instructions, digest, disk, output>>

(* Mutants: the saved instructions replace this run's; or are left out.    *)
ReadSameReplaces(p) ==
    /\ pc[p] = "read" /\ file.kind # "absent" /\ ~ Unreadable(file)
    /\ file.digest = digest[p]
    /\ base_address' = [base_address EXCEPT ![p] = file.base]
    /\ instructions' = [instructions EXCEPT ![p] = file.insns]
    /\ Goto(p, "base")
    /\ UNCHANGED <<process, digest, disk, output>>

ReadSameDrops(p) ==
    /\ pc[p] = "read" /\ file.kind # "absent" /\ ~ Unreadable(file)
    /\ file.digest = digest[p]
    /\ base_address' = [base_address EXCEPT ![p] = file.base]
    /\ Goto(p, "base")
    /\ UNCHANGED <<process, instructions, digest, disk, output>>

ReadSame(p) ==
    /\ pc[p] = "read" /\ file.kind # "absent" /\ ~ Unreadable(file)
    /\ file.digest = digest[p]
    /\ base_address' = [base_address EXCEPT ![p] = file.base]
    /\ instructions' = [instructions EXCEPT ![p] = InsertAll(@, file.insns)]
    /\ Goto(p, "base")
    /\ UNCHANGED <<process, digest, disk, output>>

(* Mutant: the header is parsed only when there is no earlier capture.     *)
BaseAddressOnce(p) ==
    /\ pc[p] = "base"
    /\ base_address' = [base_address EXCEPT
           ![p] = IF file.kind = "absent" THEN Base[disk] ELSE @]
    /\ Goto(p, "open")
    /\ UNCHANGED <<process, instructions, digest, disk, output>>

BaseAddress(p) ==
    /\ pc[p] = "base"
    /\ base_address' = [base_address EXCEPT ![p] = IF @ = -1 THEN Base[disk] ELSE @]
    /\ Goto(p, "open")
    /\ UNCHANGED <<process, instructions, digest, disk, output>>

(* write_version_0 and write_version_1: open_file truncates, and then the  *)
(* whole message goes out. *)
OpenTruncates(p) ==
    /\ pc[p] = "open"
    /\ file' = Truncated /\ holds' = holds \cup {p}
    /\ Goto(p, "write")
    /\ UNCHANGED <<process, locals, disk, kept, last>>

(* The file is not writable: the run is given up, the file left alone.     *)
OpenFails(p) ==
    /\ pc[p] = "open"
    /\ Goto(p, "unsaved")
    /\ UNCHANGED <<process, locals, disk, output>>

(* Version 0 writes addresses, without digest, base or lengths. *)
Message(p) ==
    IF version[p] = 0
    THEN Content("v0", NoDigest, -1,
                 [a \in {o + base_address[p] : o \in DOMAIN instructions[p]} |-> 0])
    ELSE Content("v1", digest[p], base_address[p], instructions[p])

Write(p) ==
    /\ pc[p] = "write"
    /\ \/ /\ p \in holds
          /\ file' = Message(p) /\ last' = Message(p)
          /\ kept' = IF version[p] = 0 THEN {}
                     ELSE {q \in kept : digest[q] = digest[p]} \cup {p}
       \/ p \notin holds /\ UNCHANGED <<file, last, kept>>
    /\ holds' = holds \ {p}
    /\ Goto(p, "done")
    /\ UNCHANGED <<process, locals, disk>>

-----------------------------------------------------------------------------
(* The environment. *)

(* The process is killed, at any point of its life; a write that fails    *)
(* halfway makes Cap'n Proto throw, and ends it the same way.              *)
Kill(p) ==
    /\ Live(p)
    /\ Goto(p, "dead")
    /\ holds' = holds \ {p}
    /\ UNCHANGED <<process, locals, disk, file, kept, last>>

Rebuild(b) ==
    /\ RebuildAnytime \/ \A p \in Proc : ~ Live(p)
    /\ b # disk /\ disk' = b
    /\ UNCHANGED <<pc, process, locals, output>>

(* `make cleanall' removes the captures, whoever is using them.            *)
CleanAll ==
    /\ file.kind # "absent"
    /\ file' = Absent /\ holds' = {} /\ last' = Absent /\ kept' = {}
    /\ UNCHANGED <<pc, process, locals, disk>>

ExitStep(p) ==
    \/ Digest(p) \/ FileExists(p)
    \/ ReadThrows(p) \/ ReadFails(p) \/ ReadOther(p) \/ ReadSame(p)
    \/ BaseAddress(p) \/ OpenTruncates(p) \/ OpenFails(p) \/ Write(p)

Next ==
    \/ \E p \in Proc :
          \/ \E v \in Versions : Start(p, v)
          \/ \E b \in Build : \E o \in DOMAIN Code[b] : Execute(p, o)
          \/ \E q \in Proc : Fork(p, q)
          \/ EnterExit(p)
          \/ ExitStep(p)
          \/ Kill(p)
    \/ \E b \in Build : Rebuild(b)
    \/ CleanAll

Spec == Init /\ [][Next]_vars

-----------------------------------------------------------------------------
Lengths == 0 .. 127
IsInsns(f) == DOMAIN f \subseteq Int /\ \A o \in DOMAIN f : f[o] \in Lengths

TypeOK ==
    /\ pc \in [Proc -> Ended \cup {"idle", "tracing", "digest", "exists", "read",
                                   "base", "open", "write"}]
    /\ version \in [Proc -> {0, 1}]
    /\ loaded \in [Proc -> Build] /\ disk \in Build
    /\ DOMAIN executed = Proc
    /\ \A p \in Proc : executed[p] \subseteq DOMAIN Code[loaded[p]]
    /\ digest \in [Proc -> Build \cup {NoDigest}]
    /\ base_address \in [Proc -> Int]
    /\ DOMAIN instructions = Proc /\ \A p \in Proc : IsInsns(instructions[p])
    /\ \A p \in Proc : pc[p] \in {"open", "write"} => base_address[p] # -1
    /\ \A f \in {file, last} :
          /\ f.kind \in {"absent", "truncated", "v0", "v1"}
          /\ f.digest \in Build \cup {NoDigest}
          /\ f.base \in Int
          /\ IsInsns(f.insns)
    /\ kept \subseteq Proc
    /\ holds \subseteq {p \in Proc : pc[p] = "write"}

(* The instructions in a capture, and their lengths, are those of the      *)
(* build whose digest it carries.                                          *)
InsnsOfDigest ==
    file.kind = "v1" =>
        /\ file.digest \in Build
        /\ \A o \in DOMAIN file.insns :
              o \in DOMAIN Code[file.digest] /\ file.insns[o] = Code[file.digest][o]

(* A capture describes one build: besides its instructions the base        *)
(* address is that build's, however exits overlap.                         *)
SoundCapture ==
    /\ InsnsOfDigest
    /\ file.kind = "v1" => file.base = Base[file.digest]

(* A capture has the instructions of every run that was written into it    *)
(* since it was last replaced: no run loses what another one saved.        *)
NoLostRun ==
    file.kind = "v1" => \A p \in kept : executed[p] \subseteq DOMAIN file.insns

(* Runs are lost only by exits that overlap: as long as no two processes   *)
(* are between what they read of the file and what they write into it,     *)
(* none is, whatever else they do at the same time.                        *)
Updating == {"base", "open", "write"}
ExitsApart == \A p, q \in Proc : pc[p] \in Updating /\ pc[q] \in Updating => p = q
LossNeedsOverlap == []ExitsApart => []NoLostRun

(* However exits overlap, nothing is made up: what is in a capture was     *)
(* executed by runs of its build, one of which is in it as a whole; a file *)
(* of version 0 has the addresses that one run executed, and no other.     *)
WasRun(o, b) == \E p \in Proc : loaded[p] = b /\ o \in executed[p]
CapturedWasRun ==
    /\ file.kind = "v1" =>
          /\ \A o \in DOMAIN file.insns : WasRun(o, file.digest)
          /\ \E p \in Proc : /\ pc[p] = "done" /\ loaded[p] = file.digest
                              /\ executed[p] \subseteq DOMAIN file.insns
    /\ file.kind = "v0" =>
          \E p \in Proc : /\ pc[p] = "done" /\ version[p] = 0
                          /\ DOMAIN file.insns = {o + Base[loaded[p]] : o \in executed[p]}

(* The header of the readers says that they return whether they succeeded, *)
(* and plugin_exit has a way to go on when they return false. By that no   *)
(* exit would end in its read of an old capture, with its own run unsaved. *)
FailedReadReturns == \A p \in Proc : pc[p] # "aborted"

(* What Unreadable, ReadSame and ReadOther take for granted of the format: *)
(* the reader of version 1 gets back from a complete message of its        *)
(* version what was merged into it, and throws on any other file that an   *)
(* exit leaves behind, the one cut short at any word included; the reader  *)
(* of version 0 gets the addresses, and throws on version 1.               *)
Format == INSTANCE CaptureFormat WITH
    Empty <- NoDigest, LimitWords <- 10 + 2 * ReadLimit

Written(p) ==
    IF version[p] = 0
    THEN Format!write_version_0(instructions[p], base_address[p])
    ELSE Format!write_version_1(instructions[p], base_address[p], digest[p])

AgreesFor(p) ==
    LET f == Message(p)
        read_0 == Format!read_version_0(Written(p))
        read_1 == Format!read_version_1(Written(p))
    IN  /\ read_1.thrown <=> Unreadable(f)
        /\ ~ read_1.thrown =>
              /\ read_1.digest = f.digest /\ read_1.base_address = f.base
              /\ read_1.instructions = f.insns
        /\ f.kind = "v0" =>
              \/ ~ read_0.thrown /\ read_0.offsets = DOMAIN f.insns
              \/ read_0.thrown /\ Cardinality(DOMAIN f.insns) > ReadLimit
        /\ f.kind = "v1" => read_0.thrown
        /\ \A n \in 0 .. Written(p).words - 1 :
              LET f_n == Format!Cut(Written(p), n) IN
              Format!read_version_1(f_n).thrown /\ Format!read_version_0(f_n).thrown

FormatAgrees ==
    /\ \A p \in Proc : pc[p] = "write" => AgreesFor(p)
    /\ Format!read_version_1(Format!TruncatedFile).thrown

(* The file implements the capture store: a run's merge with what earlier  *)
(* runs saved is one step of it, taken when the message is written.        *)
InsnsOf(f) == {[offset |-> o, length |-> f[o]] : o \in DOMAIN f}
Store == INSTANCE CaptureStore WITH
    Insn <- [b \in Build |-> InsnsOf(Code[b])],
    store <-
      IF \/ /\ file.kind = "truncated"
            /\ \A p \in Proc : pc[p] = "write" => version[p] = 0
         \/ Unreadable(last)
      THEN [state |-> "spoilt"]
      ELSE IF last = Absent THEN [state |-> "none"]
      ELSE [state |-> "kept", build |-> last.digest, insns |-> InsnsOf(last.insns)]

ImplementsStore == Store!Spec
=============================================================================
