------------------------------- MODULE Tracer -------------------------------
(***************************************************************************)
(* One traced process: the callbacks of capnp-capture.cpp, driven by QEMU. *)
(* The guest program, its vCPU threads and QEMU's cache of translations    *)
(* are the environment: they decide which callback runs when.              *)
(*                                                                         *)
(* QEMU translates under one lock and keeps translation and execution      *)
(* callbacks out of the exit callback, so a callback is one step.          *)
(***************************************************************************)
EXTENDS MappingTable, FiniteSets

CONSTANTS
    Layouts,       \* the maps files the process can have, sequences of lines
    Length,        \* the length of the instruction at each address, on loading
    Rewrites,      \* [vaddr, length]: the changes the program makes to its code
    Blocks,        \* the translation blocks: sequences of addresses
    MaxVcpus,      \* the size plugin install gives insn_executed, 255
    VcpuBound      \* bound of the model: the largest vCPU index

Vaddr == DOMAIN Length
Null == 0          \* userdata of an instruction that is not to be recorded

ASSUME TracerAssumption ==
    /\ Layouts \subseteq Seq(MapsLine)
    /\ (\A v \in Vaddr : v \in Nat) /\ Length \in [Vaddr -> 1 .. 127]
    /\ Rewrites \subseteq [vaddr : Vaddr, length : 1 .. 127]
    /\ Blocks \subseteq Seq(Vaddr) \ {<<>>}
    /\ MaxVcpus \in Nat \ {0} /\ VcpuBound \in Nat

VARIABLES
    phase,             \* "loaded", "running", then "refused", "exited", "dead"
    layout,            \* the process's maps now
    code,              \* the length of the instruction at each address now
    vcpus,             \* the indices of the live vCPU threads
    tbs,               \* QEMU's translations: [vaddr, userdata]
    has_mapped, mapping_table,
    insn_discovered, insn_executed,
    instructions,      \* the merged table plugin_exit writes
    ran,               \* history: [offset, length] of target code executed
    moved              \* history: the maps changed after they were read

guest == <<layout, code, moved>>
table == <<has_mapped, mapping_table>>
vars == <<phase, guest, vcpus, tbs, table, insn_discovered, insn_executed,
          instructions, ran>>

Init ==
    /\ phase = "loaded"
    /\ layout \in Layouts
    /\ code = Length
    /\ vcpus = {} /\ tbs = {}
    /\ has_mapped = FALSE /\ mapping_table = {}
    /\ insn_discovered = <<>> /\ insn_executed = <<>>
    /\ instructions = <<>>
    /\ ran = {} /\ moved = FALSE

(* Mutant: the table is sized after the arguments are looked at.           *)
InstallSizesLate(argc) ==
    /\ phase = "loaded"
    /\ IF argc = 0
       THEN phase' = "refused" /\ UNCHANGED <<vcpus, insn_executed>>
       ELSE /\ phase' = "running" /\ vcpus' = {0}
            /\ insn_executed' = [v \in 0 .. MaxVcpus - 1 |-> {}]
    /\ UNCHANGED <<guest, tbs, table, insn_discovered, instructions, ran>>

(* qemu_plugin_install: insn_executed is sized before the arguments are    *)
(* looked at; without arguments nothing is registered and QEMU gives up.   *)
Install(argc) ==
    /\ phase = "loaded"
    /\ insn_executed' = [v \in 0 .. MaxVcpus - 1 |-> {}]
    /\ IF argc = 0
       THEN phase' = "refused" /\ UNCHANGED vcpus
       ELSE phase' = "running" /\ vcpus' = {0}
    /\ UNCHANGED <<guest, tbs, table, insn_discovered, instructions, ran>>

(* Mutant: the table of lengths is indexed by the address.                 *)
TranslateByAddress(block) ==
    LET mappings == IF has_mapped THEN mapping_table ELSE ParsedMappings(layout)
        OffsetAt(i) == Resolve(mappings, block[i])
        Found == {i \in DOMAIN block : OffsetAt(i) # NoOffset}
        Addresses == {block[i] : i \in Found}
    IN  /\ phase = "running"
        /\ has_mapped' = TRUE
        /\ mapping_table' = mappings
        /\ insn_discovered' = [a \in DOMAIN insn_discovered \cup Addresses |->
               IF a \in Addresses THEN code[a] ELSE insn_discovered[a]]
        /\ tbs' = tbs \cup {[vaddr |-> block[i],
                             userdata |-> IF i \in Found THEN OffsetAt(i) ELSE Null] :
                                i \in DOMAIN block}
        /\ UNCHANGED <<phase, guest, vcpus, insn_executed, instructions, ran>>

(* Mutant: every length is that of the last instruction of the block.      *)
TranslateLastLength(block) ==
    LET mappings == IF has_mapped THEN mapping_table ELSE ParsedMappings(layout)
        OffsetAt(i) == Resolve(mappings, block[i])
        Found == {i \in DOMAIN block : OffsetAt(i) # NoOffset}
        Offsets == {OffsetAt(i) : i \in Found}
    IN  /\ phase = "running"
        /\ has_mapped' = TRUE
        /\ mapping_table' = mappings
        /\ insn_discovered' = [o \in DOMAIN insn_discovered \cup Offsets |->
               IF o \in Offsets THEN code[block[Len(block)]] ELSE insn_discovered[o]]
        /\ tbs' = tbs \cup {[vaddr |-> block[i],
                             userdata |-> IF i \in Found THEN OffsetAt(i) ELSE Null] :
                                i \in DOMAIN block}
        /\ UNCHANGED <<phase, guest, vcpus, insn_executed, instructions, ran>>

(* vcpu_tb_trans, the whole block. The first translation of the process    *)
(* reads the maps; a later instruction of the block that falls on the same *)
(* offset overwrites the length.                                           *)
Translate(block) ==
    LET mappings == IF has_mapped THEN mapping_table ELSE ParsedMappings(layout)
        OffsetAt(i) == Resolve(mappings, block[i])
        Found == {i \in DOMAIN block : OffsetAt(i) # NoOffset}
        LastAt(o) == CHOOSE i \in Found :
            OffsetAt(i) = o /\ \A j \in Found : OffsetAt(j) = o => j <= i
        Offsets == {OffsetAt(i) : i \in Found}
    IN  /\ phase = "running"
        /\ has_mapped' = TRUE
        /\ mapping_table' = mappings
        /\ insn_discovered' = [o \in DOMAIN insn_discovered \cup Offsets |->
               IF o \in Offsets THEN code[block[LastAt(o)]] ELSE insn_discovered[o]]
        /\ tbs' = tbs \cup {[vaddr |-> block[i],
                             userdata |-> IF i \in Found THEN OffsetAt(i) ELSE Null] :
                                i \in DOMAIN block}
        /\ UNCHANGED <<phase, guest, vcpus, insn_executed, instructions, ran>>

(* Mutant: the offset replaces what the vCPU has recorded.                 *)
ExecuteForgets(v, t) ==
    LET offset == FileOffset(TargetMappings(layout), t.vaddr) IN
    /\ phase = "running" /\ v \in vcpus /\ t \in tbs
    /\ ran' = IF offset = NoOffset THEN ran
              ELSE ran \cup {[offset |-> offset, length |-> code[t.vaddr]]}
    /\ \/ t.userdata = Null /\ UNCHANGED insn_executed
       \/ /\ t.userdata # Null /\ v < MaxVcpus
          /\ insn_executed' = [insn_executed EXCEPT ![v] = {t.userdata}]
    /\ UNCHANGED <<phase, guest, vcpus, tbs, table, insn_discovered, instructions>>

(* vcpu_insn_exec on thread v, before the instruction t runs. The index is *)
(* not checked: past the end of insn_executed the insertion either kills   *)
(* the process or lands outside the table.                                 *)
Execute(v, t) ==
    LET offset == FileOffset(TargetMappings(layout), t.vaddr) IN
    /\ phase = "running" /\ v \in vcpus /\ t \in tbs
    /\ ran' = IF offset = NoOffset THEN ran
              ELSE ran \cup {[offset |-> offset, length |-> code[t.vaddr]]}
    /\ \/ t.userdata = Null /\ UNCHANGED <<phase, insn_executed>>
       \/ /\ t.userdata # Null /\ v < MaxVcpus
          /\ insn_executed' = [insn_executed EXCEPT ![v] = @ \cup {t.userdata}]
          /\ UNCHANGED phase
       \/ /\ t.userdata # Null /\ v >= MaxVcpus
          /\ phase' \in {"running", "dead"}
          /\ UNCHANGED insn_executed
    /\ UNCHANGED <<guest, vcpus, tbs, table, insn_discovered, instructions>>

Recorded == UNION {insn_executed[v] : v \in DOMAIN insn_executed}

(* Mutant: the merge begins with the second vCPU.                          *)
ExitSkipsFirst ==
    LET Merged == UNION {insn_executed[v] : v \in DOMAIN insn_executed \ {0}}
    IN  /\ phase = "running"
        /\ phase' = "exited"
        /\ instructions' = [o \in Merged |-> insn_discovered[o]]
        /\ UNCHANGED <<guest, vcpus, tbs, table, insn_discovered, insn_executed, ran>>

(* plugin_exit up to the output file: the tables of all vCPUs are merged;  *)
(* operator[] would invent the length 0 for an offset never discovered.    *)
Exit ==
    LET LengthOf(o) == IF o \in DOMAIN insn_discovered THEN insn_discovered[o] ELSE 0
    IN  /\ phase = "running"
        /\ phase' = "exited"
        /\ instructions' = [o \in Recorded |-> LengthOf(o)]
        /\ insn_discovered' = [o \in DOMAIN insn_discovered \cup Recorded |-> LengthOf(o)]
        /\ UNCHANGED <<guest, vcpus, tbs, table, insn_executed, ran>>

-----------------------------------------------------------------------------
(* The environment. *)

(* A new thread gets the index after the largest live one. *)
Spawn ==
    \E new \in 0 .. VcpuBound :
        /\ phase = "running"
        /\ new - 1 \in vcpus /\ \A v \in vcpus : v < new
        /\ vcpus' = vcpus \cup {new}
        /\ UNCHANGED <<phase, guest, tbs, table, insn_discovered, insn_executed,
                       instructions, ran>>

ThreadEnds(v) ==
    /\ phase = "running" /\ v \in vcpus /\ vcpus # {v}
    /\ vcpus' = vcpus \ {v}
    /\ UNCHANGED <<phase, guest, tbs, table, insn_discovered, insn_executed,
                   instructions, ran>>

(* The program overwrites an instruction: its translations are dropped.    *)
Rewrite(r) ==
    /\ phase = "running" /\ r \in Rewrites
    /\ code' = [code EXCEPT ![r.vaddr] = r.length]
    /\ tbs' = {t \in tbs : t.vaddr # r.vaddr}
    /\ UNCHANGED <<phase, layout, moved, vcpus, table, insn_discovered,
                   insn_executed, instructions, ran>>

(* The program maps or unmaps files: no old translation survives.          *)
Remap(l) ==
    /\ phase = "running" /\ l \in Layouts \ {layout}
    /\ layout' = l /\ tbs' = {}
    /\ moved' = IF has_mapped THEN TRUE ELSE moved
    /\ UNCHANGED <<phase, code, vcpus, table, insn_discovered, insn_executed,
                   instructions, ran>>

(* A fatal signal or a successful execve: the exit callback never runs.    *)
Die ==
    /\ phase = "running"
    /\ phase' = "dead"
    /\ UNCHANGED <<guest, vcpus, tbs, table, insn_discovered, insn_executed,
                   instructions, ran>>

Next ==
    \/ \E argc \in 0 .. 2 : Install(argc)
    \/ \E b \in Blocks : Translate(b)
    \/ \E v \in vcpus, t \in tbs : Execute(v, t)
    \/ Exit
    \/ Spawn
    \/ \E v \in vcpus : ThreadEnds(v)
    \/ \E r \in Rewrites : Rewrite(r)
    \/ \E l \in Layouts : Remap(l)
    \/ Die

Spec == Init /\ [][Next]_vars

-----------------------------------------------------------------------------
GuestOK ==
    /\ phase \in {"loaded", "running", "refused", "exited", "dead"}
    /\ layout \in Layouts
    /\ code \in [Vaddr -> 1 .. 127]
    /\ vcpus \subseteq 0 .. VcpuBound
    /\ tbs \subseteq [vaddr : Vaddr, userdata : Nat]
    /\ ran \subseteq [offset : Nat, length : 1 .. 127]
    /\ moved \in BOOLEAN

TableOK == has_mapped \in BOOLEAN /\ mapping_table \subseteq Mapping

DiscoveredOK ==
    /\ DOMAIN insn_discovered \subseteq Nat
    /\ \A o \in DOMAIN insn_discovered : insn_discovered[o] \in 0 .. 127

ExecutedOK ==
    /\ phase = "loaded" => DOMAIN insn_executed = {}
    /\ phase # "loaded" => insn_executed \in [0 .. MaxVcpus - 1 -> SUBSET Nat]

TypeOK == GuestOK /\ TableOK /\ DiscoveredOK /\ ExecutedOK

(* Every offset a vCPU has recorded was translated before, so the lookup   *)
(* of its length in plugin_exit never invents one: with any number of      *)
(* threads, rewritten code and changing mappings.                          *)
ExecutedDiscovered == Recorded \subseteq DOMAIN insn_discovered

(* The offsets a capture may lack although they ran: 0, which the callback *)
(* takes for "no offset", and what is mapped after a line of the maps file *)
(* that is longer than update_mapping's buffer.                            *)
MayMiss ==
    {0} \cup UNION { {FileOffset(TargetMappings(l), v) :
                          v \in {u \in Vaddr : AfterLongLine(l, u)}} : l \in Layouts }

(* The capture is exact: the recorded offsets are those of the target's    *)
(* code that ran, on whichever thread and at whichever address. A line too *)
(* long to read loses what lies after it and nothing else. All this until  *)
(* the program maps or unmaps files after the maps were read.              *)
Exact ==
    /\ Recorded \subseteq {r.offset : r \in ran} \ {0}
    /\ {r.offset : r \in ran} \ MayMiss \subseteq Recorded

OffsetsExact == ~ moved => Exact

(* The target's instructions the program may rewrite.                      *)
Rewritten == {FileOffset(TargetMappings(l), r.vaddr) : l \in Layouts, r \in Rewrites}

(* The length written for an offset is that of an instruction that ran     *)
(* there, unless the program rewrites the instruction, and then the table  *)
(* keeps the length of the last translation, which need not have run; or   *)
(* unless the maps changed after they were read.                           *)
LengthsExact ==
    ~ moved =>
        \A o \in DOMAIN instructions :
            \/ o \in Rewritten
            \/ [offset |-> o, length |-> instructions[o]] \in ran

(* Whatever the program maps later, an offset recorded lies in a part of   *)
(* the target that was mapped when the maps file was read.                 *)
OffsetsFromSnapshot ==
    \A o \in Recorded : \E m \in mapping_table :
        m.offset <= o /\ o < m.offset + (m.end - m.begin)

(* An instruction as the log knows it: without its length when the program *)
(* rewrites it.                                                            *)
NoLength == 0
Entry(o, n) == [offset |-> o, length |-> IF o \in Rewritten THEN NoLength ELSE n]

TargetInsn ==
    {Entry(FileOffset(TargetMappings(l), v), Length[v]) : l \in Layouts, v \in Vaddr}

(* A run is a trace log: what it hands over at exit are the instructions   *)
(* of the target it executed, all of them and no other, or nothing. Those  *)
(* it may miss are left out of the log, and with a change of the maps that *)
(* were read the log is lost.                                              *)
Seen == {Entry(r.offset, r.length) : r \in {q \in ran : q.offset \notin MayMiss}}
Lost == moved \/ phase \in {"refused", "dead"}
Log == INSTANCE TraceLog WITH
    Insn <- TargetInsn,
    status <- IF Lost THEN "lost"
              ELSE IF phase = "exited" THEN "delivered" ELSE "open",
    seen <- IF Lost THEN {} ELSE Seen,
    report <- IF Lost THEN {}
              ELSE {Entry(o, instructions[o]) : o \in DOMAIN instructions \ MayMiss}

ImplementsTraceLog == Log!Spec
=============================================================================
