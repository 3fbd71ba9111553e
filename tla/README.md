# A verification development of dynamic-qemu-tracer

dynamic-qemu-tracer finds out which instructions of a program really run, and
uses that to judge static disassemblers. A QEMU plugin records the file offset
and the length of every executed instruction of one binary; tools then compare
the capture with what a disassembler claims. This directory models that
program in TLA+, checks the models with TLC on small instances, and proves
their main properties with TLAPS for every instance.

Line numbers below are those of the sources in `src/`.

## The system

| Component | State | Operations |
|---|---|---|
| mapping table (`capnp-capture.cpp` 51-119) | `mapping_table`, `has_mapped`, the target's name | `update_mapping`, `resolve_mapping` |
| tracing callbacks (`capnp-capture.cpp` 121-162, 288-329) | `insn_discovered` (offset to length), `insn_executed` (one set of offsets per vCPU) | install, translation callback, instruction callback |
| output at exit (`capnp-capture.cpp` 221-283) | the merged `instructions`, `digest`, `base_address`; the output file | merge, md5sum, read, merge with the old capture, write |
| base address (`capnp-capture.cpp` 165-219, `elf-parser.c`) | none | walk over the section headers |
| capture file format (`schema_io.cpp`, `schema.capnp.h`) | the message in a file | `read_version_0`, `read_version_1`, `write_version_0`, `write_version_1` |
| evaluator (`evaluator.cpp`) | the capture, the static list, four counters, three lists | classify, count, report |
| batch evaluator (`batch_evaluator.cpp`) | four counts on the stack, the rows of a CSV | run the evaluator on every capture, write a CSV row |
| objdump wrapper (`objdump_wrapper.cpp`) | a map of addresses | run objdump, parse it, write a version 0 file |
| result printer (`print_result.cpp`), fp analyzer (`fp-analyzer.cpp`) | the mapped binary; the ground truth | one pass over a capture, one over a list |
| benchmark scripts (`wrapper/`, `extract.sh`, ...) | the SPEC run directories | replace binaries by wrappers, run, collect |

**How they interact.** QEMU calls the plugin back: `vcpu_tb_trans` when it
translates a block, which registers `vcpu_insn_exec` with an offset as its
`userdata` for each instruction, and that callback on every execution, on the
thread of the guest thread that executes. At exit `plugin_exit` merges the
tables of all vCPUs and then works on two things it shares with the rest of the
system: the binary on disk (digest, base address) and `<base name>.capnp.out`
in the working directory, which every run of the same program in that directory
reads, adds to and rewrites. The evaluator reads the capture and a version 0 list
later; the batch evaluator runs the evaluator as a child process and parses its
output. The wrappers make SPEC start the tracer instead of the benchmark.

**What is hard in it.**

- A recorded offset needs a length that another callback stored, perhaps on
  another thread, before code was rewritten or mappings changed.
- The maps file is read once and never again, and vCPU indices are used as
  indices of a table of 255 entries.
- Read, merge and write of the capture are separate steps of processes that may
  exit together; a process may be killed between the truncation and the write;
  the binary may change before its digest is taken.
- The readers throw, or return false, or leave their outputs untouched, and the
  callers do not always look.
- The classification has four cases around `lower_bound`, two base-address
  conversions in opposite directions, and looks at one executed instruction only.

**What makes each part correct.** The lookup gives the kernel's file offset. The
tracer records what ran, no more and no less. The capture is of one build and
keeps what runs saved. The evaluator counts everything once and calls an FP only
what the execution contradicts. `PROJECT.json` lists the places where each can go
wrong under "hazards", with the properties that watch them.

## The modules

| Module | Models | Checked by | Proved in |
|---|---|---|---|
| `MappingTable` | the parse of the maps and the address arithmetic, as operators | the runs below | `TracerProofs` |
| `ResolveMapping` | one call of `resolve_mapping`, as its loop | `resolve_mapping` | `ResolveMappingProofs` |
| `TraceLog` | abstract: what a traced run promises | `tracer` | `TracerProofs` |
| `Tracer` | the callbacks and the merge at exit, with QEMU and the guest as environment | `tracer`, `tracer_threads` | `TracerProofs` |
| `CaptureStore` | abstract: what the output file promises | `exit_serial` | `PluginExitProofs` |
| `PluginExit` | `plugin_exit` and the shared output file | `exit_*` | `PluginExitProofs` |
| `CaptureFormat` | the messages the writers make and what the readers answer, as operators | `exit_serial` | `CaptureFormatProofs`, `PluginExitProofs` |
| `Classification` | what a report says, as operators | `evaluator`, `campaign` | `EvaluatorProofs` |
| `Evaluator` | one run of the evaluator | `evaluator` | `EvaluatorProofs` |
| `ElfBase` | `parse_base_address` and the reads of `elf-parser.c` | `elf_base` | `ElfBaseProofs` |
| `BenchSetup` | `runall`, `setup`, the wrappers, `extract.sh` | `bench_setup` | `BenchSetupProofs` |
| `Dataset` | the folder the offline tools share | `campaign` | `CampaignProofs` |
| `ObjdumpWrapper`, `BatchEvaluator`, `ResultPrinter`, `FpAnalyzer` | the offline tools | `campaign` | `CampaignProofs` |
| `Campaign` | their composition, with a careful or a careless user | `campaign` | `CampaignProofs` |

`Tracer` uses `MappingTable`; `ResolveMapping` shows that the operator `Resolve`
is what the loop returns. `Evaluator` reports what `Classification` says, and
`BatchEvaluator` takes the evaluator it runs to do so. `PluginExit` takes from `Tracer` the
set of executed offsets; what is between the two is the variable `instructions`; it takes
the base address of a build, which `ElfBase` finds, as a constant (it is a number of pages,
so never the -1 that means "not parsed"), and an instance of `CaptureFormat` says that its
read and write steps are what the readers and the writers do. A definition whose comment
begins with "Mutant" is a plausible mistake in the one it precedes; put in its place it
makes a property fail, which shows that the property says something about that code.

### MappingTable and ResolveMapping

A line of `/proc/<pid>/maps` is a record (`MapsLine`). `LinesRead` is the `getline` loop that
stops for good at the first line over 511 characters (64), `NamesTarget` the
comparison of the first word of the name (68, 74), `ParsedMappings` the table that
results. `Precedes` is the order of `std::set<mapping_t>` and `AnswersAt` the
mapping at which the loop of 103-116 returns. The reference, `FileOffset` over
`TargetMappings`, reads the same maps without order, buffer or word limit. `Tidy` are the
maps of a target whose name its first word tells apart; `AfterLongLine` is where the
table may lack a mapping, because a line too long came before it.
`ResolveMapping` has one action for each way through the loop body: `Break`
(106-108), `Continue` (109-111), `Found` (112-115), `Exhausted` (118). The parse of
a line into numbers is taken as right.

### Tracer

| Action | Code |
|---|---|
| `Install(argc)` | `qemu_plugin_install`: sizes the table first, refuses without arguments |
| `Translate(block)` | `vcpu_tb_trans`, the whole block, with `update_mapping` on the first call |
| `Execute(v, t)` | `vcpu_insn_exec` on vCPU `v`, just before the instruction executes |
| `Exit` | `plugin_exit` to line 229, `operator[]` inventing the length 0 included |
| `Spawn`, `ThreadEnds`, `Rewrite`, `Remap`, `Die` | QEMU and the guest: threads come and go, code is rewritten, files are mapped, a signal or `execve` ends the process without the exit callback |

Each callback is one step: QEMU translates under a lock, `vcpu_insn_exec` touches
only the entry of its own vCPU, and the exit callback runs after the others are
unregistered. An index past the table is undefined behaviour, and `Execute`
lets the process die or go on without a record of it. `tbs` is QEMU's cache: a
translation stays until the code under it is rewritten or remapped. `ran` is a
history variable, the truth the capture is measured against, and `moved` another one:
the maps changed after they were read. The comment of lines 90-91 assumes that they do not,
and 100 never reads them again; what is said of offsets and lengths (`OffsetsExact`,
`LengthsExact`) ends there.

`TraceLog` promises a log that grows by what is executed and is delivered whole,
or lost whole; it is lost when the exit callback never runs and, in the refinement, when
the maps that were read change (`Lost`). Lengths of instructions that the program rewrites
are left out of it (`Entry`), since the code keeps one length for each offset, and so are
the instructions that `MayMiss` names: the one at offset 0 and those mapped after a line too
long.

### PluginExit

One action for each point where the process touches what others can change:
`EnterExit` (223-229), `Digest` (243-249), `FileExists` (251), `ReadThrows`,
`ReadFails`, `ReadOther`, `ReadSame` (256-272), `BaseAddress` (238, 274-276),
`OpenTruncates` and `OpenFails` (`open_file`), `Write`. A file is absent,
truncated, of version 0 or of version 1; `Unreadable` says when the reader throws:
on a truncated message, on the other schema, and above a number of
instructions, which stands for Cap'n Proto's traversal limit of 64 MiB. The exception
leaves `plugin_exit` through C code and nothing catches it: the process is `"aborted"`,
and what it executed is not saved. `holds` are
the processes whose open descriptor still leads to the file, so that a write after
`make cleanall` goes to a file nobody sees. `Start`, `Execute` and `Fork` say which
builds and offsets a process brings. `Kill` may come at any time; `Rebuild`
and `CleanAll` are the user's.

`CaptureStore` is the abstract output file: a capture of one build that a run of
the same build extends in one step, a run of another build replaces, and a run that
dies at the wrong moment (or one of version 0) spoils until it is removed. That nothing
is written over a spoilt capture is the code as it is, by the throw just named, and no
promise of the repository: if a reader returned false there, as its comment says, line 258
would go on to a write, and `Commit` would have to allow it.

A message is written in one step: `writeMessageToFd` hands all of it to one `writev`, at
the start of a file the process truncated itself, and does not truncate again. When
another process wrote in between, the header at the start decides how much is read, so
the later message counts. A reader that meets a part of a message throws, as it does
right after the truncation. That the kernel cuts the writes of two processes up
and mixes them is not modelled.

### CaptureFormat

A struct has words of data and pointers (`Layout`), as the accessors of `schema.capnp.h`
and the constants they are compiled with lay them out; a pointer is null or leads to a
struct, a text or a list. A file is such a tree, with the number of its words and of
those that are on the disk. The writers set fields of fresh structs, a length as one byte of
its word; the readers take a null pointer for the field's default, refuse one of another
kind (`Refused`), read what lies past a shorter struct as zero, and throw (`Thrown`) when
the message is cut or over the traversal limit. The two versions have no mark in the file
that tells them apart.

`FormatAgrees`, of `PluginExit`, compares this with what that module assumes: of every
message an exit writes, and of every cut of it, the readers return or throw as
`Unreadable`, `ReadSame` and `ReadOther` say.

### Evaluator

`ReadDynamic` and `ReadStatic` (43-62) throw on a file that cannot be decoded and
carry on with what was there before when it cannot be opened, with an uninitialised
base address. `Crash`, `Match`, `Inside` and `Unknown` are the cases of the loop
of 66-117, in the order of the set; `Count` is the loop of 119-125. The lists hold what is
printed, as values; the length in a line of the fplist (`Printed`) is a number where line
108 casts it, and the character of that code where line 81 streams the `int8_t` itself,
which is for a static instruction past the last executed one (`PastLast`). The list files
are taken as given on the command line.

### ElfBase

One action for each read whose length is asserted (`ReadHeader`, `ReadHeader64`,
`ReadSection`; `Abort` is a failed assertion), and for each way through the loop over
the table (`Skip`, `Take`, `NoneLeft`). Addresses are unsigned numbers of the
class, `Unsigned` takes a number into its range, the base is a signed number of 64 bits,
and `Displacement` the difference as C computes it. `Half` is half the addresses of a
class: 2^31 and 2^63 in the source, small in the run. The reads are asserted, and the build
does not define `NDEBUG`. An abort is one of the deaths that `Kill` stands for in
`PluginExit`. The loops for the two classes are the same; the map gives the lines of one of
them.

### BenchSetup

`runall` and `setup` command by command: `Copy` (37-39), `Chdir` (41), `Move`, `Wrap`
and `Bind` (the three effects of `setup`), `Screen` (43). A command that fails is
followed by the next, as in the shell: `Reachable` says which paths lead where after
the last `cd`. Sessions, wrappers, `extract.sh` and the user run in between. A directory's
capture is kept as the build it is of (0: none), and `RunSetup`, which is what the README
calls trash and runsetup, may follow another compilation (`build`).

`extract.sh` is one action for each copy: `CopyCapture` (67), then `CopyBinary` (69), for one
program after the other. Each may fail or find nothing, which the script does not look
at, and then the output keeps what it had; `ExtractInterrupted` ends a pass anywhere.
An output has the build of the capture and of the binary apart, so that a stale capture
next to a new binary is a state of the model. The copies to be stripped (70-71) and of
`speccmds.out` (68) are left out, and so is a copy that reads a capture while a run is writing
it. `copied` and `paired` are history variables of the passes.

### Dataset, the offline tools and Campaign

`Dataset` has the binaries, captures and lists of each program, by the build they are
of; its `Extract` is a pass of `extract.sh` over one program, which brings either file, both
or none. Each tool is a loop over one file after the other, with a step between two accesses
to the folder: `ObjdumpWrapper` dumps and parses, truncates, writes; `BatchEvaluator` has
its child read the capture, then the list; `ResultPrinter` maps the binary, reads the
capture, and prints line by line from the mapping, which shows what the file has by then.
`FpAnalyzer` is one step. A line of a dump is told by whether it begins with a blank,
has a colon, and by its tabs. The dump is a file (`dumps`) that a shell redirects
`objdump` into, and neither the shell's nor `objdump`'s status is looked at (55-59): unless the
user is careful, `Redirected` lets it be cut anywhere (`Cuts`), be empty, or stay that of an
earlier run, where the shell cannot open it. A cut keeps what comes first in the order of
addresses: `objdump` prints a section in this order, and that it comes to the sections in
the order of their addresses, as linkers lay them out, is an assumption.
Of a line that is cut itself the parse makes what it makes of the whole line or of none,
since it takes the address only with two tabs behind it. When the evaluator
prints no report, the row has what the four variables held (`EvaluateWithoutReport`).
`WrapperThrows` and `BatchThrows` are a failing `popen` (`objdump_wrapper.cpp` 15-17,
`batch_evaluator.cpp` 9-11), which no caller catches, so that the tool ends in the middle of
its loop.

`Campaign` interleaves them. `careful` says that the user follows the README: a capture
is extracted with its binary, then lists are made, then evaluated, each to its
end, with space on the disk and processes to spare. Otherwise tools run at the same
time, a capture or a binary is extracted without the other, those that write files are
killed, fail to open what they write, and fail to start a child, and `objdump` stops midway.

## The runs

| Run | Question | Instance |
|---|---|---|
| `resolve_mapping` | Does the loop end, and return the kernel's offset? | every well-formed table of at most three mappings over 0..5 with two file offsets; every address 0..5 |
| `tracer` | Is the capture exact, and is the run a trace log, with threads and rewritten code, until the maps change, and what holds after that? | six instructions in four blocks; a loader, two segments with a shared page, offset 0, a mapping without a file, a line too long to read and a segment of the target after it; the same with a library in the place of the second segment; up to two vCPUs, two rewrites |
| `tracer_threads` (violation) | Is the capture exact whatever the number of threads? | three vCPUs, a table of two |
| `exit_serial` | Does one run after another keep what was saved, and is the file what the readers make of it? | three processes, two builds that share an offset, both versions, a reader that takes one instruction |
| `exit_concurrent` | What can concurrent exits do to a capture? | two processes, one of which may be a fork, two builds, both versions |
| `exit_race` (violation) | Can concurrent exits lose a run? | two processes, one build |
| `exit_rebuild` (violation) | Are the instructions of a capture those of the build it names, if the binary may be rebuilt meanwhile? | two processes in turn, two builds with another instruction at one offset |
| `exit_unreadable` (violation) | Does a read that fails return? | two processes in turn, one build, no limit to speak of |
| `evaluator` | Do the counts add up, and are FPs real and complete? | captures of up to three instructions of lengths 1 to 3, two base addresses, 32 static lists, missing and undecodable files |
| `bench_setup` | Do the scripts keep every binary, and sessions apart, and matching files together, whatever is interrupted? | three programs, two starts, two compilations |
| `elf_base` | Is the base address right, and never made up? | up to three sections of six kinds, both classes, cut short anywhere; classes of 4 and 16 addresses |
| `campaign` | Does a user who follows the README get the right CSV and printout, and do the tools agree, and what is in a list after failures? | two programs, three builds, six commands of a careful user or three of a careless one |

**Why the bounds are enough.** The lookup depends on an address and the mappings
before, at and after it: three. In the tracer, two vCPUs suffice for two
sets to be merged and for the second index to be used again after its thread ended; two
layouts let a mapping of the target appear and disappear, before and after the maps are read.
In the store, one process makes a capture, a second extends or replaces it, a third
sees the result, and a limit of one instruction makes the merged capture too large.
In the evaluator, three instructions give a first, a middle and a last one, and the
lengths make them overlap, touch or leave gaps. In the campaign a build is one of three
sorts (all found, code missed and made up, nothing executed), and six commands
list, evaluate, extract again, list, evaluate and look at the result; three let two tools
run into each other and an extraction. Two starts of `runall` are one that is
interrupted and one that is not, and two compilations let the old capture meet the new
binary. `VcpuBound`, `MaxStarts`, `MaxBuilds` and `MaxCommands` are bounds of the
model; `MaxVcpus` is the 255 of the source, made small.

**Deadlock** is not checked: all the programs end.

**Symmetry.** The campaign's programs are interchangeable, and so are the exits' processes
where no property of the run is a temporal formula that symmetry could upset
(`exit_concurrent` goes without).

**Fairness.** `ResolveMapping`, `ElfBase` and `Evaluator` are sequential code that runs until it
returns: weak fairness of `Next` only says that the thread is scheduled. The other
modules claim no liveness: a traced program need not end, and a process may be
killed at every point.

### What the runs show

The properties that hold:

- `ReturnsFileOffset`, `AlwaysReturns`: the early `break` never hides a mapping.
- `OffsetsExact`, `LengthsExact`, `ImplementsTraceLog`: with enough table entries, and
  until the maps change after they were read, the capture is what ran, except for an
  instruction at file offset 0, which the instruction callback cannot tell from "none", and
  those mapped after a line of the maps that is too long, where the parse ends. Lengths are
  exact for what the program does not rewrite.
- `ExecutedDiscovered`: the lookup of a length at exit never invents one, even when
  the maps change. `OffsetsFromSnapshot`: an offset recorded after a remap may be
  wrong, but stays within the parts of the file that were mapped at first.
- `NoLostRun`, `ImplementsStore` when runs come one at a time; `SoundCapture` even when
  they do not. `LossNeedsOverlap`: a run is lost only if two exits are between what they
  read of the file and what they write into it at the same time, and never because runs
  overlap otherwise. `CapturedWasRun`: even then nothing is made up, every instruction of a
  file was executed by a run of its build, and one of them is in it as a whole.
- `FormatAgrees`: a capture read back is the capture written, lengths up to 127 and base
  address included, and no file cut short or of the other version is taken for one.
- `Conservation`, `FpsAreContradicted`, `FpsAreComplete` and `ReportUnlessUndecodable`
  of the evaluator, and `ReportClassifies`: its loops compute `Classify`. A line of the
  fplist has the true length, but as a character past the last executed instruction
  (81). `FpsAreComplete` needs the executed instructions not to overlap, and
  `ReportUnlessUndecodable` a capture that is there and is not empty.
- `BaseLocatesCode`, when all executable sections are as far from their place in the
  file, and for 32-bit files no section is further into the file than its address (192
  and 207: the unsigned difference of 32 bits is kept as a base of almost 2^32).
  `ShortNeverReturns`, `AlwaysEnds`.
- `OriginalsSurvive`, `SessionsTrace`, `SessionsApart`, `WholePassesMatch`, when every run
  directory is there, the SPEC path is absolute and `runall` is not started on
  directories that are set up already. `WholePassesMatch`: the output may have a capture of one
  build next to the binary of another, but not where the last pass of `extract.sh` copied both
  files, and the directories were not set up anew between the two copies.
- `ListsAreOfOneDump` for any user, whatever is killed or fails to start: a list may lack the
  end of its dump, and everything if the dump is empty, which nothing in the list tells, but
  it never has addresses of two dumps or a gap. `CsvIsRight` and `PrintoutIsRight` for a
  careful one; the row of a program of which nothing was executed repeats the numbers of the
  row before, and `CsvIsRight` says nothing of its counts;
  `ToolsAgree`: TP, confirmed FP and FN of the evaluator are at most those of
  `fp-analyzer` on the same list, if the ground truth is right and addresses fit an
  `int` (`fp-analyzer.cpp` 76).

The disagreements between the code and what is said of it ("findings" in
`PROJECT.json`):

- `tracer_threads`: instructions of a thread past the 255th index are lost.
- `exit_race`: of two processes that exit together, both look at the file before either
  writes, and what the earlier one wrote is lost.
- `exit_rebuild`: a run executes an instruction of one build, the program is rebuilt before the
  run's md5sum, and the capture has that instruction under the digest of the other build.
- `exit_unreadable`: a run is killed between truncation and write; the next one throws while it
  reads what is left, and ends without saving anything, where `schema_io.hpp` 17 speaks of
  a return value and lines 256-258 are ready to go on with it.

Seen in the source and not made into runs: a path with a space is never found in the
maps (68; the theorem `CaptureIsExact` assumes such names away by `TidyMaps`), nor
is it quoted for md5sum (246; the theorem `CaptureIsSound` assumes `Md5Works`); the
length in a line of the fplist that is about the last executed instruction is printed as a
character (`evaluator.cpp` 81), against 108 and the comment of 107, "Expected offset, expected
length, actual offset disassembled": it is in the model, as `AsCharacter`; an empty capture
makes the evaluator dereference `rbegin` of an empty map (76), which is the action `Crash`.
With `RerunAnytime`, without `Absolute`, or with a program that was not built, TLC finds
`OriginalsSurvive` violated: `setup` moves a wrapper over the binary. A row without a report
repeats the numbers of the row before (`batch_evaluator.cpp` 54), a dump that was cut short
is taken for a whole one (`objdump_wrapper.cpp` 55-59), and nothing compares the build a
list is of with the digest of the capture.

## The proofs

| Theorem | States | Assumes |
|---|---|---|
| `ResolveIsFileOffset` | `Resolve` is `FileOffset` | a well-formed table |
| `ResolveParsed` | on the parsed maps, `Resolve` is `FileOffset`, or nothing after a long line | `Tidy` |
| `LoopReturnsFileOffset` | `Spec => []ReturnsFileOffset` | the module's `ASSUME` |
| `TracerTypeOK`, `ExecutedIsDiscovered`, `RecordedFromSnapshot` | `TypeOK`, `ExecutedDiscovered`, `OffsetsFromSnapshot` | the module's `ASSUME` |
| `CaptureIsExact` | `Spec => []OffsetsExact` | `TidyMaps`, `VcpuBound < MaxVcpus` |
| `LengthsAreExact`, `TracerIsTraceLog` | `LengthsExact`, `Spec => ImplementsTraceLog` | as before, and `OneFile` |
| `ExitTypeOK` | `Spec => []TypeOK` | the module's `ASSUME` |
| `CaptureIsSound` | `Spec => []SoundCapture` | `Md5Works`, no rebuild during a trace |
| `NothingMadeUp` | `Spec => []CapturedWasRun` | `Md5Works`, no rebuild during a trace |
| `LostRunsOverlapped` | `Spec => LossNeedsOverlap` | the module's `ASSUME` |
| `ApartIsStore` | `ImplementsStore` | `[]ExitsApart`, `Md5Works`, no rebuild during a trace |
| `SerialLosesNothing`, `FileIsStore` | their corollaries | `Serial` in place of `[]ExitsApart` |
| `Version1ComesBack`, `Version0ComesBack` | the reader returns what the writer was given, or throws above the limit | a finite table of lengths a signed byte holds |
| `OtherVersionThrows` | each reader throws on the other version | |
| `ExitFormatAgrees` | `Spec => []FormatAgrees` | `Md5Works`, no rebuild during a trace, finitely many instructions |
| `ElfTypeCorrect`, `ShortFilesAbort`, `BaseIsRight` | `TypeOK`, `ShortNeverReturns`, `BaseLocatesCode` | the module's `ASSUME` |
| `EvaluatorTypeOK`, `CountsConserved`, `FpsAreWitnessed`, `NearestIsEnough`, `ReportIsClassification` | `TypeOK`, `Conservation`, `FpsAreContradicted`, `FpsAreComplete`, `ReportClassifies` | the module's `ASSUME` |
| `CampaignTypeOK`, `ListsStayOfOneDump`, `CsvStaysRight`, `PrintoutStaysRight`, `ToolsStayAgreed` | `TypeOK`, `ListsAreOfOneDump`, `CsvIsRight`, `PrintoutIsRight`, `ToolsAgree` | the modules' `ASSUME` |
| `BenchTypeOK` | `Spec => []TypeOK` | the module's `ASSUME` |
| `ProgramsAreKept`, `SessionsAreTraced`, `SessionsStayApart`, `WholePassesStayMatched` | `OriginalsSurvive`, `SessionsTrace`, `SessionsApart`, `WholePassesMatch` | `Absolute`, `~ RerunAnytime`, every program built |
| `StepsRunOut`, in `ResolveMappingProofs`, `ElfBaseProofs`, `EvaluatorProofs` | each step leaves fewer, of a natural number | the modules' `ASSUME`; for the first one, finite tables |

The arguments:

- **Lookup.** In a well-formed table at most one mapping covers an address, and all
  mappings before it in set order end below the address. The loop's invariant is that
  what was skipped ends at or below the address. For `ResolveParsed`, the lines are in the
  order of their addresses, so that what lies before the first line too long is parsed.
- **Tracer.** `ExecutedDiscovered` is not inductive: a callback records the `userdata`
  of a translation, so the invariant adds that the `userdata` of every translation in
  QEMU's cache is already in `insn_discovered`. For `OffsetsExact` it adds that a
  translation's `userdata` is the file offset of its address (or `Null`), for which the
  table must be the one the maps still give. A change of the maps that does not set `moved`
  comes before the first translation, when nothing is registered, run or recorded
  (`SnapInv`, `EarlyRemap`), so that all this starts anew. The theorem's assumptions are what the
  violation run and the remarks above show to be needed. `OffsetsFromSnapshot` needs no
  assumption: whatever moved, a `userdata` came out of the table. For the lengths, `LInv`
  says that what is stored for an offset, and what ran there, is the length of an
  instruction of the target there, and `OneFile` that there is one such instruction
  unless it is rewritten: the addresses that map one page of the file show one. The
  refinement maps each action: `Execute` is a step of the log when the instruction is new,
  `Exit` delivers it, the other ends and a late change of the maps lose it (`LogAbandons`).
- **Exits.** For `SoundCapture` the invariant follows the locals through the exit: the
  executed offsets are of the build loaded, which is the one on disk as long as
  a process lives, so are the digest, the instructions merged from a capture with the
  same digest, and the base address. `WInv` adds that
  what a process holds was executed by runs of its build; no run takes back what it
  executed, so that this stays true of the file (`NothingMadeUp`). For `LostRunsOverlapped`,
  what a process between its read and its write holds includes the file, because only
  another such process could have changed it: the invariant is preserved by the steps of
  a behaviour of `[]ExitsApart`, and by those of any behaviour of `Serial`, where one process
  lives at a time. `RInv` adds, for the
  same process, that it could read the file it is about to replace and holds what that had
  of its build; with soundness (`LastSound`) its write is then the abstract step that extends or
  replaces the capture.
- **Format.** The layout is followed field by field through the writers and the readers.
  A table is recovered from the set of its entries because no two of them have one
  offset. `ExitFormatAgrees` takes from the exits' invariants that what is written is such
  a table; most of its length is there because the operators of two instances are
  different symbols to the prover, and have to be shown equal one by one.
- **Evaluator.** `CInv` counts TP, FP and UNK against the part of the static list
  visited so far and FN against the part of the executed ones. At the end
  `FoundAreMatched` matches the executed instructions that were found with the static
  ones that were matched, by the bijection that takes off the base address. `FInv`
  rests on `ElemIsNearest`, for which a finite set of integers is shown to have a
  greatest element; the length it prints is that of the same element. `GInv` counts FP
  against `Confirmed`, with the element before `lower_bound` as the nearest one, for
  `ReportClassifies`.
- **Campaign.** A raw dump is a cut of what `objdump` prints for one build (`CutDumps`), and the
  wrapper's map is empty between two files, so that a list is what the parse makes of a cut
  (`OneDumpLists`, inductive with the types), from which `ListsAreOfOneDump` follows by
  the order of the addresses. For a careful user `InTurn` says which lists are those of the
  captures while the wrapper goes through them, and `RowsRight` which programs have their
  row; `Printed` says that what was printed are the offsets that are not left, in order.
  `AInv` keeps a row and an analysis what they were computed from; that they agree is then
  counting.
- **Benchmark scripts.** `Stage` says for each directory whether it is untouched, moved or
  wrapped, from where `runall` is; a session belongs to a wrapped directory. `PInv` says that
  between the two copies of a pass the capture copied is that of the build in the directory,
  unless it was set up anew since; a directory with a capture has been wrapped, so that what
  the second copy takes is the program.

- **Base address.** The invariant says that the table is what the file holds, as far as it
  was read, that the walk has met no code before its place, and that the base is that of
  the section where it stopped. `WrapsUndo` is the arithmetic: the difference wraps once,
  its reading as a signed number once more, and the addition of the offset takes both back.

Every invariant and every action property that a passing run checks is proved. Only
model-checked are the liveness properties `AlwaysReturns`, `AlwaysEnds` and
`ReportUnlessUndecodable`, whose fairness is out of the prover's reach. Of each of them
`StepsRunOut` proves one half, that the loops cannot go on for ever; that they do not get
stuck before the end is TLC's.

## Not modelled, and the plan

What is left: writes of two exits that the kernel cuts up and mixes, in `PluginExit`; a
capture that `extract.sh` copies while a run is writing it, in `BenchSetup`.

Not planned: the schema that `schema.capnp.c++` holds as constants for reflection, and the
generated accessors that nothing calls; the text of disassembled
instructions; the functions of `elf-parser.c` that nothing calls; files in the tools'
folders that do not belong there; log messages; of the build files everything but
`make cleanall`.
