-------------------------- MODULE PluginExitProofs --------------------------
(***************************************************************************)
(* What holds of the output file for any number of processes and builds.   *)
(***************************************************************************)
EXTENDS PluginExit, FiniteSetTheorems, TLAPS

(* A process that has not started has executed nothing. *)
Fresh == \A p \in Proc : pc[p] = "idle" => executed[p] = {}

TInv == TypeOK /\ Fresh

LEMMA InitTInv == Init => TInv
BY PluginExitAssumption
DEF Init, TInv, TypeOK, Fresh, Absent, Content, IsInsns, Ended, Lengths

(* What map::insert yields has the keys and the lengths of the two maps.   *)
LEMMA InsertAllIsInsns ==
    ASSUME NEW m, NEW other, IsInsns(m), IsInsns(other)
    PROVE  /\ IsInsns(InsertAll(m, other))
           /\ DOMAIN InsertAll(m, other) = DOMAIN m \cup DOMAIN other
BY DEF IsInsns, InsertAll

(* The message a process writes is well-formed. *)
LEMMA MessageIsTyped ==
    ASSUME TInv, NEW p \in Proc, pc[p] = "write"
    PROVE  /\ Message(p).kind \in {"v0", "v1"}
           /\ Message(p).digest \in Build \cup {NoDigest}
           /\ Message(p).base \in Int
           /\ IsInsns(Message(p).insns)
<1>1. base_address[p] \in Int /\ IsInsns(instructions[p])
  BY DEF TInv, TypeOK
<1>2. digest[p] \in Build \cup {NoDigest}
  BY DEF TInv, TypeOK
<1>3. CASE version[p] = 0
  BY <1>1, <1>3 DEF Message, Content, IsInsns, Lengths
<1>4. CASE version[p] # 0
  BY <1>1, <1>2, <1>4 DEF Message, Content
<1> QED
  BY <1>3, <1>4

LEMMA NextTInv == TInv /\ [Next]_vars => TInv'
<1> SUFFICES ASSUME TInv, [Next]_vars
             PROVE  TInv'
  OBVIOUS
<1> USE PluginExitAssumption
<1> USE DEF TInv, TypeOK, Fresh, Ended, Goto, process, locals, output
<1>1. ASSUME NEW p \in Proc, NEW v \in Versions, Start(p, v)
      PROVE  TInv'
  BY <1>1 DEF Start
<1>2. ASSUME NEW p \in Proc, NEW b \in Build, NEW o \in DOMAIN Code[b], Execute(p, o)
      PROVE  TInv'
  BY <1>2 DEF Execute
<1>3. ASSUME NEW p \in Proc, NEW q \in Proc, Fork(p, q)
      PROVE  TInv'
  BY <1>3 DEF Fork
<1>4. ASSUME NEW p \in Proc, EnterExit(p)
      PROVE  TInv'
  <2>1. IsInsns([o \in executed[p] |-> Code[loaded[p]][o]])
    BY DEF IsInsns, Lengths
  <2> QED
    BY <1>4, <2>1 DEF EnterExit
<1>5. ASSUME NEW p \in Proc, Digest(p)
      PROVE  TInv'
  BY <1>5 DEF Digest
<1>6. ASSUME NEW p \in Proc, FileExists(p)
      PROVE  TInv'
  BY <1>6 DEF FileExists
<1>7. ASSUME NEW p \in Proc, ReadThrows(p)
      PROVE  TInv'
  BY <1>7 DEF ReadThrows
<1>8. ASSUME NEW p \in Proc, ReadFails(p)
      PROVE  TInv'
  BY <1>8 DEF ReadFails
<1>9. ASSUME NEW p \in Proc, ReadOther(p)
      PROVE  TInv'
  BY <1>9 DEF ReadOther
<1>10. ASSUME NEW p \in Proc, ReadSame(p)
       PROVE  TInv'
  <2>1. IsInsns(InsertAll(instructions[p], file.insns))
    BY InsertAllIsInsns
  <2> QED
    BY <1>10, <2>1 DEF ReadSame
<1>11. ASSUME NEW p \in Proc, BaseAddress(p)
       PROVE  TInv'
  BY <1>11 DEF BaseAddress
<1>12. ASSUME NEW p \in Proc, OpenTruncates(p)
       PROVE  TInv'
  BY <1>12 DEF OpenTruncates, Truncated, Content, IsInsns
<1>13. ASSUME NEW p \in Proc, OpenFails(p)
       PROVE  TInv'
  BY <1>13 DEF OpenFails
<1>14. ASSUME NEW p \in Proc, Write(p)
       PROVE  TInv'
  BY <1>14, MessageIsTyped DEF Write
<1>15. ASSUME NEW p \in Proc, Kill(p)
       PROVE  TInv'
  BY <1>15 DEF Kill, Live
<1>16. ASSUME NEW b \in Build, Rebuild(b)
       PROVE  TInv'
  BY <1>16 DEF Rebuild
<1>17. CASE CleanAll
  BY <1>17 DEF CleanAll, Absent, Content, IsInsns
<1>18. CASE UNCHANGED vars
  BY <1>18 DEF vars
<1> HIDE DEF TInv
<1> QED
  BY <1>1, <1>2, <1>3, <1>4, <1>5, <1>6, <1>7, <1>8, <1>9, <1>10, <1>11, <1>12,
     <1>13, <1>14, <1>15, <1>16, <1>17, <1>18 DEF Next, ExitStep

(* Every variable keeps its type, for any processes, builds and settings.  *)
THEOREM ExitTypeOK == Spec => []TypeOK
<1>1. TInv => TypeOK
  BY DEF TInv
<1> QED
  BY InitTInv, NextTInv, <1>1, PTL DEF Spec

-----------------------------------------------------------------------------
(* Soundness of the capture, where md5sum works and no build happens while *)
(* a process runs. Everything a process takes from the binary on disk in   *)
(* plugin_exit is then of the build it executes, and everything it takes   *)
(* from the file is of the build its digest names.                         *)

AgreesWith(insns, b) ==
    \A o \in DOMAIN insns : o \in DOMAIN Code[b] /\ insns[o] = Code[b][o]

Sound(f) ==
    /\ f.digest \in Build
    /\ f.base = Base[f.digest]
    /\ AgreesWith(f.insns, f.digest)

Exiting == {"digest", "exists", "read", "base", "open", "write"}

RunsDisk == \A p \in Proc : Live(p) => loaded[p] = disk

DigestIsLoaded ==
    \A p \in Proc :
        \/ pc[p] \in {"exists", "read"}
        \/ pc[p] \in {"base", "open", "write"} /\ version[p] # 0
        => digest[p] = loaded[p]

InstructionsAgree ==
    \A p \in Proc : pc[p] \in Exiting => AgreesWith(instructions[p], loaded[p])

BaseIsLoaded ==
    \A p \in Proc :
        /\ pc[p] \in {"idle", "tracing"} => base_address[p] = -1
        /\ pc[p] \in Exiting \ {"open", "write"} =>
               base_address[p] \in {-1, Base[loaded[p]]}
        /\ pc[p] \in {"open", "write"} => base_address[p] = Base[loaded[p]]

SInv ==
    /\ RunsDisk /\ DigestIsLoaded /\ InstructionsAgree /\ BaseIsLoaded
    /\ file.kind = "v1" => Sound(file)

(* Two tables that agree with a build still do when they are merged.       *)
LEMMA MergeAgrees ==
    ASSUME NEW m, NEW other, NEW b, AgreesWith(m, b), AgreesWith(other, b)
    PROVE  AgreesWith(InsertAll(m, other), b)
BY DEF AgreesWith, InsertAll

LEMMA InitSInv == Init => SInv
BY DEF Init, SInv, RunsDisk, DigestIsLoaded, InstructionsAgree, BaseIsLoaded,
       Live, Exiting, Ended, Absent, Content

LEMMA NextSInv ==
    ASSUME Md5Works, ~ RebuildAnytime
    PROVE  TInv /\ SInv /\ [Next]_vars => SInv'
<1> SUFFICES ASSUME TInv, SInv, [Next]_vars
             PROVE  SInv'
  OBVIOUS
<1> USE PluginExitAssumption
<1> USE DEF TInv, TypeOK, Fresh, Ended, Goto, process, locals, output
<1> USE DEF SInv, RunsDisk, DigestIsLoaded, InstructionsAgree, BaseIsLoaded,
            Exiting, Sound, Live
<1>1. ASSUME NEW p \in Proc, NEW v \in Versions, Start(p, v)
      PROVE  SInv'
  BY <1>1 DEF Start
<1>2. ASSUME NEW p \in Proc, NEW b \in Build, NEW o \in DOMAIN Code[b], Execute(p, o)
      PROVE  SInv'
  BY <1>2 DEF Execute
<1>3. ASSUME NEW p \in Proc, NEW q \in Proc, Fork(p, q)
      PROVE  SInv'
  BY <1>3 DEF Fork
<1>4. ASSUME NEW p \in Proc, EnterExit(p)
      PROVE  SInv'
  <2>1. AgreesWith([o \in executed[p] |-> Code[loaded[p]][o]], loaded[p])
    <3>1. executed[p] \subseteq DOMAIN Code[loaded[p]]
      OBVIOUS
    <3> HIDE DEF TInv, SInv
    <3> QED
      BY <3>1 DEF AgreesWith
  <2>2. AgreesWith(instructions'[p], loaded[p])
    BY <1>4, <2>1 DEF EnterExit
  <2> QED
    BY <1>4, <2>2 DEF EnterExit
<1>5. ASSUME NEW p \in Proc, Digest(p)
      PROVE  SInv'
  BY <1>5 DEF Digest
<1>6. ASSUME NEW p \in Proc, FileExists(p)
      PROVE  SInv'
  BY <1>6 DEF FileExists
<1>7. ASSUME NEW p \in Proc, ReadThrows(p)
      PROVE  SInv'
  BY <1>7 DEF ReadThrows
<1>8. ASSUME NEW p \in Proc, ReadFails(p)
      PROVE  SInv'
  BY <1>8 DEF ReadFails
<1>9. ASSUME NEW p \in Proc, ReadOther(p)
      PROVE  SInv'
  BY <1>9 DEF ReadOther
<1>10. ASSUME NEW p \in Proc, ReadSame(p)
       PROVE  SInv'
  <2>1. AgreesWith(InsertAll(instructions[p], file.insns), loaded[p])
    <3>1. file.kind = "v1" /\ file.digest = loaded[p]
      BY <1>10 DEF ReadSame, Unreadable
    <3> QED
      BY <1>10, <3>1, MergeAgrees DEF ReadSame
  <2> QED
    BY <1>10, <2>1 DEF ReadSame, Unreadable
<1>11. ASSUME NEW p \in Proc, BaseAddress(p)
       PROVE  SInv'
  BY <1>11 DEF BaseAddress
<1>12. ASSUME NEW p \in Proc, OpenTruncates(p)
       PROVE  SInv'
  BY <1>12 DEF OpenTruncates, Truncated, Content
<1>13. ASSUME NEW p \in Proc, OpenFails(p)
       PROVE  SInv'
  BY <1>13 DEF OpenFails
<1>14. ASSUME NEW p \in Proc, Write(p)
       PROVE  SInv'
  <2>1. Sound(Message(p)) \/ Message(p).kind = "v0"
    BY <1>14 DEF Write, Message, Content, Sound
  <2> QED
    BY <1>14, <2>1 DEF Write
<1>15. ASSUME NEW p \in Proc, Kill(p)
       PROVE  SInv'
  BY <1>15 DEF Kill
<1>16. ASSUME NEW b \in Build, Rebuild(b)
       PROVE  SInv'
  BY <1>16 DEF Rebuild
<1>17. CASE CleanAll
  BY <1>17 DEF CleanAll, Absent, Content
<1>18. CASE UNCHANGED vars
  BY <1>18 DEF vars
<1> HIDE DEF TInv, SInv
<1> QED
  BY <1>1, <1>2, <1>3, <1>4, <1>5, <1>6, <1>7, <1>8, <1>9, <1>10, <1>11, <1>12,
     <1>13, <1>14, <1>15, <1>16, <1>17, <1>18 DEF Next, ExitStep

LEMMA SInvIsSound == SInv => SoundCapture
BY DEF SInv, Sound, AgreesWith, SoundCapture, InsnsOfDigest

(* For any number of processes, exiting together or one by one, and any    *)
(* builds: a capture that can be read describes the build its digest names,*)
(* with that build's base address.                                         *)
THEOREM CaptureIsSound ==
    ASSUME Md5Works, ~ RebuildAnytime
    PROVE  Spec => []SoundCapture
<1>1. TInv /\ SInv /\ [Next]_vars => SInv'
  BY NextSInv
<1> QED
  BY InitTInv, NextTInv, InitSInv, <1>1, SInvIsSound, PTL DEF Spec

-----------------------------------------------------------------------------
(* Nothing is made up. What a process holds in plugin_exit was executed by *)
(* runs of the build it executes: by itself, or by those whose instructions*)
(* were in the capture it read.                                            *)

HoldsRun ==
    \A p \in Proc : pc[p] \in Exiting =>
        /\ executed[p] \subseteq DOMAIN instructions[p]
        /\ \A o \in DOMAIN instructions[p] : WasRun(o, loaded[p])
        /\ version[p] = 0 => DOMAIN instructions[p] = executed[p]
        /\ pc[p] \in {"digest", "exists", "read"} => version[p] # 0

WInv == HoldsRun /\ CapturedWasRun

LEMMA InitWInv == Init => WInv
BY DEF Init, WInv, HoldsRun, CapturedWasRun, Exiting, Absent, Content

(* What was executed once stays executed.                                  *)
LEMMA RunsStay ==
    ASSUME TInv, [Next]_vars
    PROVE  /\ \A o, b : WasRun(o, b) => \E q \in Proc : loaded'[q] = b /\ o \in executed'[q]
           /\ \A p \in Proc : pc[p] = "done" =>
                 /\ pc'[p] = "done" /\ version'[p] = version[p]
                 /\ loaded'[p] = loaded[p] /\ executed'[p] = executed[p]
<1> USE DEF TInv, TypeOK, Fresh
<1>1. \A p \in Proc : executed[p] # {} => loaded'[p] = loaded[p] /\ executed[p] \subseteq executed'[p]
  BY DEF Next, ExitStep, Start, Execute, Fork, EnterExit, Digest, FileExists, ReadThrows,
         ReadFails, ReadOther, ReadSame, BaseAddress, OpenTruncates, OpenFails, Write,
         Kill, Rebuild, CleanAll, vars, process
<1>2. \A p \in Proc : pc[p] = "done" =>
         /\ pc'[p] = "done" /\ version'[p] = version[p]
         /\ loaded'[p] = loaded[p] /\ executed'[p] = executed[p]
  BY DEF Next, ExitStep, Start, Execute, Fork, EnterExit, Digest, FileExists, ReadThrows,
         ReadFails, ReadOther, ReadSame, BaseAddress, OpenTruncates, OpenFails, Write,
         Kill, Rebuild, CleanAll, vars, process, Goto, Live, Ended
<1> HIDE DEF TInv
<1> QED
  BY <1>1, <1>2 DEF WasRun

(* A capture that stays what it is stays what was run.                     *)
LEMMA CapturedStays ==
    ASSUME TInv, [Next]_vars, CapturedWasRun,
           file' = file \/ file'.kind \notin {"v0", "v1"}
    PROVE  CapturedWasRun'
<1>1. CASE file'.kind \notin {"v0", "v1"}
  BY <1>1 DEF CapturedWasRun
<1>2. CASE file' = file
  <2>1. ASSUME file.kind = "v1", NEW o \in DOMAIN file.insns
        PROVE  \E q \in Proc : loaded'[q] = file.digest /\ o \in executed'[q]
    BY <1>2, <2>1, RunsStay DEF CapturedWasRun
  <2>2. ASSUME file.kind = "v1"
        PROVE  \E p \in Proc : /\ pc'[p] = "done" /\ loaded'[p] = file.digest
                               /\ executed'[p] \subseteq DOMAIN file.insns
    BY <2>2, RunsStay DEF CapturedWasRun
  <2>3. ASSUME file.kind = "v0"
        PROVE  \E p \in Proc :
                  /\ pc'[p] = "done" /\ version'[p] = 0
                  /\ DOMAIN file.insns = {o + Base[loaded'[p]] : o \in executed'[p]}
    <3>1. PICK p \in Proc :
             /\ pc[p] = "done" /\ version[p] = 0
             /\ DOMAIN file.insns = {o + Base[loaded[p]] : o \in executed[p]}
      BY <2>3 DEF CapturedWasRun
    <3> QED
      BY <3>1, RunsStay
  <2> QED
    BY <1>2, <2>1, <2>2, <2>3 DEF CapturedWasRun, WasRun
<1> QED
  BY <1>1, <1>2

(* Merging keeps what both tables have.                                    *)
LEMMA NextHoldsRun ==
    ASSUME Md5Works, ~ RebuildAnytime
    PROVE  TInv /\ SInv /\ WInv /\ [Next]_vars => HoldsRun'
<1> SUFFICES ASSUME TInv, SInv, WInv, [Next]_vars,
                    NEW p \in Proc, pc'[p] \in Exiting
             PROVE  /\ executed'[p] \subseteq DOMAIN instructions'[p]
                    /\ \A o \in DOMAIN instructions'[p] :
                          \E q \in Proc : loaded'[q] = loaded'[p] /\ o \in executed'[q]
                    /\ version'[p] = 0 => DOMAIN instructions'[p] = executed'[p]
                    /\ pc'[p] \in {"digest", "exists", "read"} => version'[p] # 0
  BY DEF HoldsRun, WasRun
<1>0. /\ pc \in [Proc -> Ended \cup {"idle", "tracing", "digest", "exists", "read",
                                     "base", "open", "write"}]
      /\ version \in [Proc -> {0, 1}] /\ DOMAIN instructions = Proc
  BY DEF TInv, TypeOK
<1>1. CASE EnterExit(p)
  <2>1. /\ instructions'[p] = [o \in executed[p] |-> Code[loaded[p]][o]]
        /\ UNCHANGED <<version, loaded, executed>>
        /\ pc'[p] = IF version[p] = 0 THEN "base" ELSE "digest"
    BY <1>0, <1>1 DEF EnterExit, Goto, process
  <2>2. \A o \in executed[p] : WasRun(o, loaded[p])
    BY DEF WasRun
  <2> QED
    BY <2>1, <2>2 DEF WasRun
<1>2. CASE ReadSame(p)
  <2>1. /\ instructions'[p] = InsertAll(instructions[p], file.insns)
        /\ UNCHANGED <<version, loaded, executed>>
        /\ pc[p] = "read" /\ pc'[p] = "base"
        /\ file.kind # "absent" /\ ~ Unreadable(file) /\ file.digest = digest[p]
    BY <1>0, <1>2 DEF ReadSame, Goto, process
  <2>2. DOMAIN instructions'[p] = DOMAIN instructions[p] \cup DOMAIN file.insns
    BY <2>1 DEF InsertAll
  <2>3. file.kind = "v1" /\ file.digest = loaded[p]
    BY <2>1 DEF Unreadable, TInv, TypeOK, SInv, DigestIsLoaded
  <2>4. \A o \in DOMAIN file.insns : WasRun(o, loaded[p])
    BY <2>3 DEF WInv, CapturedWasRun
  <2>5. /\ executed[p] \subseteq DOMAIN instructions[p] /\ version[p] # 0
        /\ \A o \in DOMAIN instructions[p] : WasRun(o, loaded[p])
    BY <2>1 DEF WInv, HoldsRun, Exiting
  <2> QED
    BY <2>1, <2>2, <2>4, <2>5 DEF WasRun
<1>3. CASE ~ EnterExit(p) /\ ~ ReadSame(p)
  <2>1. /\ instructions'[p] = instructions[p] /\ pc[p] \in Exiting
        /\ version'[p] = version[p] /\ loaded'[p] = loaded[p]
        /\ executed'[p] = executed[p]
        /\ pc'[p] \in {"digest", "exists", "read"} => pc[p] \in {"digest", "exists", "read"}
    BY <1>0, <1>3 DEF Next, ExitStep, Start, Execute, Fork, EnterExit, Digest, FileExists,
         ReadThrows, ReadFails, ReadOther, ReadSame, BaseAddress, OpenTruncates, OpenFails,
         Write, Kill, Rebuild, CleanAll, vars, process, locals, Goto, Exiting, Ended, TInv, TypeOK
  <2>2. /\ executed[p] \subseteq DOMAIN instructions[p]
        /\ \A o \in DOMAIN instructions[p] : WasRun(o, loaded[p])
        /\ version[p] = 0 => DOMAIN instructions[p] = executed[p]
        /\ pc[p] \in {"digest", "exists", "read"} => version[p] # 0
    BY <2>1 DEF WInv, HoldsRun
  <2>4. \A o \in DOMAIN instructions[p] :
           \E q \in Proc : loaded'[q] = loaded[p] /\ o \in executed'[q]
    BY <2>2, RunsStay
  <2> QED
    BY <2>1, <2>2, <2>4
<1> QED
  BY <1>1, <1>2, <1>3

(* Only a write makes a file of either version.                            *)
LEMMA FileChanges ==
    ASSUME [Next]_vars
    PROVE  \/ file' = file \/ file'.kind \notin {"v0", "v1"}
           \/ \E p \in Proc : Write(p) /\ p \in holds
BY DEF Next, ExitStep, Start, Execute, Fork, EnterExit, Digest, FileExists,
       ReadThrows, ReadFails, ReadOther, ReadSame, BaseAddress, OpenTruncates, OpenFails,
       Write, Kill, Rebuild, CleanAll, vars, output, Absent, Truncated, Content

LEMMA NextCaptured ==
    TInv /\ SInv /\ WInv /\ [Next]_vars => CapturedWasRun'
<1> SUFFICES ASSUME TInv, SInv, WInv, [Next]_vars
             PROVE  CapturedWasRun'
  OBVIOUS
<1>1. CASE file' = file \/ file'.kind \notin {"v0", "v1"}
  BY <1>1, CapturedStays DEF WInv
<1>2. ASSUME NEW p \in Proc, Write(p), p \in holds
      PROVE  CapturedWasRun'
  <2>1. /\ file' = Message(p) /\ pc[p] = "write" /\ pc'[p] = "done"
        /\ UNCHANGED <<version, loaded, executed>>
    BY <1>2 DEF Write, Goto, process, TInv, TypeOK
  <2>2. /\ executed[p] \subseteq DOMAIN instructions[p]
        /\ \A o \in DOMAIN instructions[p] : WasRun(o, loaded[p])
        /\ version[p] = 0 => DOMAIN instructions[p] = executed[p]
    BY <2>1 DEF WInv, HoldsRun, Exiting
  <2>3. CASE version[p] = 0
    <3>1. /\ file'.kind = "v0"
          /\ DOMAIN file'.insns = {o + Base[loaded[p]] : o \in executed[p]}
      BY <2>1, <2>2, <2>3 DEF Message, Content, SInv, BaseIsLoaded
    <3> QED
      BY <2>1, <2>3, <3>1 DEF CapturedWasRun
  <2>4. CASE version[p] # 0
    <3>1. /\ file'.kind = "v1" /\ file'.digest = loaded[p]
          /\ file'.insns = instructions[p]
      BY <2>1, <2>4 DEF Message, Content, SInv, DigestIsLoaded
    <3>2. \A o \in DOMAIN file'.insns :
             \E q \in Proc : loaded'[q] = file'.digest /\ o \in executed'[q]
      BY <2>1, <2>2, <3>1 DEF WasRun
    <3> QED
      BY <2>1, <2>2, <3>1, <3>2 DEF CapturedWasRun, WasRun
  <2> QED
    BY <2>3, <2>4
<1> QED
  BY <1>1, <1>2, FileChanges

(* For any number of processes, exiting together or one by one, killed at  *)
(* any point: the file has nothing that no run of its build executed, and  *)
(* all that one of them did.                                               *)
THEOREM NothingMadeUp ==
    ASSUME Md5Works, ~ RebuildAnytime
    PROVE  Spec => []CapturedWasRun
<1>1. TInv /\ SInv /\ [Next]_vars => SInv'
  BY NextSInv
<1>2. TInv /\ SInv /\ WInv /\ [Next]_vars => WInv'
  BY NextHoldsRun, NextCaptured DEF WInv
<1>3. WInv => CapturedWasRun
  BY DEF WInv
<1> QED
  BY InitTInv, NextTInv, InitSInv, <1>1, InitWInv, <1>2, <1>3, PTL DEF Spec

-----------------------------------------------------------------------------
(* No run is lost when exits do not overlap: plugin_exit reads the file    *)
(* and writes it, and nobody else writes it in between.                    *)

FileIsLast ==
    /\ file.kind \in {"v0", "v1"} => file = last
    /\ file.kind = "absent" => kept = {}

OwnMerged == \A p \in Proc : pc[p] \in Exiting => executed[p] \subseteq DOMAIN instructions[p]

(* A process past the read has the instructions of every saved run with    *)
(* its digest. *)
KeptMerged ==
    \A p \in Proc :
        pc[p] \in {"base", "open", "write"} /\ version[p] # 0 =>
            \A q \in kept :
                digest[q] = digest[p] => executed[q] \subseteq DOMAIN instructions[p]

KeptSaved ==
    \A q \in kept :
        /\ pc[q] = "done" /\ last.kind = "v1" /\ digest[q] = last.digest
        /\ executed[q] \subseteq DOMAIN last.insns

LInv == FileIsLast /\ OwnMerged /\ KeptMerged /\ KeptSaved

LEMMA InitLInv == Init => LInv
BY DEF Init, LInv, FileIsLast, OwnMerged, KeptMerged, KeptSaved,
       Live, Exiting, Ended, Absent, Content

LEMMA NextLInv == TInv /\ LInv /\ ExitsApart /\ [Next]_vars => LInv'
<1> SUFFICES ASSUME TInv, LInv, ExitsApart, [Next]_vars
             PROVE  LInv'
  OBVIOUS
<1> USE PluginExitAssumption
<1> USE DEF TInv, TypeOK, Fresh, Ended, Goto, process, locals, output
<1> USE DEF LInv, FileIsLast, OwnMerged, KeptMerged, KeptSaved, Exiting, Live
<1>1. ASSUME NEW p \in Proc, NEW v \in Versions, Start(p, v)
      PROVE  LInv'
  BY <1>1 DEF Start
<1>2. ASSUME NEW p \in Proc, NEW b \in Build, NEW o \in DOMAIN Code[b], Execute(p, o)
      PROVE  LInv'
  BY <1>2 DEF Execute
<1>3. ASSUME NEW p \in Proc, NEW q \in Proc, Fork(p, q)
      PROVE  LInv'
  BY <1>3 DEF Fork
<1>4. ASSUME NEW p \in Proc, EnterExit(p)
      PROVE  LInv'
  <2>1. executed[p] \subseteq DOMAIN instructions'[p]
    BY <1>4 DEF EnterExit
  <2> QED
    BY <1>4, <2>1 DEF EnterExit
<1>5. ASSUME NEW p \in Proc, Digest(p)
      PROVE  LInv'
  BY <1>5 DEF Digest
<1>6. ASSUME NEW p \in Proc, FileExists(p)
      PROVE  LInv'
  BY <1>6 DEF FileExists
<1>7. ASSUME NEW p \in Proc, ReadThrows(p)
      PROVE  LInv'
  BY <1>7 DEF ReadThrows
<1>8. ASSUME NEW p \in Proc, ReadFails(p)
      PROVE  LInv'
  BY <1>8 DEF ReadFails
<1>9. ASSUME NEW p \in Proc, ReadOther(p)
      PROVE  LInv'
  BY <1>9 DEF ReadOther, Unreadable
<1>10. ASSUME NEW p \in Proc, ReadSame(p)
       PROVE  LInv'
  <2>1. file = last
    BY <1>10 DEF ReadSame, Unreadable
  <2>2. DOMAIN instructions'[p] = DOMAIN instructions[p] \cup DOMAIN last.insns
    <3>1. instructions'[p] = InsertAll(instructions[p], last.insns)
      BY <1>10, <2>1 DEF ReadSame
    <3> QED
      BY <3>1 DEF InsertAll
  <2> QED
    BY <1>10, <2>1, <2>2 DEF ReadSame
<1>11. ASSUME NEW p \in Proc, BaseAddress(p)
       PROVE  LInv'
  BY <1>11 DEF BaseAddress
<1>12. ASSUME NEW p \in Proc, OpenTruncates(p)
       PROVE  LInv'
  BY <1>12 DEF OpenTruncates, Truncated, Content
<1>13. ASSUME NEW p \in Proc, OpenFails(p)
       PROVE  LInv'
  BY <1>13 DEF OpenFails
<1>14. ASSUME NEW p \in Proc, Write(p)
       PROVE  LInv'
  <2>1. CASE p \in holds /\ version[p] # 0
    <3>1. /\ last' = Message(p) /\ file' = last'
          /\ kept' = {q \in kept : digest[q] = digest[p]} \cup {p}
      BY <1>14, <2>1 DEF Write
    <3>2. /\ Message(p).kind = "v1" /\ Message(p).digest = digest[p]
          /\ Message(p).insns = instructions[p]
      BY <2>1 DEF Message, Content
    <3>3. pc' = [pc EXCEPT ![p] = "done"] /\ pc[p] = "write"
      BY <1>14 DEF Write
    <3>4. UNCHANGED <<process, locals>>
      BY <1>14 DEF Write
    <3>5. KeptSaved'
      BY <2>1, <3>1, <3>2, <3>3, <3>4
    <3>6. OwnMerged'
      BY <3>3, <3>4
    <3>7. FileIsLast'
      BY <3>1, <3>2
    <3>8. KeptMerged'
      BY <1>14, <3>3, <3>4 DEF ExitsApart, Updating
    <3> QED
      BY <3>5, <3>6, <3>7, <3>8
  <2>2. CASE p \in holds /\ version[p] = 0
    BY <1>14, <2>2 DEF Write, Message, Content
  <2>3. CASE p \notin holds
    BY <1>14, <2>3 DEF Write
  <2> QED
    BY <2>1, <2>2, <2>3
<1>15. ASSUME NEW p \in Proc, Kill(p)
       PROVE  LInv'
  BY <1>15 DEF Kill
<1>16. ASSUME NEW b \in Build, Rebuild(b)
       PROVE  LInv'
  BY <1>16 DEF Rebuild
<1>17. CASE CleanAll
  BY <1>17 DEF CleanAll, Absent, Content
<1>18. CASE UNCHANGED vars
  BY <1>18 DEF vars
<1> HIDE DEF TInv, LInv
<1> QED
  BY <1>1, <1>2, <1>3, <1>4, <1>5, <1>6, <1>7, <1>8, <1>9, <1>10, <1>11, <1>12,
     <1>13, <1>14, <1>15, <1>16, <1>17, <1>18 DEF Next, ExitStep

LEMMA LInvLosesNothing == LInv => NoLostRun
BY DEF LInv, FileIsLast, KeptSaved, NoLostRun

(* For any number of processes, killed at any point, with rebuilds and     *)
(* cleanups at any time: as long as no two of them are between what they   *)
(* read of the file and what they write, the capture has the instructions  *)
(* of every run written into it since it was last replaced.                *)
THEOREM LostRunsOverlapped == Spec => LossNeedsOverlap
<1>1. Spec /\ []ExitsApart => []NoLostRun
  BY InitTInv, NextTInv, InitLInv, NextLInv, LInvLosesNothing, PTL DEF Spec
<1> QED
  BY <1>1, PTL DEF LossNeedsOverlap

(* Runs that follow one another have no exits that overlap.                *)
OneLive == \A p, q \in Proc : Live(p) /\ Live(q) => p = q

LEMMA NextOneLive ==
    ASSUME Serial
    PROVE  TInv /\ OneLive /\ [Next]_vars => OneLive'
<1> SUFFICES ASSUME TInv, OneLive, [Next]_vars
             PROVE  OneLive'
  OBVIOUS
<1> USE DEF TInv, TypeOK, OneLive, Live, Ended, Goto
<1>1. ASSUME NEW p \in Proc, NEW v \in Versions, Start(p, v)
      PROVE  OneLive'
  BY <1>1 DEF Start
<1>2. ASSUME NEW p \in Proc, pc[p] \notin Ended \cup {"idle"},
             NEW label, pc' = [pc EXCEPT ![p] = label]
      PROVE  OneLive'
  BY <1>2
<1>3. ASSUME NEW p \in Proc, EnterExit(p) \/ ExitStep(p) \/ Kill(p)
      PROVE  OneLive'
  BY <1>3 DEF ExitStep, EnterExit, Digest, FileExists, ReadThrows, ReadFails, ReadOther,
              ReadSame, BaseAddress, OpenTruncates, OpenFails, Write, Kill
<1>4. ASSUME NEW p \in Proc, NEW q \in Proc, Fork(p, q)
      PROVE  FALSE
  BY <1>4 DEF Fork
<1>5. CASE UNCHANGED pc
  BY <1>5
<1> HIDE DEF TInv, OneLive
<1> QED
  BY <1>1, <1>3, <1>4, <1>5 DEF Next, Execute, Rebuild, CleanAll, vars

LEMMA SerialIsApart ==
    ASSUME Serial
    PROVE  Spec => []ExitsApart
<1>1. Init => OneLive
  BY DEF Init, OneLive, Live
<1>2. TInv /\ OneLive /\ [Next]_vars => OneLive'
  BY NextOneLive
<1>3. OneLive => ExitsApart
  BY DEF OneLive, Live, Ended, ExitsApart, Updating
<1> QED
  BY InitTInv, NextTInv, <1>1, <1>2, <1>3, PTL DEF Spec

(* For any number of runs, one after the other, killed at any point, with  *)
(* rebuilds and cleanups at any time: the capture has the instructions of  *)
(* every run written into it since it was last replaced.                   *)
THEOREM SerialLosesNothing ==
    ASSUME Serial
    PROVE  Spec => []NoLostRun
BY SerialIsApart, LostRunsOverlapped, PTL DEF LossNeedsOverlap

-----------------------------------------------------------------------------
(* What a version 1 run has past the read, if its exit overlaps no other:  *)
(* a file that could be read, of which it has the instructions if it is of *)
(* the same build.                                                         *)

PastRead(p) == pc[p] \in {"base", "open", "write"} /\ version[p] # 0

LastIsOld ==
    /\ last.kind \in {"absent", "v0", "v1"}
    /\ last.kind = "absent" => last = Absent
    /\ file.kind = "absent" => last = Absent

ReadFirst ==
    \A p \in Proc : PastRead(p) =>
        /\ pc[p] # "write" => ~ Unreadable(file)
        /\ ~ Unreadable(last)
        /\ last.kind = "v1" /\ last.digest = digest[p]
              => DOMAIN last.insns \subseteq DOMAIN instructions[p]

RInv == LastIsOld /\ ReadFirst

(* No process has read anything yet.                                       *)
LEMMA InitRInv == Init => RInv
BY DEF Init, RInv, LastIsOld, ReadFirst, PastRead, Absent, Content

(* An absent file can be read as far as the exits are concerned.           *)
LEMMA AbsentReadable == ~ Unreadable(Absent)
BY DEF Unreadable, Absent, Content

(* The process that is past the read is the only one there.                *)
LEMMA NextRInv == TInv /\ LInv /\ RInv /\ ExitsApart /\ [Next]_vars => RInv'
<1> SUFFICES ASSUME TInv, LInv, RInv, ExitsApart, [Next]_vars
             PROVE  RInv'
  OBVIOUS
<1> USE DEF TInv, TypeOK, Ended, Goto, process, locals, output
<1> USE DEF LInv, FileIsLast, RInv, LastIsOld, ReadFirst, PastRead
<1> USE DEF ExitsApart, Updating
<1>1. ASSUME NEW p \in Proc, NEW v \in Versions, Start(p, v)
      PROVE  RInv'
  BY <1>1 DEF Start, Unreadable
<1>2. ASSUME NEW p \in Proc, NEW b \in Build, NEW o \in DOMAIN Code[b], Execute(p, o)
      PROVE  RInv'
  BY <1>2 DEF Execute, Unreadable
<1>3. ASSUME NEW p \in Proc, NEW q \in Proc, Fork(p, q)
      PROVE  RInv'
  BY <1>3 DEF Fork
<1>4. ASSUME NEW p \in Proc, EnterExit(p)
      PROVE  RInv'
  BY <1>4 DEF EnterExit, Unreadable
<1>5. ASSUME NEW p \in Proc, Digest(p)
      PROVE  RInv'
  BY <1>5 DEF Digest, Unreadable
<1>6. ASSUME NEW p \in Proc, FileExists(p)
      PROVE  RInv'
  <2>1. CASE file.kind = "absent"
    <3>1. last = Absent /\ ~ Unreadable(file) /\ ~ Unreadable(last) /\ last.kind # "v1"
      BY <2>1, AbsentReadable DEF Unreadable, Absent, Content
    <3> QED
      BY <1>6, <2>1, <3>1 DEF FileExists, Unreadable
  <2>2. CASE file.kind # "absent"
    BY <1>6, <2>2 DEF FileExists, Unreadable
  <2> QED
    BY <2>1, <2>2
<1>7. ASSUME NEW p \in Proc, ReadThrows(p)
      PROVE  RInv'
  BY <1>7 DEF ReadThrows, Unreadable
<1>8. ASSUME NEW p \in Proc, ReadFails(p)
      PROVE  RInv'
  <2>1. last = Absent /\ ~ Unreadable(file) /\ ~ Unreadable(last) /\ last.kind # "v1"
    BY <1>8, AbsentReadable DEF ReadFails, Unreadable, Absent, Content
  <2> QED
    BY <1>8, <2>1 DEF ReadFails, Unreadable
<1>9. ASSUME NEW p \in Proc, ReadOther(p)
      PROVE  RInv'
  <2>1. file = last /\ file.digest # digest[p]
    BY <1>9 DEF ReadOther, Unreadable
  <2> QED
    BY <1>9, <2>1 DEF ReadOther, Unreadable
<1>10. ASSUME NEW p \in Proc, ReadSame(p)
       PROVE  RInv'
  <2>1. file = last
    BY <1>10 DEF ReadSame, Unreadable
  <2>2. DOMAIN instructions'[p] = DOMAIN instructions[p] \cup DOMAIN last.insns
    <3>1. instructions'[p] = InsertAll(instructions[p], last.insns)
      BY <1>10, <2>1 DEF ReadSame
    <3> QED
      BY <3>1 DEF InsertAll
  <2> QED
    BY <1>10, <2>1, <2>2 DEF ReadSame, Unreadable
<1>11. ASSUME NEW p \in Proc, BaseAddress(p)
       PROVE  RInv'
  BY <1>11 DEF BaseAddress, Unreadable
<1>12. ASSUME NEW p \in Proc, OpenTruncates(p)
       PROVE  RInv'
  BY <1>12 DEF OpenTruncates, Truncated, Content, Unreadable
<1>13. ASSUME NEW p \in Proc, OpenFails(p)
       PROVE  RInv'
  BY <1>13 DEF OpenFails, Unreadable
<1>14. ASSUME NEW p \in Proc, Write(p)
       PROVE  RInv'
  <2>1. \A q \in Proc : ~ PastRead(q)'
    BY <1>14 DEF Write
  <2>2. Message(p).kind \in {"v0", "v1"}
    BY DEF Message, Content
  <2>3. LastIsOld'
    BY <1>14, <2>2 DEF Write
  <2> QED
    BY <2>1, <2>3
<1>15. ASSUME NEW p \in Proc, Kill(p)
       PROVE  RInv'
  BY <1>15 DEF Kill, Live, Unreadable
<1>16. ASSUME NEW b \in Build, Rebuild(b)
       PROVE  RInv'
  BY <1>16 DEF Rebuild, Unreadable
<1>17. CASE CleanAll
  BY <1>17 DEF CleanAll, Unreadable, Absent, Content
<1>18. CASE UNCHANGED vars
  BY <1>18 DEF vars, Unreadable
<1> HIDE DEF TInv, LInv, RInv, ExitsApart
<1> QED
  BY <1>1, <1>2, <1>3, <1>4, <1>5, <1>6, <1>7, <1>8, <1>9, <1>10, <1>11, <1>12,
     <1>13, <1>14, <1>15, <1>16, <1>17, <1>18 DEF Next, ExitStep

-----------------------------------------------------------------------------
(* The file implements the store. The store is what the last complete      *)
(* contents of the file say, unless it is lost: cut off or out of reach.   *)

LastSound == last.kind = "v1" => Sound(last)

Lost == \/ /\ file.kind = "truncated"
           /\ \A p \in Proc : pc[p] = "write" => version[p] = 0
        \/ Unreadable(last)

Stored ==
    IF Lost THEN [state |-> "spoilt"]
    ELSE IF last = Absent THEN [state |-> "none"]
    ELSE [state |-> "kept", build |-> last.digest, insns |-> InsnsOf(last.insns)]

(* A step that leaves the file alone, and whose writers wrote before it,   *)
(* stutters or spoils the store.                                           *)
LEMMA StoreQuiet ==
    ASSUME UNCHANGED <<file, last>>,
           \A p \in Proc : pc'[p] = "write" => pc[p] = "write" /\ version'[p] = version[p]
    PROVE  Store!Next \/ Stored' = Stored
<1>1. CASE Lost'
  BY <1>1 DEF Stored, Store!Next, Store!Spoil, Store!Spoilt, Lost
<1>2. CASE ~ Lost'
  <2>1. ~ Lost
    BY <1>2 DEF Lost, Unreadable
  <2>2. InsnsOf(last.insns)' = InsnsOf(last.insns)
    BY DEF InsnsOf
  <2> QED
    BY <1>2, <2>1, <2>2 DEF Stored, Absent, Content
<1> QED
  BY <1>1, <1>2

(* A version 1 exit that opens the file has found it readable, and version *)
(* 0 gives up what was in it.                                              *)
LEMMA StoreOpened ==
    ASSUME TInv, RInv, ExitsApart, NEW p \in Proc, OpenTruncates(p)
    PROVE  Store!Next \/ Stored' = Stored
<1>1. /\ file' = Truncated /\ last' = last /\ version' = version
      /\ pc[p] = "open" /\ pc' = [pc EXCEPT ![p] = "write"]
  BY DEF OpenTruncates, Goto, process
<1>2. CASE version[p] = 0
  <2>1. \A q \in Proc : pc[q] # "write"
    BY <1>1 DEF ExitsApart, Updating
  <2>2. Lost'
    BY <1>1, <1>2, <2>1 DEF Lost, Truncated, Content
  <2> QED
    BY <2>2 DEF Stored, Store!Next, Store!Spoil, Store!Spoilt, Lost
<1>3. CASE version[p] # 0
  <2>1. ~ Unreadable(file) /\ ~ Unreadable(last)
    BY <1>1, <1>3 DEF RInv, ReadFirst, PastRead
  <2>2. ~ Lost
    BY <2>1 DEF Lost, Unreadable
  <2>3. pc'[p] = "write" /\ version'[p] # 0
    BY <1>1, <1>3 DEF TInv, TypeOK
  <2>4. ~ Lost'
    BY <1>1, <2>1, <2>3 DEF Lost, Unreadable
  <2>5. InsnsOf(last.insns)' = InsnsOf(last.insns)
    BY <1>1 DEF InsnsOf
  <2> QED
    BY <1>1, <2>2, <2>4, <2>5 DEF Stored, Absent, Content
<1> QED
  BY <1>2, <1>3

(* Adding instructions of a build to a store that is not spoilt.            *)
LEMMA StoreCommits ==
    ASSUME NEW b \in Build, NEW insns \in SUBSET InsnsOf(Code[b]),
           Stored # [state |-> "spoilt"],
           Stored' = [state |-> "kept", build |-> b, insns |-> insns \cup
                       (IF Stored # [state |-> "none"] /\ Stored.build = b
                        THEN Stored.insns ELSE {})]
    PROVE  Store!Next
<1>1. Store!Commit(b, insns)
  BY DEF Stored, Lost, Store!Commit, Store!Spoilt, Store!NoCapture, Store!Capture
<1>2. insns \in SUBSET [c \in Build |-> InsnsOf(Code[c])][b]
  OBVIOUS
<1> QED
  BY <1>1, <1>2 DEF Store!Next

(* What a version 1 exit writes is what it recorded, added to what the     *)
(* store has of the same build.                                            *)
LEMMA StoreWritten ==
    ASSUME TInv, SInv, RInv, LastSound, NEW p \in Proc, Write(p), p \in holds
    PROVE  Store!Next
<1>1. /\ pc[p] = "write" /\ file' = Message(p) /\ last' = Message(p)
      /\ Message(p).kind \in {"v0", "v1"}
  BY DEF Write, Message, Content
<1>2. CASE Unreadable(last')
  <2>1. Lost'
    BY <1>2 DEF Lost, Unreadable
  <2> QED
    BY <2>1 DEF Stored, Store!Next, Store!Spoil, Store!Spoilt, Lost
<1>3. CASE ~ Unreadable(last')
  <2> DEFINE insns == InsnsOf(instructions[p])
  <2>1. version[p] # 0 /\ last'.kind = "v1"
    BY <1>1, <1>3 DEF Unreadable, Message, Content
  <2>2. last'.digest = digest[p] /\ last'.insns = instructions[p]
    BY <1>1, <2>1 DEF Message, Content
  <2>3. digest[p] \in Build /\ AgreesWith(instructions[p], digest[p])
    BY <1>1, <2>1 DEF TInv, TypeOK, SInv, DigestIsLoaded, InstructionsAgree, Exiting
  <2>4. insns \in SUBSET InsnsOf(Code[digest[p]])
    BY <2>3 DEF InsnsOf, AgreesWith
  <2>5. ~ Unreadable(last) /\ ~ Lost
    BY <1>1, <2>1 DEF RInv, ReadFirst, PastRead, Lost
  <2>6. last # Absent /\ last.digest = digest[p] => InsnsOf(last.insns) \subseteq insns
    <3>1. SUFFICES ASSUME last # Absent, last.digest = digest[p]
                   PROVE  InsnsOf(last.insns) \subseteq insns
      OBVIOUS
    <3>2. last.kind = "v1"
      BY <2>5, <3>1 DEF RInv, LastIsOld, Unreadable
    <3>3. DOMAIN last.insns \subseteq DOMAIN instructions[p]
      BY <1>1, <2>1, <3>1, <3>2 DEF RInv, ReadFirst, PastRead
    <3>4. AgreesWith(last.insns, digest[p])
      BY <3>1, <3>2 DEF LastSound, Sound
    <3> QED
      BY <2>3, <3>3, <3>4 DEF InsnsOf, AgreesWith
  <2>7. ~ Lost'
    BY <1>1, <1>3, <2>1 DEF Lost, Unreadable
  <2>8. last' # Absent
    BY <2>1 DEF Absent, Content
  <2>9. InsnsOf(last.insns)' = insns
    BY <2>2 DEF InsnsOf
  <2>10. Stored' = [state |-> "kept", build |-> digest[p], insns |-> insns]
    BY <2>2, <2>7, <2>8, <2>9 DEF Stored, Absent, Content
  <2> HIDE DEF insns
  <2>11. \/ Stored = [state |-> "none"]
         \/ Stored = [state |-> "kept", build |-> last.digest,
                      insns |-> InsnsOf(last.insns)]
    BY <2>5 DEF Stored
  <2>12. Stored # [state |-> "none"] => last # Absent
    BY <2>5 DEF Stored
  <2>13. insns \cup (IF Stored # [state |-> "none"] /\ Stored.build = digest[p]
                     THEN Stored.insns ELSE {}) = insns
    <3>1. CASE Stored # [state |-> "none"] /\ Stored.build = digest[p]
      <4>1. last.digest = digest[p] /\ Stored.insns = InsnsOf(last.insns)
        BY <2>11, <3>1
      <4> QED
        BY <2>6, <2>12, <3>1, <4>1
    <3>2. CASE ~ (Stored # [state |-> "none"] /\ Stored.build = digest[p])
      BY <3>2
    <3> QED
      BY <3>1, <3>2
  <2> QED
    BY <2>3, <2>4, <2>10, <2>11, <2>13, StoreCommits
<1> QED
  BY <1>2, <1>3

(* The last complete contents are those of a sound message.                *)
LEMMA NextLastSound ==
    TInv /\ SInv /\ LastSound /\ [Next]_vars => LastSound'
<1> SUFFICES ASSUME TInv, SInv, LastSound, [Next]_vars
             PROVE  LastSound'
  OBVIOUS
<1>1. CASE last' = last
  BY <1>1 DEF LastSound, Sound, AgreesWith
<1>2. ASSUME NEW p \in Proc, Write(p), p \in holds
      PROVE  LastSound'
  <2>1. last' = Message(p) /\ pc[p] = "write"
    BY <1>2 DEF Write
  <2>2. CASE version[p] = 0
    BY <2>1, <2>2 DEF LastSound, Message, Content
  <2>3. CASE version[p] # 0
    <3>1. /\ digest[p] = loaded[p] /\ digest[p] \in Build
          /\ base_address[p] = Base[loaded[p]]
          /\ AgreesWith(instructions[p], loaded[p])
      BY <2>1, <2>3 DEF TInv, TypeOK, SInv, DigestIsLoaded, BaseIsLoaded,
                        InstructionsAgree, Exiting
    <3>2. /\ last'.digest = digest[p] /\ last'.base = base_address[p]
          /\ last'.insns = instructions[p]
      BY <2>1, <2>3 DEF Message, Content
    <3> QED
      BY <3>1, <3>2 DEF LastSound, Sound, AgreesWith
  <2> QED
    BY <2>2, <2>3
<1>3. CASE CleanAll
  BY <1>3 DEF CleanAll, LastSound, Absent, Content
<1>4. last' = last \/ CleanAll \/ \E p \in Proc : Write(p) /\ p \in holds
  BY DEF Next, ExitStep, Start, Execute, Fork, EnterExit, Digest, FileExists, ReadThrows,
         ReadFails, ReadOther, ReadSame, BaseAddress, OpenTruncates, OpenFails, Write,
         Kill, Rebuild, vars, output
<1> QED
  BY <1>1, <1>2, <1>3, <1>4

(* Every step is one of the store, or a stutter.                           *)
LEMMA NextStored ==
    TInv /\ SInv /\ RInv /\ ExitsApart /\ LastSound /\ [Next]_vars
        => Store!Next \/ Stored' = Stored
<1> SUFFICES ASSUME TInv, SInv, RInv, ExitsApart, LastSound, [Next]_vars
             PROVE  Store!Next \/ Stored' = Stored
  OBVIOUS
<1>1. ASSUME NEW p \in Proc, OpenTruncates(p)
      PROVE  Store!Next \/ Stored' = Stored
  BY <1>1, StoreOpened
<1>2. ASSUME NEW p \in Proc, Write(p)
      PROVE  Store!Next \/ Stored' = Stored
  <2>1. CASE p \in holds
    BY <1>2, <2>1, StoreWritten
  <2>2. CASE p \notin holds
    BY <1>2, <2>2, StoreQuiet DEF Write, Goto, process, TInv, TypeOK
  <2> QED
    BY <2>1, <2>2
<1>3. CASE CleanAll
  <2>1. file' = Absent /\ last' = Absent
    BY <1>3 DEF CleanAll
  <2>2. ~ Lost'
    BY <2>1 DEF Lost, Unreadable, Absent, Content
  <2>3. Stored' = [state |-> "none"]
    BY <2>1, <2>2 DEF Stored, Absent, Content
  <2> QED
    BY <2>3 DEF Stored, Lost, Store!Next, Store!Remove, Store!NoCapture
<1>4. CASE \/ \E p \in Proc :
                \/ \E v \in Versions : Start(p, v)
                \/ \E b \in Build : \E o \in DOMAIN Code[b] : Execute(p, o)
                \/ \E q \in Proc : Fork(p, q)
                \/ EnterExit(p) \/ Digest(p) \/ FileExists(p) \/ ReadThrows(p)
                \/ ReadFails(p) \/ ReadOther(p) \/ ReadSame(p) \/ BaseAddress(p)
                \/ OpenFails(p) \/ Kill(p)
           \/ \E b \in Build : Rebuild(b)
           \/ UNCHANGED vars
  <2>1. /\ file' = file /\ last' = last
        /\ \A q \in Proc :
              pc'[q] = "write" => pc[q] = "write" /\ version'[q] = version[q]
    BY <1>4 DEF Start, Execute, Fork, EnterExit, Digest, FileExists, ReadThrows, ReadFails,
                ReadOther, ReadSame, BaseAddress, OpenFails, Kill, Rebuild, vars, Goto,
                process, output, TInv, TypeOK
  <2> QED
    BY <2>1, StoreQuiet
<1> QED
  BY <1>1, <1>2, <1>3, <1>4 DEF Next, ExitStep

(* There is no capture at first.                                           *)
LEMMA InitStored == Init => Store!Init /\ LastSound
BY DEF Init, Store!Init, Store!NoCapture, Lost, Unreadable, LastSound, Absent, Content

(* For any number of processes of any builds whose exits do not overlap:   *)
(* the output file implements the capture store.                           *)
THEOREM ApartIsStore ==
    ASSUME Md5Works, ~ RebuildAnytime
    PROVE  Spec /\ []ExitsApart => ImplementsStore
<1>1. TInv /\ SInv /\ [Next]_vars => SInv'
  BY NextSInv
<1>2. TInv /\ SInv /\ RInv /\ ExitsApart /\ LastSound /\ [Next]_vars
          => [Store!Next]_Stored
  BY NextStored
<1> QED
  BY InitTInv, NextTInv, InitSInv, <1>1, InitLInv, NextLInv, InitRInv, NextRInv, InitStored,
     NextLastSound, <1>2, PTL DEF Spec, ImplementsStore, Store!Spec, Stored, Lost

(* The same for runs that follow one another.                              *)
THEOREM FileIsStore ==
    ASSUME Serial, Md5Works, ~ RebuildAnytime
    PROVE  Spec => ImplementsStore
<1>1. Spec /\ []ExitsApart => ImplementsStore
  BY ApartIsStore
<1> QED
  BY SerialIsApart, <1>1, PTL
-----------------------------------------------------------------------------
(* The output file is what the exits take it for: the reader's answers on  *)
(* every message they write are those of PluginExit's read steps.          *)

(* The theorems about the format, for the same constants as Format. *)
Proven == INSTANCE CaptureFormatProofs WITH
    Empty <- NoDigest, LimitWords <- 10 + 2 * ReadLimit

-----------------------------------------------------------------------------
(* To the prover the operators of the two instances are different symbols: *)
(* they are the same functions, from the bottom up.                        *)

(* Of the modules that CaptureFormat extends. *)
LEMMA SameCardinality ==
    \A S : /\ Format!Cardinality(S) = Cardinality(S)
           /\ Proven!Cardinality(S) = Cardinality(S)
<1>1. \A S : Format!Cardinality(S) = Cardinality(S)
  BY DEF Format!Cardinality, Cardinality, Format!IsFiniteSet, IsFiniteSet
<1>2. \A S : Proven!Cardinality(S) = Cardinality(S)
  BY DEF Proven!Cardinality, Cardinality, Proven!IsFiniteSet, IsFiniteSet
<1> QED
  BY <1>1, <1>2

(* Of the definitions that use no other one of the format. *)
LEMMA SamePrimitives ==
    /\ \A d, p : Proven!Struct(d, p) = Format!Struct(d, p)
    /\ \A k, s : Proven!List(k, s) = Format!List(k, s)
    /\ \A s : Proven!Text(s) = Format!Text(s)
    /\ \A s : Proven!TextWords(s) = Format!TextWords(s)
    /\ Proven!Layout = Format!Layout
    /\ Proven!Null = Format!Null
    /\ \A r, w : Proven!Saved(r, w) = Format!Saved(r, w)
    /\ Proven!Offset = Format!Offset
    /\ Proven!InstOffsets = Format!InstOffsets
    /\ Proven!Digest = Format!Digest
    /\ Proven!Instructions = Format!Instructions
    /\ Proven!BaseAddress = Format!BaseAddress
    /\ Proven!InsnOffset = Format!InsnOffset
    /\ Proven!InsnLength = Format!InsnLength
    /\ Proven!Thrown = Format!Thrown
BY DEF Proven!Struct, Format!Struct, Proven!List, Format!List,
       Proven!Text, Format!Text, Proven!TextWords, Format!TextWords,
       Proven!Layout, Format!Layout, Proven!Null, Format!Null,
       Proven!Saved, Format!Saved, Proven!Offset, Format!Offset,
       Proven!InstOffsets, Format!InstOffsets, Proven!Digest, Format!Digest,
       Proven!Instructions, Format!Instructions,
       Proven!BaseAddress, Format!BaseAddress, Proven!InsnOffset, Format!InsnOffset,
       Proven!InsnLength, Format!InsnLength, Proven!Thrown, Format!Thrown

(* Of the accessors of a struct. *)
LEMMA SameStructs ==
    /\ \A t : Proven!Words(t) = Format!Words(t)
    /\ \A t : Proven!Fresh(t) = Format!Fresh(t)
    /\ \A s, k, n : Proven!SetWord(s, k, n) = Format!SetWord(s, k, n)
    /\ \A s, k, n : Proven!SetPointer(s, k, n) = Format!SetPointer(s, k, n)
    /\ \A s, k : Proven!Word(s, k) = Format!Word(s, k)
    /\ \A s, k : Proven!Pointer(s, k) = Format!Pointer(s, k)
    /\ \A n : Proven!ToInt8(n) = Format!ToInt8(n)
BY SamePrimitives
DEF Proven!Words, Format!Words, Proven!Fresh, Format!Fresh,
    Proven!SetWord, Format!SetWord, Proven!SetPointer, Format!SetPointer,
    Proven!Word, Format!Word, Proven!Pointer, Format!Pointer,
    Proven!ToInt8, Format!ToInt8

(* Of the readers of a field, and of the check of a whole message. *)
LEMMA SameFields ==
    /\ \A o, n : Proven!Instruction(o, n) = Format!Instruction(o, n)
    /\ \A s, f : Proven!Refused(s, f) = Format!Refused(s, f)
    /\ \A s, f : Proven!TextOf(s, f) = Format!TextOf(s, f)
    /\ \A s, f : Proven!ListOf(s, f) = Format!ListOf(s, f)
    /\ \A s, f : Proven!StructOf(s, f) = Format!StructOf(s, f)
    /\ \A f : Proven!Accepts(f) = Format!Accepts(f)
BY SamePrimitives, SameStructs
DEF Proven!Instruction, Format!Instruction, Proven!Refused, Format!Refused,
    Proven!TextOf, Format!TextOf, Proven!ListOf, Format!ListOf,
    Proven!StructOf, Format!StructOf, Proven!Accepts, Format!Accepts

(* Of what schema_io.cpp writes and reads. *)
LEMMA SameFormat ==
    /\ \A t, b, d : Proven!write_version_1(t, b, d) = Format!write_version_1(t, b, d)
    /\ \A t, b : Proven!write_version_0(t, b) = Format!write_version_0(t, b)
    /\ \A f : Proven!read_version_0(f) = Format!read_version_0(f)
    /\ \A f : Proven!read_version_1(f) = Format!read_version_1(f)
<1>1. ASSUME NEW t, NEW b, NEW d
      PROVE  Proven!write_version_1(t, b, d) = Format!write_version_1(t, b, d)
  <2>1. {Proven!Instruction(o, t[o]) : o \in DOMAIN t}
            = {Format!Instruction(o, t[o]) : o \in DOMAIN t}
    BY SameFields
  <2> QED
    BY <2>1, SameCardinality, SamePrimitives, SameStructs
    DEF Proven!write_version_1, Format!write_version_1
<1>2. \A t, b : Proven!write_version_0(t, b) = Format!write_version_0(t, b)
  BY SameCardinality, SamePrimitives, SameStructs
  DEF Proven!write_version_0, Format!write_version_0
<1>3. \A f : Proven!read_version_0(f) = Format!read_version_0(f)
  BY SamePrimitives, SameStructs, SameFields
  DEF Proven!read_version_0, Format!read_version_0
<1>4. ASSUME NEW f
      PROVE  Proven!read_version_1(f) = Format!read_version_1(f)
  <2> DEFINE insns == Format!ListOf(f.root, Format!Instructions)
  <2>1. Proven!ListOf(f.root, Proven!Instructions) = insns
    BY SamePrimitives, SameFields
  <2> HIDE DEF insns
  <2>2. /\ {Proven!Word(e, Proven!InsnOffset) : e \in insns}
               = {Format!Word(e, Format!InsnOffset) : e \in insns}
        /\ \A o : (CHOOSE e \in insns : Proven!Word(e, Proven!InsnOffset) = o)
                   = (CHOOSE e \in insns : Format!Word(e, Format!InsnOffset) = o)
    BY SamePrimitives, SameStructs
  <2>3. \A o : Proven!ToInt8(Proven!Word(CHOOSE e \in insns :
                    Proven!Word(e, Proven!InsnOffset) = o, Proven!InsnLength))
              = Format!ToInt8(Format!Word(CHOOSE e \in insns :
                    Format!Word(e, Format!InsnOffset) = o, Format!InsnLength))
    BY <2>2, SamePrimitives, SameStructs
  <2>4. [o \in {Proven!Word(e, Proven!InsnOffset) : e \in insns} |->
            Proven!ToInt8(Proven!Word(CHOOSE e \in insns :
                    Proven!Word(e, Proven!InsnOffset) = o, Proven!InsnLength))]
        = [o \in {Format!Word(e, Format!InsnOffset) : e \in insns} |->
            Format!ToInt8(Format!Word(CHOOSE e \in insns :
                    Format!Word(e, Format!InsnOffset) = o, Format!InsnLength))]
    BY <2>2, <2>3
  <2>5. /\ Proven!TextOf(f.root, Proven!Digest) = Format!TextOf(f.root, Format!Digest)
        /\ Proven!Word(f.root, Proven!BaseAddress)
               = Format!Word(f.root, Format!BaseAddress)
        /\ Proven!Thrown = Format!Thrown
    BY SamePrimitives, SameStructs, SameFields
  <2>6. (\/ ~ Proven!Accepts(f)
         \/ Proven!Refused(f.root, Proven!Digest)
         \/ Proven!Refused(f.root, Proven!Instructions))
        <=> (\/ ~ Format!Accepts(f)
             \/ Format!Refused(f.root, Format!Digest)
             \/ Format!Refused(f.root, Format!Instructions))
    BY SamePrimitives, SameFields
  <2>7. CASE \/ ~ Format!Accepts(f)
             \/ Format!Refused(f.root, Format!Digest)
             \/ Format!Refused(f.root, Format!Instructions)
    BY <2>5, <2>6, <2>7 DEF Proven!read_version_1, Format!read_version_1
  <2>8. CASE ~ (\/ ~ Format!Accepts(f)
                \/ Format!Refused(f.root, Format!Digest)
                \/ Format!Refused(f.root, Format!Instructions))
    <3>1. Format!read_version_1(f) =
             [thrown |-> FALSE,
              digest |-> Format!TextOf(f.root, Format!Digest),
              base_address |-> Format!Word(f.root, Format!BaseAddress),
              instructions |-> [o \in {Format!Word(e, Format!InsnOffset) : e \in insns} |->
                  Format!ToInt8(Format!Word(CHOOSE e \in insns :
                    Format!Word(e, Format!InsnOffset) = o, Format!InsnLength))]]
      BY <2>8 DEF Format!read_version_1, insns
    <3>2. Proven!read_version_1(f) =
             [thrown |-> FALSE,
              digest |-> Proven!TextOf(f.root, Proven!Digest),
              base_address |-> Proven!Word(f.root, Proven!BaseAddress),
              instructions |-> [o \in {Proven!Word(e, Proven!InsnOffset) : e \in insns} |->
                  Proven!ToInt8(Proven!Word(CHOOSE e \in insns :
                    Proven!Word(e, Proven!InsnOffset) = o, Proven!InsnLength))]]
      BY <2>1, <2>6, <2>8 DEF Proven!read_version_1
    <3> QED
      BY <2>4, <2>5, <3>1, <3>2
  <2> QED
    BY <2>7, <2>8
<1> QED
  BY <1>1, <1>2, <1>3, <1>4

-----------------------------------------------------------------------------
(* What a process holds during plugin_exit is a table: a function, and not *)
(* only something with the domain and the values of one.                   *)
HoldsTable ==
    \A p \in Proc : pc[p] \in Exiting =>
        instructions[p] = [o \in DOMAIN instructions[p] |-> instructions[p][o]]

(* Every process is idle at first.                                         *)
LEMMA InitHoldsTable == Init => HoldsTable
BY DEF Init, HoldsTable, Exiting

(* EnterExit and ReadSame build a function; no other step writes one.      *)
LEMMA NextHoldsTable == TInv /\ HoldsTable /\ [Next]_vars => HoldsTable'
<1> SUFFICES ASSUME TInv, HoldsTable, [Next]_vars
             PROVE  HoldsTable'
  OBVIOUS
<1>0. /\ pc \in [Proc -> Ended \cup {"idle", "tracing", "digest", "exists", "read",
                                     "base", "open", "write"}]
      /\ DOMAIN instructions = Proc
  BY DEF TInv, TypeOK
<1> USE <1>0 DEF HoldsTable, Exiting, Ended, Goto, process, locals, output
<1>1. ASSUME NEW p \in Proc, EnterExit(p)
      PROVE  HoldsTable'
  <2>1. instructions' = [instructions EXCEPT
                            ![p] = [o \in executed[p] |-> Code[loaded[p]][o]]]
    BY <1>1 DEF EnterExit
  <2>2. \A q \in Proc : q # p => pc'[q] = pc[q]
    BY <1>1 DEF EnterExit
  <2> QED
    BY <2>1, <2>2
<1>2. ASSUME NEW p \in Proc, ReadSame(p)
      PROVE  HoldsTable'
  <2>1. instructions' = [instructions EXCEPT ![p] = InsertAll(@, file.insns)]
    BY <1>2 DEF ReadSame
  <2>2. \A q \in Proc : q # p => pc'[q] = pc[q]
    BY <1>2 DEF ReadSame
  <2> QED
    BY <2>1, <2>2 DEF InsertAll
<1>3. ASSUME NEW p \in Proc,
             \/ Digest(p) \/ FileExists(p) \/ ReadThrows(p) \/ ReadFails(p)
             \/ ReadOther(p) \/ BaseAddress(p) \/ OpenTruncates(p) \/ OpenFails(p)
             \/ Write(p)
      PROVE  HoldsTable'
  <2>1. /\ UNCHANGED instructions /\ pc[p] \in Exiting
        /\ \A q \in Proc : q # p => pc'[q] = pc[q]
    BY <1>3 DEF Digest, FileExists, ReadThrows, ReadFails, ReadOther, BaseAddress,
                OpenTruncates, OpenFails, Write
  <2> QED
    BY <2>1
<1>4. ASSUME NEW p \in Proc,
             \/ \E v \in Versions : Start(p, v)
             \/ \E b \in Build : \E o \in DOMAIN Code[b] : Execute(p, o)
             \/ \E q \in Proc : Fork(p, q)
             \/ Kill(p)
      PROVE  HoldsTable'
  BY <1>4 DEF Start, Execute, Fork, Kill
<1>5. CASE (\E b \in Build : Rebuild(b)) \/ CleanAll \/ UNCHANGED vars
  BY <1>5 DEF Rebuild, CleanAll, vars
<1> HIDE DEF HoldsTable
<1> QED
  BY <1>1, <1>2, <1>3, <1>4, <1>5 DEF Next, ExitStep

-----------------------------------------------------------------------------
(* Cut short anywhere, a message that was saved makes both readers throw.  *)
LEMMA CutThrows ==
    ASSUME NEW root, NEW words \in Nat, NEW n \in 0 .. words - 1
    PROVE  /\ Format!read_version_0(Format!Cut(Format!Saved(root, words), n)).thrown
           /\ Format!read_version_1(Format!Cut(Format!Saved(root, words), n)).thrown
<1>1. ~ Format!Accepts(Format!Cut(Format!Saved(root, words), n))
  BY DEF Format!Accepts, Format!Cut, Format!Saved
<1> QED
  BY <1>1 DEF Format!read_version_0, Format!read_version_1, Format!Thrown

(* Version 0 writes as many addresses as there are instructions.           *)
LEMMA AsManyAddresses ==
    ASSUME NEW S \in SUBSET Int, IsFiniteSet(S), NEW b \in Int
    PROVE  Cardinality({o + b : o \in S}) = Cardinality(S)
<1> DEFINE A == {o + b : o \in S}
           f == [o \in S |-> o + b]
<1>1. f \in [S -> A]
  OBVIOUS
<1>2. \A a \in A : \E o \in S : f[o] = a
  OBVIOUS
<1>3. \A o1, o2 \in S : f[o1] = f[o2] => o1 = o2
  OBVIOUS
<1>4. f \in Bijection(S, A)
  BY <1>1, <1>2, <1>3 DEF Bijection, Injection, Surjection, IsInjective
<1>5. ExistsBijection(S, A)
  BY <1>4 DEF ExistsBijection
<1>6. IsFiniteSet(A) /\ Cardinality(A) = Cardinality(S)
  BY <1>2, <1>1, <1>5, FS_Bijection, FS_Surjection
<1> QED
  BY <1>6

(* A message that is about to be written. *)
LEMMA WriterAgrees ==
    ASSUME Md5Works, TInv, SInv, HoldsTable,
           \A b \in Build : IsFiniteSet(DOMAIN Code[b])
    PROVE  FormatAgrees
<1>0. Format!read_version_1(Format!TruncatedFile).thrown
  <2>1. ~ Format!Accepts(Format!TruncatedFile)
    BY DEF Format!Accepts, Format!TruncatedFile
  <2> QED
    BY <2>1 DEF Format!read_version_1, Format!Thrown
<1> SUFFICES ASSUME NEW p \in Proc, pc[p] = "write"
             PROVE  AgreesFor(p)
  BY <1>0 DEF FormatAgrees
<1> DEFINE t == instructions[p]  c == Cardinality(DOMAIN t)
<1>1. Proven!IsTable(t)
  BY DEF TInv, TypeOK, HoldsTable, Exiting, IsInsns, Lengths, Proven!IsTable
<1>2. c \in Nat /\ IsFiniteSet(DOMAIN t)
  <2>1. DOMAIN t \subseteq DOMAIN Code[loaded[p]] /\ loaded[p] \in Build
    BY DEF SInv, InstructionsAgree, AgreesWith, Exiting, TInv, TypeOK
  <2> QED
    BY <2>1, FS_Subset, FS_CardinalityType
<1>3. version[p] # 0 => digest[p] \in Build /\ digest[p] # NoDigest
  BY PluginExitAssumption DEF SInv, DigestIsLoaded, TInv, TypeOK
<1>4. base_address[p] \in Int /\ version[p] \in {0, 1} /\ ReadLimit \in Nat
  BY PluginExitAssumption DEF TInv, TypeOK
<1>5. CASE version[p] = 0
  <2> DEFINE w == Format!write_version_0(t, base_address[p])
             addresses == {o + base_address[p] : o \in DOMAIN t}
  <2>1. /\ Written(p) = w
        /\ Message(p).kind = "v0" /\ DOMAIN Message(p).insns = addresses
    BY <1>5 DEF Written, Message, Content
  <2>2. /\ w.there = w.words /\ w.words = 4 + c
    BY SameCardinality DEF Format!write_version_0, Format!Saved, Format!Words, Format!Layout
  <2>3. Format!read_version_1(w) = Format!Thrown
    BY Proven!OtherVersionThrows, SameFormat, SamePrimitives
  <2>4. Format!read_version_0(w) =
            IF w.words <= 10 + 2 * ReadLimit
            THEN [thrown |-> FALSE, offsets |-> addresses] ELSE Format!Thrown
    BY Proven!Version0ComesBack, SameFormat, SamePrimitives
  <2>5. \A n \in 0 .. w.words - 1 :
           /\ Format!read_version_1(Format!Cut(w, n)).thrown
           /\ Format!read_version_0(Format!Cut(w, n)).thrown
    <3>1. PICK root : w = Format!Saved(root, w.words)
      BY DEF Format!write_version_0, Format!Saved
    <3>2. w.words \in Nat
      BY <1>2, <2>2
    <3> HIDE DEF w
    <3> QED
      BY <3>1, <3>2, CutThrows
  <2>6. Unreadable(Message(p))
    BY <2>1 DEF Unreadable
  <2>8. Cardinality(DOMAIN Message(p).insns) = c
    <3>1. DOMAIN t \in SUBSET Int
      BY <1>1 DEF Proven!IsTable
    <3> QED
      BY <1>2, <1>4, <2>1, <3>1, AsManyAddresses
  <2> HIDE DEF w, addresses, c, t
  <2>7. /\ Format!read_version_1(Written(p)).thrown
        /\ \/ /\ ~ Format!read_version_0(Written(p)).thrown
              /\ Format!read_version_0(Written(p)).offsets = addresses
           \/ Format!read_version_0(Written(p)).thrown /\ c > 6 + 2 * ReadLimit
    BY <1>2, <1>4, <2>1, <2>2, <2>3, <2>4 DEF Format!Thrown
  <2>9. c > 6 + 2 * ReadLimit => Cardinality(DOMAIN Message(p).insns) > ReadLimit
    BY <1>2, <1>4, <2>8
  <2> QED
    BY <2>1, <2>5, <2>6, <2>7, <2>9 DEF AgreesFor
<1>6. CASE version[p] # 0
  <2> DEFINE w == Format!write_version_1(t, base_address[p], digest[p])
  <2>1. /\ Written(p) = w
        /\ Message(p) = Content("v1", digest[p], base_address[p], t)
    BY <1>6 DEF Written, Message
  <2>2. /\ w.there = w.words /\ w.words = 10 + 2 * c
    <3>1. Format!TextWords(digest[p]) = 5
      BY <1>3, <1>6 DEF Format!TextWords
    <3> QED
      BY <1>2, <3>1, SameCardinality
      DEF Format!write_version_1, Format!Saved, Format!Words, Format!Layout
  <2>3. Format!read_version_0(w) = Format!Thrown
    BY Proven!OtherVersionThrows, SameFormat, SamePrimitives
  <2>4. Format!read_version_1(w) =
            IF w.words <= 10 + 2 * ReadLimit
            THEN [thrown |-> FALSE, digest |-> digest[p], base_address |-> base_address[p],
                  instructions |-> t]
            ELSE Format!Thrown
    <3>1. LET f == Proven!write_version_1(t, base_address[p], digest[p]) IN
          Proven!read_version_1(f) =
              IF f.words <= 10 + 2 * ReadLimit
              THEN [thrown |-> FALSE, digest |-> digest[p],
                    base_address |-> base_address[p], instructions |-> t]
              ELSE Proven!Thrown
      BY <1>1, Proven!Version1ComesBack
    <3> QED
      BY <3>1, SameFormat, SamePrimitives
  <2>5. \A n \in 0 .. w.words - 1 :
           /\ Format!read_version_1(Format!Cut(w, n)).thrown
           /\ Format!read_version_0(Format!Cut(w, n)).thrown
    <3>1. PICK root : w = Format!Saved(root, w.words)
      BY DEF Format!write_version_1, Format!Saved
    <3>2. w.words \in Nat
      BY <1>2, <2>2
    <3> HIDE DEF w
    <3> QED
      BY <3>1, <3>2, CutThrows
  <2> HIDE DEF w, t
  <2>6. Unreadable(Message(p)) <=> c > ReadLimit
    BY <2>1 DEF Unreadable, Content
  <2> HIDE DEF c
  <2>7. CASE c > ReadLimit
    <3>1. ~ (w.words <= 10 + 2 * ReadLimit)
      BY <1>2, <1>4, <2>2, <2>7
    <3> QED
      BY <2>1, <2>3, <2>4, <2>5, <2>6, <2>7, <3>1 DEF AgreesFor, Content, Format!Thrown
  <2>8. CASE ~ (c > ReadLimit)
    <3>1. w.words <= 10 + 2 * ReadLimit
      BY <1>2, <1>4, <2>2, <2>8
    <3> QED
      BY <2>1, <2>3, <2>4, <2>5, <2>6, <2>8, <3>1 DEF AgreesFor, Content, Format!Thrown
  <2> QED
    BY <2>7, <2>8
<1> QED
  BY <1>5, <1>6

(* For any processes and builds: the steps by which PluginExit reads the   *)
(* output file are what read_version_1 answers on what the exits write.    *)
THEOREM ExitFormatAgrees ==
    ASSUME Md5Works, ~ RebuildAnytime, \A b \in Build : IsFiniteSet(DOMAIN Code[b])
    PROVE  Spec => []FormatAgrees
<1>1. TInv /\ SInv /\ [Next]_vars => SInv'
  BY NextSInv
<1>2. TInv /\ SInv /\ HoldsTable => FormatAgrees
  BY WriterAgrees
<1> QED
  BY InitTInv, NextTInv, InitSInv, <1>1, InitHoldsTable, NextHoldsTable, <1>2, PTL DEF Spec
=============================================================================
