---------------------------- MODULE TracerProofs ----------------------------
(***************************************************************************)
(* What the tables of the plugin hold, for any program, any layouts of its *)
(* memory and any number of threads.                                       *)
(***************************************************************************)
EXTENDS Tracer, WellFoundedInduction, TLAPS

-----------------------------------------------------------------------------
(* What resolve_mapping answers on the tables the kernel can print.        *)

(* At most one mapping of a well-formed table covers an address.           *)
LEMMA CoverIsUnique ==
    ASSUME NEW t, t \subseteq Mapping, WellFormed(t),
           NEW vaddr \in Nat,
           NEW m \in t, NEW n \in t,
           Covers(m, vaddr), Covers(n, vaddr)
    PROVE  m = n
BY DEF WellFormed, Covers, Mapping

(* resolve_mapping's early break and its order of scanning lose nothing:   *)
(* a mapping that covers the address is the one the loop answers at.       *)
LEMMA CoverAnswers ==
    ASSUME NEW t, t \subseteq Mapping, WellFormed(t),
           NEW vaddr \in Nat,
           NEW m \in t, Covers(m, vaddr)
    PROVE  AnswersAt(t, vaddr, m)
<1> SUFFICES ASSUME NEW n \in t, Precedes(n, m)
             PROVE  n.end <= vaddr
  BY DEF AnswersAt
<1>1. m \in Mapping /\ n \in Mapping
  OBVIOUS
<1>2. n # m
  BY <1>1 DEF Precedes, Mapping
<1>3. n.begin <= m.begin /\ m.begin < m.end
  BY <1>1 DEF Precedes, WellFormed, Mapping
<1>4. n.end <= m.begin \/ m.end <= n.begin
  BY <1>2 DEF WellFormed
<1> QED
  BY <1>1, <1>3, <1>4 DEF Covers, Mapping

(* resolve_mapping returns the offset the kernel's mappings give the       *)
(* address, and -1 exactly for the addresses no mapping covers.            *)
THEOREM ResolveIsFileOffset ==
    ASSUME NEW t, t \subseteq Mapping, WellFormed(t),
           NEW vaddr \in Nat
    PROVE  Resolve(t, vaddr) = FileOffset(t, vaddr)
<1>1. CASE \E m \in t : Covers(m, vaddr)
  <2>1. PICK m \in t : Covers(m, vaddr)
    BY <1>1
  <2>2. AnswersAt(t, vaddr, m)
    BY <2>1, CoverAnswers
  <2>3. (CHOOSE n \in t : Covers(n, vaddr)) = m
    <3>1. \A n \in t : Covers(n, vaddr) => n = m
      BY <2>1, CoverIsUnique
    <3> QED
      BY <2>1, <3>1
  <2>4. (CHOOSE n \in t : AnswersAt(t, vaddr, n)) = m
    <3>1. \A n \in t : AnswersAt(t, vaddr, n) => n = m
      BY <2>1, CoverIsUnique DEF AnswersAt
    <3> QED
      BY <2>2, <3>1
  <2> QED
    BY <1>1, <2>2, <2>3, <2>4 DEF Resolve, FileOffset
<1>2. CASE ~ \E m \in t : Covers(m, vaddr)
  BY <1>2 DEF Resolve, FileOffset, AnswersAt
<1> QED
  BY <1>1, <1>2

(* Of a sequence of lines. *)
LEMMA LinesTyped ==
    ASSUME NEW lines \in Seq(MapsLine)
    PROVE  /\ \A i \in DOMAIN lines : /\ i \in Nat
                                      /\ lines[i].begin \in Nat
                                      /\ lines[i].end \in Nat
                                      /\ lines[i].offset \in Nat
           /\ \A i \in DOMAIN lines : \A j \in 1 .. i : j \in DOMAIN lines
<1>1. \A i \in DOMAIN lines : lines[i] \in MapsLine
  OBVIOUS
<1>2. DOMAIN lines = 1 .. Len(lines) /\ Len(lines) \in Nat
  OBVIOUS
<1>3. \A line \in MapsLine : line.begin \in Nat /\ line.end \in Nat /\ line.offset \in Nat
  BY DEF MapsLine
<1>4. \A i \in 1 .. Len(lines) : i \in Nat /\ \A j \in 1 .. i : j \in 1 .. Len(lines)
  BY <1>2
<1> QED
  BY <1>1, <1>2, <1>3, <1>4, Zenon

(* What update_mapping reads is part of what the kernel has: at any        *)
(* address the answer is the right one or none.                            *)
LEMMA ParsedIsPart ==
    ASSUME NEW lines \in Seq(MapsLine), Tidy(lines)
    PROVE  /\ ParsedMappings(lines) \subseteq TargetMappings(lines)
           /\ WellFormed(ParsedMappings(lines))
<1>1. ParsedMappings(lines) \subseteq TargetMappings(lines)
  BY DEF Tidy, ParsedMappings, TargetMappings, LinesRead
<1>2. WellFormed(TargetMappings(lines))
  BY DEF Tidy
<1> HIDE DEF Tidy
<1> QED
  BY <1>1, <1>2 DEF WellFormed

(* Before the first line too long, nothing is missing.                     *)
LEMMA ParsedBeforeLongLine ==
    ASSUME NEW lines \in Seq(MapsLine), Tidy(lines),
           NEW vaddr \in Nat, ~ AfterLongLine(lines, vaddr),
           NEW m \in TargetMappings(lines), Covers(m, vaddr)
    PROVE  m \in ParsedMappings(lines)
<1>0. /\ \A i \in DOMAIN lines : i \in Nat /\ lines[i].begin \in Nat
      /\ \A i \in DOMAIN lines : \A j \in 1 .. i : j \in DOMAIN lines
  BY LinesTyped
<1>1. PICK i \in DOMAIN lines :
         /\ lines[i].inode # 0 /\ lines[i].path = Target
         /\ m = [begin |-> lines[i].begin, end |-> lines[i].end, offset |-> lines[i].offset]
  BY DEF TargetMappings
<1>2. lines[i].begin <= vaddr
  BY <1>1 DEF Covers
<1>3. NamesTarget(lines[i])
  BY <1>1 DEF Tidy
<1>4. ASSUME NEW j \in 1 .. i
      PROVE  j \in DOMAIN lines => lines[j].fits
  <2>1. j \in DOMAIN lines => lines[j].begin <= lines[i].begin
    BY <1>0, <1>1, <1>4 DEF Tidy
  <2> QED
    BY <1>0, <1>2, <2>1 DEF AfterLongLine
<1> QED
  BY <1>0, <1>1, <1>3, <1>4 DEF ParsedMappings, LinesRead

(* resolve_mapping on the maps file: right before the first line too long, *)
(* right or no answer after it.                                            *)
THEOREM ResolveParsed ==
    ASSUME NEW lines \in Seq(MapsLine), Tidy(lines),
           NEW vaddr \in Nat
    PROVE  LET answer == Resolve(ParsedMappings(lines), vaddr) IN
           \/ answer = FileOffset(TargetMappings(lines), vaddr)
           \/ answer = NoOffset /\ AfterLongLine(lines, vaddr)
<1> DEFINE P == ParsedMappings(lines)  T == TargetMappings(lines)
<1>0. T \subseteq Mapping
  BY LinesTyped DEF TargetMappings, Mapping
<1>1. P \subseteq T /\ WellFormed(P) /\ WellFormed(T) /\ P \subseteq Mapping
  BY <1>0, ParsedIsPart DEF Tidy
<1>2. Resolve(P, vaddr) = FileOffset(P, vaddr)
  BY <1>1, ResolveIsFileOffset
<1>3. \A m \in T : Covers(m, vaddr) => m \in P \/ AfterLongLine(lines, vaddr)
  BY ParsedBeforeLongLine
<1>4. \A m, n \in T : Covers(m, vaddr) /\ Covers(n, vaddr) => m = n
  BY <1>0, <1>1, CoverIsUnique
<1> HIDE DEF P, T
<1>5. CASE \E m \in P : Covers(m, vaddr)
  <2>1. PICK m \in P : Covers(m, vaddr)
    BY <1>5
  <2>2. /\ (CHOOSE n \in P : Covers(n, vaddr)) = m
        /\ (CHOOSE n \in T : Covers(n, vaddr)) = m
    BY <1>1, <1>4, <2>1
  <2> QED
    BY <1>1, <1>2, <2>1, <2>2 DEF FileOffset, P, T
<1>6. CASE ~ \E m \in P : Covers(m, vaddr)
  BY <1>1, <1>2, <1>3, <1>6 DEF FileOffset, P, T
<1> QED
  BY <1>5, <1>6

-----------------------------------------------------------------------------
(* What a translation finds.                                               *)

(* The translation whose length insn_discovered keeps exists: among the    *)
(* finitely many of a block at one offset there is a last.                 *)
LEMMA LeastNat ==
    ASSUME NEW T, T \subseteq Nat, T # {}
    PROVE  \E x \in T : \A y \in T : x <= y
<1>1. PICK x \in T : \A y \in T : ~ (<<y, x>> \in OpToRel(<, Nat))
  BY NatLessThanWellFounded, WFMin
<1>2. \A y \in T : ~ (y < x)
  BY <1>1 DEF OpToRel
<1> QED
  BY <1>2

LEMMA GreatestIndex ==
    ASSUME NEW n \in Nat, NEW S, S \subseteq 1 .. n, S # {}
    PROVE  \E i \in S : \A j \in S : j <= i
<1> DEFINE T == {n - i : i \in S}
<1>1. T \subseteq Nat /\ T # {}
  <2>1. PICK i \in S : TRUE
    OBVIOUS
  <2>2. n - i \in T
    OBVIOUS
  <2> QED
    BY <2>2
<1>2. PICK x \in T : \A y \in T : x <= y
  BY <1>1, LeastNat
<1>3. PICK i \in S : x = n - i
  OBVIOUS
<1>4. ASSUME NEW j \in S
      PROVE  j <= i
  <2>1. x <= n - j
    BY <1>2
  <2> QED
    BY <1>3, <2>1
<1> QED
  BY <1>4

(* Every answer of resolve_mapping is an offset or -1. *)
LEMMA ResolveRange ==
    ASSUME NEW t, t \subseteq Mapping, NEW vaddr \in Nat
    PROVE  Resolve(t, vaddr) \in Nat \cup {NoOffset}
<1>1. CASE \E m \in t : AnswersAt(t, vaddr, m)
  <2>1. PICK m \in t : m = (CHOOSE n \in t : AnswersAt(t, vaddr, n)) /\ AnswersAt(t, vaddr, m)
    BY <1>1
  <2>2. m \in Mapping /\ Covers(m, vaddr)
    BY <2>1 DEF AnswersAt
  <2>3. OffsetIn(m, vaddr) \in Nat
    BY <2>2 DEF OffsetIn, Covers, Mapping
  <2> QED
    BY <1>1, <2>1, <2>3 DEF Resolve
<1>2. CASE ~ \E m \in t : AnswersAt(t, vaddr, m)
  BY <1>2 DEF Resolve
<1> QED
  BY <1>1, <1>2

LEMMA FileOffsetRange ==
    ASSUME NEW t, t \subseteq Mapping, NEW vaddr \in Nat
    PROVE  FileOffset(t, vaddr) \in Nat \cup {NoOffset}
<1>1. CASE \E m \in t : Covers(m, vaddr)
  <2>1. PICK m \in t : m = (CHOOSE n \in t : Covers(n, vaddr)) /\ Covers(m, vaddr)
    BY <1>1
  <2>2. OffsetIn(m, vaddr) \in Nat
    BY <2>1 DEF OffsetIn, Covers, Mapping
  <2> QED
    BY <1>1, <2>1, <2>2 DEF FileOffset
<1>2. CASE ~ \E m \in t : Covers(m, vaddr)
  BY <1>2 DEF FileOffset
<1> QED
  BY <1>1, <1>2

LEMMA MappingsTyped ==
    ASSUME NEW l \in Layouts
    PROVE  ParsedMappings(l) \subseteq Mapping /\ TargetMappings(l) \subseteq Mapping
BY TracerAssumption, LinesTyped DEF ParsedMappings, TargetMappings, LinesRead, Mapping

LEMMA TableKept ==
    ASSUME TableOK, UNCHANGED table
    PROVE  TableOK'
BY DEF TableOK, table

LEMMA InitTypeOK == Init => TypeOK
<1> SUFFICES ASSUME Init
             PROVE  TypeOK
  OBVIOUS
<1>1. GuestOK
  BY TracerAssumption DEF Init, GuestOK
<1>2. TableOK
  BY DEF Init, TableOK
<1>3. DiscoveredOK /\ ExecutedOK
  BY DEF Init, DiscoveredOK, ExecutedOK
<1> QED
  BY <1>1, <1>2, <1>3 DEF TypeOK

LEMMA TranslateTypeOK ==
    ASSUME TypeOK, NEW b \in Blocks, Translate(b)
    PROVE  TypeOK'
<1> USE TracerAssumption
<1> DEFINE mappings == IF has_mapped THEN mapping_table ELSE ParsedMappings(layout)
           OffsetAt(i) == Resolve(mappings, b[i])
           Found == {i \in DOMAIN b : OffsetAt(i) # NoOffset}
           LastAt(o) == CHOOSE i \in Found :
               OffsetAt(i) = o /\ \A j \in Found : OffsetAt(j) = o => j <= i
           Offsets == {OffsetAt(i) : i \in Found}
<1>1. mappings \subseteq Mapping
  BY MappingsTyped DEF TypeOK, GuestOK, TableOK
<1>2. b \in Seq(Vaddr) /\ \A i \in DOMAIN b : b[i] \in Vaddr /\ b[i] \in Nat
  OBVIOUS
<1>3. \A i \in Found : OffsetAt(i) \in Nat
  BY <1>1, <1>2, ResolveRange
<1>4. \A o \in Offsets : LastAt(o) \in Found
  <2> SUFFICES ASSUME NEW o \in Offsets
               PROVE  LastAt(o) \in Found
    OBVIOUS
  <2> DEFINE S == {i \in Found : OffsetAt(i) = o}
  <2>1. S # {} /\ S \subseteq 1 .. Len(b) /\ Len(b) \in Nat
    <3>1. S # {} /\ S \subseteq DOMAIN b
      OBVIOUS
    <3>2. DOMAIN b = 1 .. Len(b) /\ Len(b) \in Nat
      BY <1>2
    <3> QED
      BY <3>1, <3>2
  <2>2. PICK i \in S : \A j \in S : j <= i
    BY <2>1, GreatestIndex
  <2> QED
    BY <2>2
<1>5. \A o \in Offsets : code[b[LastAt(o)]] \in 1 .. 127
  BY <1>2, <1>4 DEF TypeOK, GuestOK
<1> HIDE DEF mappings, OffsetAt, LastAt
<1>6. /\ has_mapped' = TRUE /\ mapping_table' = mappings
      /\ insn_discovered' = [o \in DOMAIN insn_discovered \cup Offsets |->
             IF o \in Offsets THEN code[b[LastAt(o)]] ELSE insn_discovered[o]]
      /\ tbs' = tbs \cup {[vaddr |-> b[i],
                           userdata |-> IF i \in Found THEN OffsetAt(i) ELSE Null] :
                              i \in DOMAIN b}
      /\ UNCHANGED <<phase, guest, vcpus, insn_executed, instructions, ran>>
  BY DEF Translate, mappings, OffsetAt, LastAt
<1>7. GuestOK'
  <2>1. tbs' \subseteq [vaddr : Vaddr, userdata : Nat]
    BY <1>2, <1>3, <1>6 DEF TypeOK, GuestOK, Null
  <2> QED
    BY <1>6, <2>1 DEF TypeOK, GuestOK, guest
<1>8. TableOK'
  BY <1>1, <1>6 DEF TableOK
<1>9. DiscoveredOK'
  <2>1. Offsets \subseteq Nat
    BY <1>3
  <2> HIDE DEF Offsets
  <2>2. DOMAIN insn_discovered' = DOMAIN insn_discovered \cup Offsets
    BY <1>6
  <2>3. ASSUME NEW o \in DOMAIN insn_discovered'
        PROVE  insn_discovered'[o] \in 0 .. 127
    <3>1. CASE o \in Offsets
      BY <1>5, <1>6, <2>2, <3>1
    <3>2. CASE o \notin Offsets
      BY <1>6, <2>2, <2>3, <3>2 DEF TypeOK, DiscoveredOK
    <3> QED
      BY <3>1, <3>2
  <2> QED
    BY <2>1, <2>2, <2>3 DEF TypeOK, DiscoveredOK
<1> QED
  BY <1>6, <1>7, <1>8, <1>9 DEF TypeOK, ExecutedOK

LEMMA NextTypeOK == TypeOK /\ [Next]_vars => TypeOK'
<1> SUFFICES ASSUME TypeOK, [Next]_vars
             PROVE  TypeOK'
  OBVIOUS
<1> USE TracerAssumption DEF TypeOK
<1>1. ASSUME NEW argc \in 0 .. 2, Install(argc)
      PROVE  TypeOK'
  <2>1. GuestOK'
    <3>1. vcpus' = vcpus \/ vcpus' = {0}
      BY <1>1 DEF Install
    <3>2. vcpus' \subseteq 0 .. VcpuBound
      <4>1. vcpus \subseteq 0 .. VcpuBound
        BY DEF GuestOK
      <4>2. 0 \in 0 .. VcpuBound
        BY TracerAssumption
      <4> QED
        BY <3>1, <4>1, <4>2, Zenon
    <3>3. phase' \in {"refused", "running"}
      BY <1>1 DEF Install
    <3>4. UNCHANGED <<layout, code, moved, tbs, ran>>
      BY <1>1 DEF Install, guest
    <3> QED
      BY <3>2, <3>3, <3>4 DEF GuestOK
  <2>2. TableOK'
    BY <1>1, TableKept DEF Install
  <2>3. DiscoveredOK'
    BY <1>1 DEF Install, DiscoveredOK
  <2>4. ExecutedOK'
    BY <1>1 DEF Install, ExecutedOK, GuestOK
  <2> QED
    BY <2>1, <2>2, <2>3, <2>4
<1>2. ASSUME NEW b \in Blocks, Translate(b)
      PROVE  TypeOK'
  BY <1>2, TranslateTypeOK
<1>3. ASSUME NEW v \in vcpus, NEW t \in tbs, Execute(v, t)
      PROVE  TypeOK'
  <2>1. t.userdata \in Nat /\ t.vaddr \in Vaddr /\ code[t.vaddr] \in 1 .. 127
    BY <1>3 DEF GuestOK
  <2>2. FileOffset(TargetMappings(layout), t.vaddr) \in Nat \cup {NoOffset}
    BY <2>1, MappingsTyped, FileOffsetRange DEF GuestOK
  <2>3. GuestOK'
    BY <1>3, <2>1, <2>2 DEF Execute, GuestOK, guest
  <2>4. TableOK'
    BY <1>3, TableKept DEF Execute
  <2>5. DiscoveredOK'
    BY <1>3 DEF Execute, DiscoveredOK
  <2>6. ExecutedOK'
    <3>1. phase # "loaded" /\ phase' # "loaded"
      BY <1>3 DEF Execute
    <3>2. \/ insn_executed' = [insn_executed EXCEPT ![v] = @ \cup {t.userdata}]
          \/ insn_executed' = insn_executed
      BY <1>3 DEF Execute
    <3> QED
      BY <2>1, <3>1, <3>2 DEF ExecutedOK
  <2> QED
    BY <2>3, <2>4, <2>5, <2>6
<1>4. CASE Exit
  <2>1. Recorded \subseteq Nat
    BY <1>4 DEF Exit, Recorded, ExecutedOK
  <2>2. GuestOK'
    BY <1>4 DEF Exit, GuestOK, guest
  <2>3. TableOK'
    BY <1>4, TableKept DEF Exit
  <2>4. DiscoveredOK'
    <3>1. DOMAIN insn_discovered' = DOMAIN insn_discovered \cup Recorded
      BY <1>4 DEF Exit
    <3>2. \A o \in DOMAIN insn_discovered' : insn_discovered'[o] \in 0 .. 127
      BY <1>4 DEF Exit, DiscoveredOK
    <3> QED
      BY <2>1, <3>1, <3>2 DEF DiscoveredOK
  <2>5. ExecutedOK'
    BY <1>4 DEF Exit, ExecutedOK, GuestOK
  <2> QED
    BY <2>2, <2>3, <2>4, <2>5
<1>5. CASE Spawn
  <2>1. GuestOK'
    BY <1>5 DEF Spawn, GuestOK, guest
  <2>2. TableOK'
    BY <1>5, TableKept DEF Spawn
  <2>3. DiscoveredOK'
    BY <1>5 DEF Spawn, DiscoveredOK
  <2>4. ExecutedOK'
    BY <1>5 DEF Spawn, ExecutedOK, GuestOK
  <2> QED
    BY <2>1, <2>2, <2>3, <2>4
<1>6. ASSUME NEW v \in vcpus, ThreadEnds(v)
      PROVE  TypeOK'
  <2>1. GuestOK'
    BY <1>6 DEF ThreadEnds, GuestOK, guest
  <2>2. TableOK'
    BY <1>6, TableKept DEF ThreadEnds
  <2>3. DiscoveredOK'
    BY <1>6 DEF ThreadEnds, DiscoveredOK
  <2>4. ExecutedOK'
    BY <1>6 DEF ThreadEnds, ExecutedOK, GuestOK
  <2> QED
    BY <2>1, <2>2, <2>3, <2>4
<1>7. ASSUME NEW r \in Rewrites, Rewrite(r)
      PROVE  TypeOK'
  <2>1. GuestOK'
    BY <1>7 DEF Rewrite, GuestOK, guest
  <2>2. TableOK'
    BY <1>7, TableKept DEF Rewrite
  <2>3. DiscoveredOK'
    BY <1>7 DEF Rewrite, DiscoveredOK
  <2>4. ExecutedOK'
    BY <1>7 DEF Rewrite, ExecutedOK, GuestOK
  <2> QED
    BY <2>1, <2>2, <2>3, <2>4
<1>8. ASSUME NEW l \in Layouts, Remap(l)
      PROVE  TypeOK'
  <2>1. GuestOK'
    BY <1>8 DEF Remap, GuestOK, guest
  <2>2. TableOK'
    BY <1>8, TableKept DEF Remap
  <2>3. DiscoveredOK'
    BY <1>8 DEF Remap, DiscoveredOK
  <2>4. ExecutedOK'
    BY <1>8 DEF Remap, ExecutedOK, GuestOK
  <2> QED
    BY <2>1, <2>2, <2>3, <2>4
<1>9. CASE Die
  <2>1. GuestOK'
    BY <1>9 DEF Die, GuestOK, guest
  <2>2. TableOK'
    BY <1>9, TableKept DEF Die
  <2>3. DiscoveredOK'
    BY <1>9 DEF Die, DiscoveredOK
  <2>4. ExecutedOK'
    BY <1>9 DEF Die, ExecutedOK, GuestOK
  <2> QED
    BY <2>1, <2>2, <2>3, <2>4
<1>10. CASE UNCHANGED vars
  BY <1>10, TableKept DEF vars, guest, GuestOK, DiscoveredOK, ExecutedOK
<1> HIDE DEF TypeOK
<1> QED
  BY <1>1, <1>2, <1>3, <1>4, <1>5, <1>6, <1>7, <1>8, <1>9, <1>10 DEF Next

(* Every variable keeps its type: in particular every offset recorded by a *)
(* vCPU is a file offset, and every length fits its byte.                  *)
THEOREM TracerTypeOK == Spec => []TypeOK
BY InitTypeOK, NextTypeOK, PTL DEF Spec

-----------------------------------------------------------------------------
(* What the callbacks record was discovered before. *)

(* An instruction that is instrumented was entered in insn_discovered.     *)
TbsDiscovered ==
    \A t \in tbs : t.userdata # Null => t.userdata \in DOMAIN insn_discovered

DInv == TbsDiscovered /\ ExecutedDiscovered

(* The callback of thread v adds one offset to what is recorded. *)
LEMMA RecordedGrows ==
    ASSUME insn_executed \in [0 .. MaxVcpus - 1 -> SUBSET Nat],
           NEW v \in 0 .. MaxVcpus - 1, NEW offset \in Nat,
           insn_executed' = [insn_executed EXCEPT ![v] = @ \cup {offset}]
    PROVE  Recorded' = Recorded \cup {offset}
<1>1. DOMAIN insn_executed' = DOMAIN insn_executed
  OBVIOUS
<1>2. insn_executed'[v] = insn_executed[v] \cup {offset}
  OBVIOUS
<1>3. \A w \in DOMAIN insn_executed : w # v => insn_executed'[w] = insn_executed[w]
  OBVIOUS
<1> QED
  BY <1>1, <1>2, <1>3 DEF Recorded

(* The effect of an execution callback on the recorded offsets. *)
LEMMA ExecuteRecords ==
    ASSUME TypeOK, NEW v \in vcpus, NEW t \in tbs, Execute(v, t)
    PROVE  \/ t.userdata = Null /\ Recorded' = Recorded
           \/ t.userdata # Null /\ v >= MaxVcpus /\ Recorded' = Recorded
           \/ t.userdata # Null /\ v < MaxVcpus /\ Recorded' = Recorded \cup {t.userdata}
<1>1. insn_executed \in [0 .. MaxVcpus - 1 -> SUBSET Nat]
  BY DEF Execute, TypeOK, ExecutedOK
<1>2. t.userdata \in Nat /\ v \in Nat /\ MaxVcpus \in Nat
  BY TracerAssumption DEF TypeOK, GuestOK
<1>3. CASE t.userdata # Null /\ v < MaxVcpus
  <2>1. insn_executed' = [insn_executed EXCEPT ![v] = @ \cup {t.userdata}]
    BY <1>2, <1>3 DEF Execute
  <2>2. v \in 0 .. MaxVcpus - 1
    BY <1>2, <1>3
  <2> QED
    BY <1>1, <1>2, <1>3, <2>1, <2>2, RecordedGrows
<1>4. CASE t.userdata = Null \/ v >= MaxVcpus
  <2>1. insn_executed' = insn_executed
    BY <1>2, <1>4 DEF Execute
  <2> QED
    BY <1>2, <1>4, <2>1 DEF Recorded
<1> QED
  BY <1>2, <1>3, <1>4

LEMMA InstallRecordsNothing ==
    ASSUME NEW argc, Install(argc)
    PROVE  Recorded' = {}
BY DEF Install, Recorded

LEMMA InitDInv == Init => DInv
BY DEF Init, DInv, TbsDiscovered, ExecutedDiscovered, Recorded

LEMMA NextDInv == TypeOK /\ DInv /\ [Next]_vars => DInv'
<1> SUFFICES ASSUME TypeOK, DInv, [Next]_vars
             PROVE  DInv'
  OBVIOUS
<1> USE DEF DInv, TbsDiscovered, ExecutedDiscovered
<1>1. ASSUME NEW argc \in 0 .. 2, Install(argc)
      PROVE  DInv'
  BY <1>1, InstallRecordsNothing DEF Install
<1>2. ASSUME NEW b \in Blocks, Translate(b)
      PROVE  DInv'
  <2>1. Recorded' = Recorded
    BY <1>2 DEF Translate, Recorded
  <2>2. DOMAIN insn_discovered \subseteq DOMAIN insn_discovered'
    BY <1>2 DEF Translate
  <2>3. ASSUME NEW t \in tbs', t \notin tbs, t.userdata # Null
        PROVE  t.userdata \in DOMAIN insn_discovered'
    BY <1>2, <2>3 DEF Translate
  <2> QED
    BY <2>1, <2>2, <2>3
<1>3. ASSUME NEW v \in vcpus, NEW t \in tbs, Execute(v, t)
      PROVE  DInv'
  <2>1. UNCHANGED <<tbs, insn_discovered>>
    BY <1>3 DEF Execute
  <2> QED
    BY <1>3, <2>1, ExecuteRecords
<1>4. CASE Exit
  <2>1. Recorded' = Recorded /\ UNCHANGED tbs
    BY <1>4 DEF Exit, Recorded
  <2>2. DOMAIN insn_discovered' = DOMAIN insn_discovered \cup Recorded
    BY <1>4 DEF Exit
  <2> QED
    BY <2>1, <2>2
<1>5. CASE Spawn
  BY <1>5 DEF Spawn, Recorded
<1>6. ASSUME NEW v \in vcpus, ThreadEnds(v)
      PROVE  DInv'
  BY <1>6 DEF ThreadEnds, Recorded
<1>7. ASSUME NEW r \in Rewrites, Rewrite(r)
      PROVE  DInv'
  BY <1>7 DEF Rewrite, Recorded
<1>8. ASSUME NEW l \in Layouts, Remap(l)
      PROVE  DInv'
  BY <1>8 DEF Remap, Recorded
<1>9. CASE Die
  BY <1>9 DEF Die, Recorded
<1>10. CASE UNCHANGED vars
  BY <1>10 DEF vars, Recorded
<1> HIDE DEF DInv
<1> QED
  BY <1>1, <1>2, <1>3, <1>4, <1>5, <1>6, <1>7, <1>8, <1>9, <1>10 DEF Next

(* Whatever the program maps, rewrites and spawns: plugin_exit looks up no *)
(* length that was not discovered.                                         *)
THEOREM ExecutedIsDiscovered == Spec => []ExecutedDiscovered
<1>1. DInv => ExecutedDiscovered
  BY DEF DInv
<1> QED
  BY InitTypeOK, NextTypeOK, InitDInv, NextDInv, <1>1, PTL DEF Spec

-----------------------------------------------------------------------------
(* Whatever is mapped later, offsets come from the snapshot.               *)

InSnapshot(o) ==
    \E m \in mapping_table : m.offset <= o /\ o < m.offset + (m.end - m.begin)

(* Before the maps are read nothing is instrumented, run or recorded.      *)
SnapInv ==
    /\ has_mapped # TRUE =>
          tbs = {} /\ Recorded = {} /\ ran = {} /\ DOMAIN insn_discovered = {}
    /\ \A t \in tbs : t.userdata # Null => InSnapshot(t.userdata)
    /\ OffsetsFromSnapshot

(* An answer of resolve_mapping lies in the mapping it was found in.       *)
LEMMA ResolveInside ==
    ASSUME NEW t, t \subseteq Mapping, NEW vaddr \in Nat,
           Resolve(t, vaddr) # NoOffset
    PROVE  \E m \in t : /\ m.offset <= Resolve(t, vaddr)
                        /\ Resolve(t, vaddr) < m.offset + (m.end - m.begin)
<1>1. PICK m \in t : AnswersAt(t, vaddr, m) /\ Resolve(t, vaddr) = OffsetIn(m, vaddr)
  BY DEF Resolve
<1>2. m.begin \in Nat /\ m.end \in Nat /\ m.offset \in Nat
  BY DEF Mapping
<1>3. /\ m.offset <= OffsetIn(m, vaddr)
      /\ OffsetIn(m, vaddr) < m.offset + (m.end - m.begin)
  BY <1>1, <1>2 DEF AnswersAt, Covers, OffsetIn
<1> QED
  BY <1>1, <1>3

(* There is nothing to begin with.                                         *)
LEMMA InitSnapInv == Init => SnapInv
BY DEF Init, SnapInv, OffsetsFromSnapshot, Recorded

(* The first translation takes the snapshot, every one adds offsets in it. *)
LEMMA TranslateSnapInv ==
    ASSUME TypeOK, SnapInv, NEW b \in Blocks, Translate(b)
    PROVE  SnapInv'
<1> DEFINE mappings == IF has_mapped THEN mapping_table ELSE ParsedMappings(layout)
           Userdata(i) == IF i \in {j \in DOMAIN b : Resolve(mappings, b[j]) # NoOffset}
                          THEN Resolve(mappings, b[i]) ELSE Null
<1>1. /\ has_mapped' = TRUE /\ mapping_table' = mappings
      /\ tbs' = tbs \cup {[vaddr |-> b[i], userdata |-> Userdata(i)] : i \in DOMAIN b}
      /\ Recorded' = Recorded
  BY DEF Translate, Recorded
<1>2. mappings \subseteq Mapping
  BY MappingsTyped DEF TypeOK, GuestOK, TableOK
<1>3. \A i \in DOMAIN b : b[i] \in Nat
  BY TracerAssumption
<1>4. has_mapped = TRUE => mapping_table' = mapping_table
  BY <1>1
<1>5. \A i \in DOMAIN b : Userdata(i) # Null =>
         \E m \in mappings : /\ m.offset <= Userdata(i)
                             /\ Userdata(i) < m.offset + (m.end - m.begin)
  BY <1>2, <1>3, ResolveInside
<1> HIDE DEF mappings, Userdata
<1>6. ASSUME NEW t \in tbs', t.userdata # Null
      PROVE  InSnapshot(t.userdata)'
  <2>1. CASE t \in tbs
    BY <1>4, <1>6, <2>1 DEF SnapInv, InSnapshot
  <2>2. CASE t \notin tbs
    BY <1>1, <1>5, <1>6, <2>2 DEF InSnapshot
  <2> QED
    BY <2>1, <2>2
<1>7. OffsetsFromSnapshot'
  BY <1>1, <1>4 DEF SnapInv, OffsetsFromSnapshot
<1> QED
  BY <1>1, <1>6, <1>7 DEF SnapInv

(* What is recorded was registered, and the snapshot is never retaken.     *)
LEMMA NextSnapInv == TypeOK /\ SnapInv /\ [Next]_vars => SnapInv'
<1> SUFFICES ASSUME TypeOK, SnapInv, [Next]_vars
             PROVE  SnapInv'
  OBVIOUS
<1> USE DEF SnapInv, OffsetsFromSnapshot, InSnapshot, table
<1>1. ASSUME NEW argc \in 0 .. 2, Install(argc)
      PROVE  SnapInv'
  BY <1>1, InstallRecordsNothing DEF Install
<1>2. ASSUME NEW b \in Blocks, Translate(b)
      PROVE  SnapInv'
  BY <1>2, TranslateSnapInv
<1>3. ASSUME NEW v \in vcpus, NEW t \in tbs, Execute(v, t)
      PROVE  SnapInv'
  <2>1. UNCHANGED <<tbs, has_mapped, mapping_table>> /\ has_mapped = TRUE
    BY <1>3 DEF Execute
  <2> QED
    BY <1>3, <2>1, ExecuteRecords
<1>4. CASE Exit
  BY <1>4 DEF Exit, Recorded
<1>5. CASE Spawn
  BY <1>5 DEF Spawn, Recorded
<1>6. ASSUME NEW v \in vcpus, ThreadEnds(v)
      PROVE  SnapInv'
  BY <1>6 DEF ThreadEnds, Recorded
<1>7. ASSUME NEW r \in Rewrites, Rewrite(r)
      PROVE  SnapInv'
  BY <1>7 DEF Rewrite, Recorded
<1>8. ASSUME NEW l \in Layouts, Remap(l)
      PROVE  SnapInv'
  BY <1>8 DEF Remap, Recorded
<1>9. CASE Die
  BY <1>9 DEF Die, Recorded
<1>10. CASE UNCHANGED vars
  BY <1>10 DEF vars, Recorded
<1> HIDE DEF SnapInv
<1> QED
  BY <1>1, <1>2, <1>3, <1>4, <1>5, <1>6, <1>7, <1>8, <1>9, <1>10 DEF Next

(* Whatever the program maps after the maps were read: every offset in the *)
(* capture lies in a part of the target that was mapped when they were.    *)
THEOREM RecordedFromSnapshot == Spec => []OffsetsFromSnapshot
<1>1. SnapInv => OffsetsFromSnapshot
  BY DEF SnapInv
<1> QED
  BY InitTypeOK, NextTypeOK, InitSnapInv, NextSnapInv, <1>1, PTL DEF Spec

-----------------------------------------------------------------------------
(* The capture is exact where the design's assumptions hold: the mappings  *)
(* do not change once they were read, the target's name tells its lines    *)
(* apart, and there is a table for every vCPU index. A line too long may   *)
(* be among them.                                                          *)

TidyMaps == \A l \in Layouts : Tidy(l)

(* What the callback of an instruction is registered with. *)
UserdataOf(vaddr) ==
    LET offset == FileOffset(TargetMappings(layout), vaddr)
    IN  IF offset = NoOffset THEN Null ELSE offset

(* The table, once read, is that of the layout. *)
TableIsLayout == has_mapped = TRUE => mapping_table = ParsedMappings(layout)

(* An instrumented instruction of the target is registered with its offset,*)
(* unless it lies after a line too long.                                   *)
TbsExact ==
    \A t \in tbs : \/ t.userdata = UserdataOf(t.vaddr)
                   \/ t.userdata = Null /\ AfterLongLine(layout, t.vaddr)

EInv == TableIsLayout /\ TbsExact /\ Exact

(* Nothing has run, and nothing is recorded.                               *)
LEMMA InitEInv == Init => EInv
BY DEF Init, EInv, TableIsLayout, TbsExact, Exact, Recorded

(* A translation registers what resolve_mapping answers.                   *)
LEMMA TranslateEInv ==
    ASSUME TidyMaps, TypeOK, EInv, NEW b \in Blocks, Translate(b)
    PROVE  EInv'
<1> DEFINE mappings == IF has_mapped THEN mapping_table ELSE ParsedMappings(layout)
           Userdata(i) == IF i \in {j \in DOMAIN b : Resolve(mappings, b[j]) # NoOffset}
                          THEN Resolve(mappings, b[i]) ELSE Null
<1>1. layout \in Layouts /\ layout \in Seq(MapsLine) /\ Tidy(layout)
  BY TracerAssumption DEF TypeOK, GuestOK, TidyMaps
<1>2. mappings = ParsedMappings(layout)
  BY DEF EInv, TableIsLayout, TypeOK, TableOK
<1>3. \A i \in DOMAIN b : b[i] \in Vaddr /\ b[i] \in Nat
  BY TracerAssumption
<1>4. \A i \in DOMAIN b :
         \/ Resolve(mappings, b[i]) = FileOffset(TargetMappings(layout), b[i])
         \/ /\ Resolve(mappings, b[i]) = NoOffset
            /\ AfterLongLine(layout, b[i])
  BY <1>1, <1>2, <1>3, ResolveParsed
<1>5. /\ mapping_table' = mappings
      /\ tbs' = tbs \cup {[vaddr |-> b[i], userdata |-> Userdata(i)] : i \in DOMAIN b}
      /\ UNCHANGED <<guest, insn_executed, ran>>
  BY DEF Translate
<1>6. TableIsLayout'
  BY <1>2, <1>5 DEF TableIsLayout, guest
<1>7. TbsExact'
  <2>1. \A i \in DOMAIN b :
           \/ Userdata(i) = UserdataOf(b[i])
           \/ Userdata(i) = Null /\ AfterLongLine(layout, b[i])
    BY <1>4 DEF UserdataOf
  <2>2. \A vaddr : UserdataOf(vaddr)' = UserdataOf(vaddr)
    BY <1>5 DEF UserdataOf, guest
  <2> HIDE DEF Userdata
  <2>3. ASSUME NEW t \in tbs'
        PROVE  \/ t.userdata = UserdataOf(t.vaddr)
               \/ t.userdata = Null /\ AfterLongLine(layout, t.vaddr)
    BY <1>5, <2>1, <2>3 DEF EInv, TbsExact
  <2> QED
    BY <1>5, <2>2, <2>3 DEF TbsExact, guest
<1>8. Exact'
  BY <1>5 DEF EInv, Exact, Recorded
<1> QED
  BY <1>6, <1>7, <1>8 DEF EInv

LEMMA ExecuteEInv ==
    ASSUME VcpuBound < MaxVcpus, TypeOK, EInv,
           NEW v \in vcpus, NEW t \in tbs, Execute(v, t)
    PROVE  EInv'
<1> DEFINE offset == FileOffset(TargetMappings(layout), t.vaddr)
<1>1. UNCHANGED <<layout, tbs, has_mapped, mapping_table>>
  BY DEF Execute, guest, table
<1>2. TableIsLayout' /\ TbsExact'
  BY <1>1 DEF EInv, TableIsLayout, TbsExact, UserdataOf
<1>3. \/ t.userdata = IF offset = NoOffset THEN Null ELSE offset
      \/ t.userdata = Null /\ AfterLongLine(layout, t.vaddr)
  BY DEF EInv, TbsExact, UserdataOf
<1>4. ran' = IF offset = NoOffset THEN ran
             ELSE ran \cup {[offset |-> offset, length |-> code[t.vaddr]]}
  BY DEF Execute
<1>5. v \in Nat /\ v < MaxVcpus /\ MaxVcpus \in Nat
  BY TracerAssumption DEF TypeOK, GuestOK
<1>6. AfterLongLine(layout, t.vaddr) => offset \in MayMiss
  BY DEF TypeOK, GuestOK, MayMiss
<1> HIDE DEF offset
<1>7. Recorded' = IF t.userdata = Null THEN Recorded ELSE Recorded \cup {t.userdata}
  BY <1>5, ExecuteRecords
<1>8. Exact'
  <2>1. /\ Recorded \subseteq {r.offset : r \in ran} \ {0}
        /\ {r.offset : r \in ran} \ MayMiss \subseteq Recorded
    BY DEF EInv, Exact
  <2>2. CASE offset = NoOffset
    BY <1>3, <1>4, <1>7, <2>1, <2>2 DEF Exact
  <2>3. CASE offset # NoOffset
    <3>1. {r.offset : r \in ran'} = {r.offset : r \in ran} \cup {offset}
      <4> DEFINE new == [offset |-> offset, length |-> code[t.vaddr]]
      <4>1. new.offset = offset
        OBVIOUS
      <4> HIDE DEF new
      <4>2. ran' = ran \cup {new}
        BY <1>4, <2>3 DEF new
      <4> QED
        BY <4>1, <4>2
    <3>2. 0 \in MayMiss
      BY DEF MayMiss
    <3>3. MayMiss' = MayMiss
      BY DEF MayMiss
    <3>4. Recorded' \subseteq {r.offset : r \in ran'} \ {0}
      BY <1>3, <1>7, <2>1, <2>3, <3>1 DEF Null
    <3>5. {r.offset : r \in ran'} \ MayMiss \subseteq Recorded'
      BY <1>3, <1>6, <1>7, <2>1, <2>3, <3>1, <3>2 DEF Null
    <3> QED
      BY <3>3, <3>4, <3>5 DEF Exact
  <2> QED
    BY <2>2, <2>3
<1> QED
  BY <1>2, <1>8 DEF EInv

(* A change of the maps that were read is never forgotten.                 *)
LEMMA MovedStays ==
    ASSUME [Next]_vars, moved
    PROVE  moved'
<1>1. CASE \E l \in Layouts : Remap(l)
  BY <1>1 DEF Remap
<1>2. CASE ~ \E l \in Layouts : Remap(l)
  BY <1>2 DEF Next, vars, guest, Install, Translate, Execute, Exit, Spawn, ThreadEnds,
              Rewrite, Die
<1> QED
  BY <1>1, <1>2

(* A change that is still allowed comes before the first translation.      *)
LEMMA EarlyRemap ==
    ASSUME TypeOK, SnapInv, NEW l \in Layouts, Remap(l), ~ moved'
    PROVE  /\ has_mapped # TRUE /\ tbs' = {} /\ Recorded' = {} /\ ran' = {}
           /\ DOMAIN insn_discovered' = {}
           /\ UNCHANGED <<phase, code, has_mapped, insn_executed, instructions>>
<1>1. has_mapped # TRUE
  BY DEF Remap, TypeOK, TableOK
<1> QED
  BY <1>1 DEF Remap, SnapInv, Recorded, table

(* Every step keeps it until the maps change.                              *)
LEMMA NextEInv ==
    ASSUME TidyMaps, VcpuBound < MaxVcpus
    PROVE  TypeOK /\ SnapInv /\ (~ moved => EInv) /\ [Next]_vars => (~ moved' => EInv')
<1> SUFFICES ASSUME TypeOK, SnapInv, ~ moved => EInv, [Next]_vars, ~ moved'
             PROVE  EInv'
  OBVIOUS
<1>0. EInv
  BY MovedStays
<1> USE DEF EInv, TableIsLayout, TbsExact, Exact, UserdataOf, guest, table
<1>1. ASSUME NEW argc \in 0 .. 2, Install(argc)
      PROVE  EInv'
  <2>1. Recorded' = {}
    BY <1>1, InstallRecordsNothing
  <2>2. Recorded = {}
    BY <1>1 DEF Install, TypeOK, ExecutedOK, Recorded
  <2> QED
    BY <1>0, <1>1, <2>1, <2>2 DEF Install
<1>2. ASSUME NEW b \in Blocks, Translate(b)
      PROVE  EInv'
  BY <1>0, <1>2, TranslateEInv
<1>3. ASSUME NEW v \in vcpus, NEW t \in tbs, Execute(v, t)
      PROVE  EInv'
  BY <1>0, <1>3, ExecuteEInv
<1>4. CASE Exit
  BY <1>0, <1>4 DEF Exit, Recorded
<1>5. CASE Spawn
  BY <1>0, <1>5 DEF Spawn, Recorded
<1>6. ASSUME NEW v \in vcpus, ThreadEnds(v)
      PROVE  EInv'
  BY <1>0, <1>6 DEF ThreadEnds, Recorded
<1>7. ASSUME NEW r \in Rewrites, Rewrite(r)
      PROVE  EInv'
  BY <1>0, <1>7 DEF Rewrite, Recorded
<1>8. ASSUME NEW l \in Layouts, Remap(l)
      PROVE  EInv'
  BY <1>8, EarlyRemap
<1>9. CASE Die
  BY <1>0, <1>9 DEF Die, Recorded
<1>10. CASE UNCHANGED vars
  BY <1>0, <1>10 DEF vars, Recorded
<1> HIDE DEF EInv
<1> QED
  BY <1>1, <1>2, <1>3, <1>4, <1>5, <1>6, <1>7, <1>8, <1>9, <1>10 DEF Next

(* For any program of any number of threads below the size of the table,   *)
(* until it changes the maps that were read: the offsets recorded are      *)
(* exactly those of the target's instructions that were executed, apart    *)
(* from offset 0 and from what lies after a line of the maps file that is  *)
(* too long.                                                               *)
THEOREM CaptureIsExact ==
    ASSUME TidyMaps, VcpuBound < MaxVcpus
    PROVE  Spec => []OffsetsExact
<1>1. TypeOK /\ SnapInv /\ (~ moved => EInv) /\ [Next]_vars => (~ moved => EInv)'
  BY NextEInv
<1>2. (~ moved => EInv) => OffsetsExact
  BY DEF EInv, OffsetsExact
<1> QED
  BY InitTypeOK, NextTypeOK, InitSnapInv, NextSnapInv, InitEInv, <1>1, <1>2, PTL DEF Spec

-----------------------------------------------------------------------------
(* The lengths, and the trace log. The bytes of the target at one offset   *)
(* are those of its file, at whichever address they are mapped.            *)

OneFile ==
    \A l \in Layouts : \A v, w \in Vaddr :
        (/\ FileOffset(TargetMappings(l), v) # NoOffset
         /\ FileOffset(TargetMappings(l), v) = FileOffset(TargetMappings(l), w))
        => Length[v] = Length[w]

(* The instruction of length n at offset o is one of the target, as far as *)
(* the program leaves it alone.                                            *)
IsTargetInsn(o, n) ==
    \E v \in Vaddr : /\ FileOffset(TargetMappings(layout), v) = o
                     /\ o \in Rewritten \/ n = Length[v]

CodeKept == \A v \in Vaddr : (\A r \in Rewrites : r.vaddr # v) => code[v] = Length[v]

LInv ==
    /\ CodeKept
    /\ \A o \in DOMAIN insn_discovered : IsTargetInsn(o, insn_discovered[o])
    /\ \A r \in ran : IsTargetInsn(r.offset, r.length)
    /\ phase = "exited" =>
          /\ DOMAIN instructions = Recorded
          /\ \A o \in Recorded : instructions[o] = insn_discovered[o]
    /\ phase # "exited" => DOMAIN instructions = {}

(* What lies at an address now is an instruction of the target.            *)
LEMMA CodeIsTarget ==
    ASSUME TypeOK, CodeKept, NEW v \in Vaddr
    PROVE  IsTargetInsn(FileOffset(TargetMappings(layout), v), code[v])
<1> DEFINE offset == FileOffset(TargetMappings(layout), v)
<1>1. CASE \E r \in Rewrites : r.vaddr = v
  <2>1. offset \in Rewritten
    BY <1>1 DEF Rewritten, TypeOK, GuestOK
  <2> QED
    BY <2>1 DEF IsTargetInsn
<1>2. CASE \A r \in Rewrites : r.vaddr # v
  BY <1>2 DEF IsTargetInsn, CodeKept
<1> QED
  BY <1>1, <1>2

(* At one offset there is one instruction, if the program does not change  *)
(* it.                                                                     *)
LEMMA OneInsn ==
    ASSUME OneFile, TypeOK, NEW o \in Nat, NEW n, NEW k, o \notin Rewritten,
           IsTargetInsn(o, n), IsTargetInsn(o, k)
    PROVE  n = k
BY DEF OneFile, TypeOK, GuestOK, IsTargetInsn, NoOffset

(* Before anything is translated or run.                                   *)
LEMMA InitLInv == Init => LInv
BY DEF Init, LInv, CodeKept

(* A translation stores the length of what lies at an address now.         *)
LEMMA TranslateLInv ==
    ASSUME TidyMaps, TypeOK, EInv, LInv, NEW b \in Blocks, Translate(b)
    PROVE  LInv'
<1> DEFINE mappings == IF has_mapped THEN mapping_table ELSE ParsedMappings(layout)
           OffsetAt(i) == Resolve(mappings, b[i])
           Found == {i \in DOMAIN b : OffsetAt(i) # NoOffset}
           LastAt(o) == CHOOSE i \in Found :
               OffsetAt(i) = o /\ \A j \in Found : OffsetAt(j) = o => j <= i
           Offsets == {OffsetAt(i) : i \in Found}
<1>1. layout \in Layouts /\ layout \in Seq(MapsLine) /\ Tidy(layout)
  BY TracerAssumption DEF TypeOK, GuestOK, TidyMaps
<1>2. mappings = ParsedMappings(layout)
  BY DEF EInv, TableIsLayout, TypeOK, TableOK
<1>3. \A i \in DOMAIN b : b[i] \in Vaddr /\ b[i] \in Nat
  BY TracerAssumption
<1>4. \A i \in Found : OffsetAt(i) = FileOffset(TargetMappings(layout), b[i])
  BY <1>1, <1>2, <1>3, ResolveParsed
<1>5. \A o \in Offsets : LastAt(o) \in Found /\ OffsetAt(LastAt(o)) = o
  <2> SUFFICES ASSUME NEW o \in Offsets
               PROVE  LastAt(o) \in Found /\ OffsetAt(LastAt(o)) = o
    OBVIOUS
  <2> DEFINE S == {i \in Found : OffsetAt(i) = o}
  <2>1. S # {} /\ S \subseteq DOMAIN b
    OBVIOUS
  <2>2. DOMAIN b = 1 .. Len(b) /\ Len(b) \in Nat
    <3>1. b \in Seq(Vaddr)
      BY TracerAssumption
    <3> QED
      BY <3>1
  <2>3. PICK i \in S : \A j \in S : j <= i
    BY <2>1, <2>2, GreatestIndex
  <2> QED
    BY <2>3
<1>6. \A o \in Offsets : IsTargetInsn(o, code[b[LastAt(o)]])
  <2> SUFFICES ASSUME NEW o \in Offsets
               PROVE  IsTargetInsn(o, code[b[LastAt(o)]])
    OBVIOUS
  <2>1. b[LastAt(o)] \in Vaddr /\ o = FileOffset(TargetMappings(layout), b[LastAt(o)])
    BY <1>3, <1>4, <1>5
  <2> HIDE DEF LastAt, Offsets, OffsetAt
  <2> QED
    BY <2>1, CodeIsTarget DEF LInv
<1> HIDE DEF LastAt, Found, OffsetAt, mappings
<1>7. insn_discovered' = [o \in DOMAIN insn_discovered \cup Offsets |->
             IF o \in Offsets THEN code[b[LastAt(o)]] ELSE insn_discovered[o]]
  BY DEF Translate, LastAt, Found, OffsetAt, mappings
<1>8. UNCHANGED <<phase, layout, code, insn_executed, instructions, ran>> /\ phase = "running"
  BY DEF Translate, guest
<1> HIDE DEF Offsets
<1>9. \A o \in DOMAIN insn_discovered' : IsTargetInsn(o, insn_discovered'[o])
  BY <1>6, <1>7 DEF LInv
<1> QED
  BY <1>8, <1>9 DEF LInv, CodeKept, IsTargetInsn, Recorded

(* The other steps.                                                        *)
LEMMA NextLInv ==
    ASSUME TidyMaps
    PROVE  TypeOK /\ DInv /\ SnapInv /\ (~ moved => EInv /\ LInv) /\ [Next]_vars
               => (~ moved' => LInv')
<1> SUFFICES ASSUME TypeOK, DInv, SnapInv, ~ moved => EInv /\ LInv, [Next]_vars, ~ moved'
             PROVE  LInv'
  OBVIOUS
<1>0. EInv /\ LInv
  BY MovedStays
<1> USE DEF LInv, guest
<1>1. ASSUME NEW argc \in 0 .. 2, Install(argc)
      PROVE  LInv'
  BY <1>0, <1>1 DEF Install, CodeKept, IsTargetInsn, Recorded
<1>2. ASSUME NEW b \in Blocks, Translate(b)
      PROVE  LInv'
  BY <1>0, <1>2, TranslateLInv
<1>3. ASSUME NEW v \in vcpus, NEW t \in tbs, Execute(v, t)
      PROVE  LInv'
  <2> DEFINE offset == FileOffset(TargetMappings(layout), t.vaddr)
  <2>1. UNCHANGED <<layout, code, insn_discovered, instructions>>
        /\ phase # "exited" /\ phase' # "exited"
    BY <1>3 DEF Execute
  <2>2. \/ ran' = ran
        \/ ran' = ran \cup {[offset |-> offset, length |-> code[t.vaddr]]}
    BY <1>3 DEF Execute
  <2>3. IsTargetInsn(offset, code[t.vaddr])
    BY <1>0, CodeIsTarget DEF TypeOK, GuestOK
  <2> HIDE DEF offset
  <2>4. \A r \in ran' : IsTargetInsn(r.offset, r.length)
    BY <1>0, <2>2, <2>3
  <2> QED
    BY <1>0, <2>1, <2>4 DEF CodeKept, IsTargetInsn
<1>4. CASE Exit
  <2>1. /\ DOMAIN insn_discovered' = DOMAIN insn_discovered
        /\ \A o \in DOMAIN insn_discovered : insn_discovered'[o] = insn_discovered[o]
        /\ DOMAIN instructions' = Recorded
        /\ \A o \in Recorded : instructions'[o] = insn_discovered'[o]
        /\ phase' = "exited"
    <3>1. Recorded \subseteq DOMAIN insn_discovered
      BY DEF DInv, ExecutedDiscovered
    <3> DEFINE LengthOf(o) == IF o \in DOMAIN insn_discovered THEN insn_discovered[o] ELSE 0
    <3>2. \A o \in DOMAIN insn_discovered : LengthOf(o) = insn_discovered[o]
      OBVIOUS
    <3> QED
      BY <1>4, <3>1, <3>2 DEF Exit
  <2>2. UNCHANGED <<layout, code, ran, insn_executed>> /\ Recorded' = Recorded
    BY <1>4 DEF Exit, Recorded
  <2>3. \A o \in DOMAIN insn_discovered' : IsTargetInsn(o, insn_discovered'[o])
    BY <1>0, <2>1, <2>2 DEF IsTargetInsn
  <2> QED
    BY <1>0, <2>1, <2>2, <2>3 DEF CodeKept, IsTargetInsn
<1>5. CASE Spawn
  BY <1>0, <1>5 DEF Spawn, CodeKept, IsTargetInsn, Recorded
<1>6. ASSUME NEW v \in vcpus, ThreadEnds(v)
      PROVE  LInv'
  BY <1>0, <1>6 DEF ThreadEnds, CodeKept, IsTargetInsn, Recorded
<1>7. ASSUME NEW r \in Rewrites, Rewrite(r)
      PROVE  LInv'
  BY <1>0, <1>7 DEF Rewrite, CodeKept, IsTargetInsn, Recorded, TypeOK, GuestOK
<1>8. ASSUME NEW l \in Layouts, Remap(l)
      PROVE  LInv'
  <2>1. /\ DOMAIN insn_discovered' = {} /\ ran' = {} /\ Recorded' = {}
        /\ UNCHANGED <<phase, code, instructions>> /\ phase = "running"
    BY <1>8, EarlyRemap DEF Remap
  <2> QED
    BY <1>0, <2>1 DEF CodeKept
<1>9. CASE Die
  BY <1>0, <1>9 DEF Die, CodeKept, IsTargetInsn, Recorded
<1>10. CASE UNCHANGED vars
  BY <1>0, <1>10 DEF vars, CodeKept, IsTargetInsn, Recorded
<1> HIDE DEF LInv
<1> QED
  BY <1>1, <1>2, <1>3, <1>4, <1>5, <1>6, <1>7, <1>8, <1>9, <1>10 DEF Next

(* An instruction that was recorded ran, and is in the table.              *)
LEMMA RecordedRan ==
    ASSUME EInv, TypeOK, NEW o \in Recorded
    PROVE  \E n : [offset |-> o, length |-> n] \in ran
<1>1. PICK r \in ran : r.offset = o
  BY DEF EInv, Exact
<1>2. r = [offset |-> o, length |-> r.length]
  BY <1>1 DEF TypeOK, GuestOK
<1> QED
  BY <1>2

(* Both lengths of an offset, the one that ran and the one in the table,   *)
(* are those of the target's instruction.                                  *)
LEMMA LengthRan ==
    ASSUME OneFile, TypeOK, DInv, EInv, LInv,
           NEW o \in Recorded, o \notin Rewritten,
           NEW n, [offset |-> o, length |-> n] \in ran
    PROVE  insn_discovered[o] = n
<1> DEFINE r == [offset |-> o, length |-> n]
<1>1. IsTargetInsn(o, n)
  <2>1. r.offset = o /\ r.length = n
    OBVIOUS
  <2>2. IsTargetInsn(r.offset, r.length)
    BY DEF LInv
  <2> QED
    BY <2>1, <2>2
<1>2. o \in DOMAIN insn_discovered
  BY DEF DInv, ExecutedDiscovered
<1>3. IsTargetInsn(o, insn_discovered[o])
  BY <1>2 DEF LInv
<1>4. o \in Nat
  BY <1>2 DEF TypeOK, DiscoveredOK
<1> QED
  BY <1>1, <1>3, <1>4, OneInsn

(* The length of an exact capture is one that ran.                         *)
LEMMA LInvLengths ==
    ASSUME OneFile
    PROVE  TypeOK /\ DInv /\ (~ moved => EInv /\ LInv) => LengthsExact
<1> SUFFICES ASSUME TypeOK, DInv, EInv, LInv,
                    NEW o \in DOMAIN instructions, o \notin Rewritten
             PROVE  [offset |-> o, length |-> instructions[o]] \in ran
  BY DEF LengthsExact
<1>1. phase = "exited" /\ o \in Recorded /\ instructions[o] = insn_discovered[o]
  BY DEF LInv
<1>2. PICK n : [offset |-> o, length |-> n] \in ran
  BY <1>1, RecordedRan
<1>3. insn_discovered[o] = n
  BY <1>1, <1>2, LengthRan
<1> QED
  BY <1>1, <1>2, <1>3

LEMMA InvariantsAlways ==
    ASSUME TidyMaps, VcpuBound < MaxVcpus
    PROVE  Spec => [](TypeOK /\ DInv /\ SnapInv /\ (~ moved => EInv /\ LInv))
<1>1. TypeOK /\ SnapInv /\ (~ moved => EInv) /\ [Next]_vars => (~ moved => EInv)'
  BY NextEInv
<1>2. TypeOK /\ DInv /\ SnapInv /\ (~ moved => EInv /\ LInv) /\ [Next]_vars
          => (~ moved => LInv)'
  BY NextLInv
<1> QED
  BY InitTypeOK, NextTypeOK, InitDInv, NextDInv, InitSnapInv, NextSnapInv, InitEInv,
     InitLInv, <1>1, <1>2, PTL DEF Spec

(* For any such program: a length in the capture is that of an instruction *)
(* that ran at the offset, if the program neither rewrites it nor changes  *)
(* the maps that were read.                                                *)
THEOREM LengthsAreExact ==
    ASSUME OneFile, TidyMaps, VcpuBound < MaxVcpus
    PROVE  Spec => []LengthsExact
BY InvariantsAlways, LInvLengths, PTL

(* The state of the log. *)
LogStatus ==
    IF Lost THEN "lost" ELSE IF phase = "exited" THEN "delivered" ELSE "open"
LogSeen == IF Lost THEN {} ELSE Seen
LogReport ==
    IF Lost THEN {} ELSE {Entry(o, instructions[o]) : o \in DOMAIN instructions \ MayMiss}

(* What is lost stays lost.                                                *)
LEMMA LogLost ==
    ASSUME Lost, Lost'
    PROVE  [Log!Next]_Log!vars
BY DEF LogStatus, LogSeen, LogReport, Log!vars

(* An open log may be lost with all that it remembers.                     *)
LEMMA LogAbandons ==
    ASSUME TypeOK, LInv, phase \in {"loaded", "running"}, ~ Lost, Lost'
    PROVE  [Log!Next]_Log!vars
<1>1. LogStatus = "open" /\ LogStatus' = "lost" /\ LogSeen' = {} /\ LogReport' = {}
  BY DEF LogStatus, LogSeen, LogReport
<1>2. LogReport = {}
  BY DEF LogReport, LInv
<1> QED
  BY <1>1, <1>2 DEF LogStatus, LogSeen, LogReport, Log!Next, Log!Abandon

(* A step that leaves what has run and what was delivered alone stutters.  *)
LEMMA LogQuiet ==
    ASSUME UNCHANGED <<ran, instructions>>, ~ Lost, ~ Lost',
           phase' = phase \/ (phase = "loaded" /\ phase' = "running")
    PROVE  [Log!Next]_Log!vars
<1>1. LogSeen' = LogSeen /\ LogReport' = LogReport
  BY DEF LogSeen, LogReport, Seen, Entry, Rewritten, MayMiss
<1>2. LogStatus' = LogStatus
  BY DEF LogStatus
<1> QED
  BY <1>1, <1>2 DEF LogStatus, LogSeen, LogReport, Log!vars

(* An execution is recorded in the log unless the capture may miss it.     *)
LEMMA LogRecords ==
    ASSUME VcpuBound < MaxVcpus, TypeOK, LInv, ~ Lost, ~ Lost',
           NEW v \in vcpus, NEW t \in tbs, Execute(v, t)
    PROVE  [Log!Next]_Log!vars
<1> DEFINE offset == FileOffset(TargetMappings(layout), t.vaddr)
           new == [offset |-> offset, length |-> code[t.vaddr]]
<1>1. UNCHANGED instructions /\ phase = "running" /\ phase' = "running"
  <2>1. v \in Nat /\ v < MaxVcpus /\ MaxVcpus \in Nat
    BY TracerAssumption DEF TypeOK, GuestOK
  <2> QED
    BY <2>1 DEF Execute
<1>2. LogReport' = LogReport /\ LogStatus = "open" /\ LogStatus' = "open"
  BY <1>1 DEF LogReport, LogStatus, Entry, Rewritten, MayMiss
<1>3. CASE offset = NoOffset \/ offset \in MayMiss
  <2>1. \/ ran' = ran
        \/ ran' = ran \cup {new} /\ new.offset \in MayMiss
    BY <1>3 DEF Execute
  <2> HIDE DEF new
  <2>2. {q \in ran' : q.offset \notin MayMiss} = {q \in ran : q.offset \notin MayMiss}
    BY <2>1
  <2>3. LogSeen' = LogSeen
    BY <2>2 DEF LogSeen, Seen, Entry, Rewritten, MayMiss
  <2> QED
    BY <1>2, <2>3 DEF LogStatus, LogSeen, LogReport, Log!vars
<1>4. CASE offset # NoOffset /\ offset \notin MayMiss
  <2> DEFINE entry == Entry(offset, code[t.vaddr])
  <2>1. ran' = ran \cup {new} /\ new.offset = offset /\ new.length = code[t.vaddr]
    BY <1>4 DEF Execute
  <2>2. entry \in TargetInsn
    <3>1. PICK w \in Vaddr : /\ FileOffset(TargetMappings(layout), w) = offset
                             /\ offset \in Rewritten \/ code[t.vaddr] = Length[w]
      BY CodeIsTarget DEF LInv, IsTargetInsn, TypeOK, GuestOK
    <3>2. entry = Entry(FileOffset(TargetMappings(layout), w), Length[w])
      BY <3>1 DEF Entry
    <3> QED
      BY <3>2 DEF TargetInsn, TypeOK, GuestOK
  <2> HIDE DEF new, offset
  <2>3. {q \in ran' : q.offset \notin MayMiss}
            = {q \in ran : q.offset \notin MayMiss} \cup {new}
    BY <1>4, <2>1
  <2>4. {Entry(r.offset, r.length) : r \in {q \in ran' : q.offset \notin MayMiss}}
            = Seen \cup {entry}
    BY <2>1, <2>3 DEF Seen
  <2>5. Seen' = Seen \cup {entry}
    BY <2>4 DEF Seen, Entry, Rewritten, MayMiss
  <2>6. LogSeen' = LogSeen \cup {entry}
    BY <2>5 DEF LogSeen
  <2> QED
    BY <1>2, <2>2, <2>6 DEF LogStatus, LogSeen, LogReport, Log!Next, Log!Record
<1> QED
  BY <1>3, <1>4

(* At the exit the entries of the table are those of what ran.             *)
LEMMA LogDelivers ==
    ASSUME OneFile, TypeOK, DInv, EInv, LInv, ~ Lost, Exit
    PROVE  [Log!Next]_Log!vars
<1>0. ~ Lost'
  BY DEF Exit, Lost, guest
<1>1. /\ LogStatus = "open" /\ LogStatus' = "delivered"
      /\ ran' = ran /\ LogSeen' = Seen /\ LogSeen = Seen /\ LogReport = {}
  BY <1>0 DEF Exit, LogStatus, LogSeen, LogReport, LInv, Seen, Entry, Rewritten, MayMiss
<1>2. /\ DOMAIN instructions' = Recorded
      /\ \A o \in Recorded : instructions'[o] = insn_discovered[o]
  <2>1. Recorded \subseteq DOMAIN insn_discovered
    BY DEF DInv, ExecutedDiscovered
  <2> QED
    BY <2>1 DEF Exit
<1>3. \A o \in Recorded : \A n : [offset |-> o, length |-> n] \in ran
         => Entry(o, instructions'[o]) = Entry(o, n)
  BY <1>2, LengthRan DEF Entry
<1>4. \A o \in Recorded : \E n : [offset |-> o, length |-> n] \in ran
  BY RecordedRan
<1>5. \A r \in ran : r = [offset |-> r.offset, length |-> r.length]
  BY DEF TypeOK, GuestOK
<1>6. {Entry(o, instructions'[o]) : o \in Recorded \ MayMiss} = Seen
  <2>1. ASSUME NEW o \in Recorded \ MayMiss
        PROVE  Entry(o, instructions'[o]) \in Seen
    <3>1. PICK n : [offset |-> o, length |-> n] \in ran
      BY <1>4
    <3> DEFINE r == [offset |-> o, length |-> n]
    <3>2. r.offset = o /\ r.length = n /\ r \in ran
      BY <3>1
    <3>3. Entry(o, instructions'[o]) = Entry(o, n)
      BY <1>3, <3>1
    <3> HIDE DEF r
    <3> QED
      BY <3>2, <3>3 DEF Seen
  <2>2. ASSUME NEW r \in ran, r.offset \notin MayMiss
        PROVE  \E o \in Recorded \ MayMiss :
                  Entry(o, instructions'[o]) = Entry(r.offset, r.length)
    <3>1. r.offset \in Recorded
      BY <2>2 DEF EInv, Exact
    <3>2. [offset |-> r.offset, length |-> r.length] \in ran
      BY <1>5
    <3> QED
      BY <1>3, <2>2, <3>1, <3>2
  <2> QED
    BY <2>1, <2>2 DEF Seen
<1>7. LogReport' = Seen
  BY <1>0, <1>2, <1>6 DEF LogReport, Entry, Rewritten, MayMiss
<1> QED
  BY <1>1, <1>7 DEF LogStatus, LogSeen, LogReport, Log!Next, Log!Deliver

(* The log begins open and empty.                                          *)
LEMMA InitLog == Init => Log!Init
BY DEF Init, Log!Init, Seen, Lost

(* Every step is one of the log, or a stutter.                             *)
LEMMA NextLog ==
    ASSUME OneFile, VcpuBound < MaxVcpus
    PROVE  TypeOK /\ DInv /\ (~ moved => EInv /\ LInv) /\ [Next]_vars
               => [Log!Next]_Log!vars
<1> SUFFICES ASSUME TypeOK, DInv, ~ moved => EInv /\ LInv, [Next]_vars
             PROVE  [Log!Next]_Log!vars
  OBVIOUS
<1>1. CASE UNCHANGED vars
  <2>1. UNCHANGED <<phase, moved, ran, instructions>>
    BY <1>1 DEF vars, guest
  <2>2. Lost' <=> Lost
    BY <2>1 DEF Lost
  <2>3. CASE Lost
    BY <2>2, <2>3, LogLost
  <2>4. CASE ~ Lost
    BY <2>1, <2>2, <2>4, LogQuiet
  <2> QED
    BY <2>3, <2>4
<1>2. CASE Lost /\ Next
  <2>1. phase \in {"refused", "dead"} => UNCHANGED phase
    BY <1>2 DEF Next, Install, Translate, Execute, Exit, Spawn, ThreadEnds, Rewrite,
                Remap, Die
  <2>2. Lost'
    BY <1>2, <2>1, MovedStays DEF Lost
  <2> QED
    BY <1>2, <2>2, LogLost
<1>3. CASE ~ Lost /\ Next
  <2>1. ~ moved /\ EInv /\ LInv
    BY <1>3 DEF Lost
  <2>2. phase \in {"loaded", "running"}
    BY <1>3 DEF Next, Install, Translate, Execute, Exit, Spawn, ThreadEnds, Rewrite,
                Remap, Die
  <2>3. CASE Lost'
    BY <1>3, <2>1, <2>2, <2>3, LogAbandons
  <2>4. CASE ~ Lost'
    <3>1. ASSUME NEW argc \in 0 .. 2, Install(argc)
          PROVE  [Log!Next]_Log!vars
      BY <1>3, <2>4, <3>1, LogQuiet DEF Install, Lost
    <3>2. ASSUME NEW v \in vcpus, NEW t \in tbs, Execute(v, t)
          PROVE  [Log!Next]_Log!vars
      BY <1>3, <2>1, <2>4, <3>2, LogRecords
    <3>3. CASE Exit
      BY <1>3, <2>1, <3>3, LogDelivers
    <3>4. CASE Die
      BY <2>4, <3>4 DEF Die, Lost
    <3>5. CASE \/ \E b \in Blocks : Translate(b)
               \/ Spawn
               \/ \E v \in vcpus : ThreadEnds(v)
               \/ \E r \in Rewrites : Rewrite(r)
               \/ \E l \in Layouts : Remap(l)
      BY <1>3, <2>4, <3>5, LogQuiet DEF Translate, Spawn, ThreadEnds, Rewrite, Remap
    <3> QED
      BY <1>3, <3>1, <3>2, <3>3, <3>4, <3>5 DEF Next
  <2> QED
    BY <2>3, <2>4
<1> QED
  BY <1>1, <1>2, <1>3

(* For any program, whatever it maps and rewrites and however many threads *)
(* below the table's size it has: the run implements the trace log.        *)
THEOREM TracerIsTraceLog ==
    ASSUME OneFile, TidyMaps, VcpuBound < MaxVcpus
    PROVE  Spec => ImplementsTraceLog
<1>1. TypeOK /\ DInv /\ (~ moved => EInv /\ LInv) /\ [Next]_vars => [Log!Next]_Log!vars
  BY NextLog
<1> QED
  BY InvariantsAlways, InitLog, <1>1, PTL DEF Spec, ImplementsTraceLog, Log!Spec
=============================================================================
