--------------------------- MODULE CampaignProofs ---------------------------
(***************************************************************************)
(* What holds of the lists, the CSV, the printout and the two evaluations  *)
(* for any programs, builds, dumps and number of commands.                 *)
(***************************************************************************)
EXTENDS Campaign, FiniteSetTheorems, TLAPS

-----------------------------------------------------------------------------
(* The sets that the tools count are finite.                               *)

(* The image of a finite set. *)
LEMMA ImageFinite ==
    ASSUME NEW S, IsFiniteSet(S), NEW f, DOMAIN f = S
    PROVE  LET T == {f[x] : x \in S} IN IsFiniteSet(T) /\ Cardinality(T) <= Cardinality(S)
<1> DEFINE T == {f[x] : x \in S}
<1>1. [x \in S |-> f[x]] \in Surjection(S, T)
  BY DEF Surjection
<1> QED
  BY <1>1, FS_Surjection

(* The addresses that a capture names. *)
LEMMA AddressesFinite ==
    ASSUME NEW b \in Builds
    PROVE  /\ IsFiniteSet(Addresses(Insns[b], Base[b]))
           /\ Addresses(Insns[b], Base[b]) \subseteq Int
<1> DEFINE f == [d \in DOMAIN Insns[b] |-> d + Base[b]]
<1>1. IsFiniteSet(DOMAIN Insns[b]) /\ Base[b] \in Int /\ DOMAIN Insns[b] \subseteq Int
  BY DatasetAssumption
<1>2. IsFiniteSet({f[d] : d \in DOMAIN Insns[b]})
  BY <1>1, ImageFinite
<1>3. {f[d] : d \in DOMAIN Insns[b]} = Addresses(Insns[b], Base[b])
  BY DEF Addresses
<1>4. Addresses(Insns[b], Base[b]) \subseteq Int
  BY <1>1 DEF Addresses
<1> HIDE DEF f
<1> QED
  BY <1>2, <1>3, <1>4

(* The addresses of a dump, and so those of any list.                      *)
LEMMA ParsedFinite ==
    ASSUME NEW b \in Builds
    PROVE  IsFiniteSet(Parsed(Lines[b])) /\ Parsed(Lines[b]) \subseteq Int
<1> DEFINE M == {m \in Lines[b] : m.colon /\ m.blank /\ m.tabs = 2}
           f == [l \in M |-> l.addr]
<1>1. IsFiniteSet(Lines[b]) /\ \A l \in Lines[b] : l.addr \in Int
  BY DatasetAssumption
<1>2. IsFiniteSet(M)
  BY <1>1, FS_Subset
<1>3. \A l \in M : l.addr \in Int
  BY <1>1
<1>4. Parsed(Lines[b]) = {f[l] : l \in M}
  BY DEF Parsed
<1> HIDE DEF M
<1>5. IsFiniteSet({f[l] : l \in M}) /\ {f[l] : l \in M} \subseteq Int
  BY <1>2, <1>3, ImageFinite
<1> QED
  BY <1>4, <1>5

(* What the files hold: raw dumps that are cut anywhere, and lists of the  *)
(* instructions that such a dump has.                                      *)
CutDumps(b) == {[build |-> b, lines |-> lines] : lines \in Cuts(Lines[b])}

OneDumpLists ==
    {NoList, Truncated}
        \cup UNION {{[kind |-> "v0", build |-> b, offsets |-> Parsed(lines)] :
                        lines \in Cuts(Lines[b])} : b \in Builds}

LEMMA CutsParsed ==
    ASSUME NEW b \in Builds, NEW lines \in Cuts(Lines[b])
    PROVE  /\ Parsed(lines) \subseteq Parsed(Lines[b])
           /\ \A a \in Parsed(lines), d \in Parsed(Lines[b]) : d < a => d \in Parsed(lines)
<1>1. \A l \in Lines[b] : l.addr \in Int
  BY DatasetAssumption
<1>2. CASE lines \in {Lines[b], {}}
  BY <1>2 DEF Parsed
<1>3. CASE lines \notin {Lines[b], {}}
  <2>1. PICK m \in Lines[b] : lines = {l \in Lines[b] : l.addr < m.addr}
    BY <1>3 DEF Cuts
  <2>2. lines \subseteq Lines[b]
    BY <2>1
  <2>3. Parsed(lines) \subseteq Parsed(Lines[b])
    BY <2>2 DEF Parsed
  <2>4. ASSUME NEW a \in Parsed(lines), NEW d \in Parsed(Lines[b]), d < a
        PROVE  d \in Parsed(lines)
    <3>1. PICK l \in lines : l.addr = a
      BY DEF Parsed
    <3>2. PICK k \in Lines[b] : k.colon /\ k.blank /\ k.tabs = 2 /\ k.addr = d
      BY DEF Parsed
    <3>3. a < m.addr /\ a \in Int /\ d \in Int /\ m.addr \in Int
      BY <1>1, <2>1, <3>1, <3>2
    <3>4. k.addr < m.addr
      BY <2>4, <3>2, <3>3
    <3>5. k \in lines
      BY <2>1, <3>2, <3>4
    <3> QED
      BY <3>2, <3>5 DEF Parsed
  <2> QED
    BY <2>3, <2>4
<1> QED
  BY <1>2, <1>3

LEMMA OneDumpList ==
    ASSUME NEW l \in OneDumpLists, l \notin {NoList, Truncated}
    PROVE  \E b \in Builds : \E lines \in Cuts(Lines[b]) :
              l = [kind |-> "v0", build |-> b, offsets |-> Parsed(lines)]
BY DEF OneDumpLists

LEMMA ListsFinite ==
    ASSUME NEW l \in OneDumpLists
    PROVE  l \in Lists /\ IsFiniteSet(l.offsets) /\ l.offsets \subseteq Int
<1>1. IsFiniteSet({})
  BY FS_EmptySet
<1>2. CASE l \in {NoList, Truncated}
  BY <1>1, <1>2 DEF NoList, Truncated, Lists
<1>3. CASE l \notin {NoList, Truncated}
  <2>1. PICK b \in Builds : \E lines \in Cuts(Lines[b]) :
            l = [kind |-> "v0", build |-> b, offsets |-> Parsed(lines)]
    BY <1>3, OneDumpList
  <2>2. PICK lines \in Cuts(Lines[b]) :
            l = [kind |-> "v0", build |-> b, offsets |-> Parsed(lines)]
    BY <2>1
  <2>3. Parsed(lines) \subseteq Parsed(Lines[b])
    BY CutsParsed
  <2>4. IsFiniteSet(Parsed(lines)) /\ Parsed(lines) \subseteq Int
    BY <2>3, ParsedFinite, FS_Subset
  <2> QED
    BY <2>2, <2>4 DEF Lists
<1> QED
  BY <1>2, <1>3

(* Integers of which there are some, and not infinitely many, have a       *)
(* largest.                                                                *)
LEMMA HasLargest ==
    ASSUME NEW S, IsFiniteSet(S), S # {}, S \subseteq Int
    PROVE  \E d \in S : \A e \in S : e <= d
<1> DEFINE Above(d) == {e \in S : d < e}
           T == {Above(d) : d \in S}
<1>1. FiniteSubsetsOf(S) = SUBSET S
  BY FS_FiniteSubsetsOfFinite
<1>2. IsWellFoundedOn(StrictSubsetOrdering(S), SUBSET S)
  BY <1>1, FS_StrictSubsetOrderingWellFounded
<1>3. T # {} /\ T \subseteq SUBSET S
  OBVIOUS
<1>4. \E A \in T : \A B \in T : <<B, A>> \notin StrictSubsetOrdering(S)
  <2> HIDE DEF T
  <2> QED
    BY <1>2, <1>3, WFMin
<1>5. PICK d \in S : \A e \in S : <<Above(e), Above(d)>> \notin StrictSubsetOrdering(S)
  BY <1>4
<1>6. ASSUME NEW e \in S, d < e
      PROVE  FALSE
  <2>1. Above(e) \subseteq Above(d) /\ e \in Above(d) /\ e \notin Above(e)
    <3>1. d \in Int /\ e \in Int /\ \A x \in S : x \in Int
      OBVIOUS
    <3>2. \A x \in S : e < x => d < x
      BY <1>6, <3>1
    <3>3. ~ e < e
      BY <3>1
    <3> QED
      BY <1>6, <3>2, <3>3, Zenon
  <2>2. Above(e) \in SUBSET S /\ Above(d) \in SUBSET S /\ Above(e) # Above(d)
    BY <2>1
  <2> HIDE DEF Above
  <2>3. <<Above(e), Above(d)>> \in StrictSubsetOrdering(S)
    BY <2>1, <2>2 DEF StrictSubsetOrdering
  <2> QED
    BY <1>5, <2>3
<1> QED
  BY <1>6

(* A report has four counts. *)
LEMMA ClassifyCounts ==
    ASSUME NEW b \in Builds, NEW statics, IsFiniteSet(statics)
    PROVE  Classify(Insns[b], Base[b], statics) \in [tp : Nat, fp : Nat, unk : Nat, fn : Nat]
<1> DEFINE ran == Addresses(Insns[b], Base[b])
           confirmed == {s \in statics : Confirmed(Insns[b], Base[b], s)}
<1>1. IsFiniteSet(ran)
  BY AddressesFinite
<1>2. /\ IsFiniteSet(statics \cap ran) /\ IsFiniteSet(confirmed)
      /\ IsFiniteSet(statics \ (ran \cup confirmed))
  BY FS_Subset
<1>3. IsFiniteSet(ran \ statics)
  BY <1>1, FS_Subset
<1>4. /\ Cardinality(statics \cap ran) \in Nat /\ Cardinality(confirmed) \in Nat
      /\ Cardinality(statics \ (ran \cup confirmed)) \in Nat
      /\ Cardinality(ran \ statics) \in Nat
  BY <1>2, <1>3, FS_CardinalityType
<1> HIDE DEF ran, confirmed
<1>5. Classify(Insns[b], Base[b], statics) =
          [tp |-> Cardinality(statics \cap ran), fp |-> Cardinality(confirmed),
           unk |-> Cardinality(statics \ (ran \cup confirmed)),
           fn |-> Cardinality(ran \ statics)]
  BY DEF Classify, ran, confirmed
<1> QED
  BY <1>4, <1>5

(* The analysis of a list finds no more of the truth than the list has.    *)
LEMMA ErasedCounts ==
    ASSUME NEW n \in Names, binary[n] \in Builds, NEW l \in OneDumpLists
    PROVE  LET gt == GroundTruth(n)  tp == Cardinality(Erased(gt, l.offsets)) IN
           /\ tp \in Nat /\ Cardinality(l.offsets) - tp \in Nat
           /\ Cardinality(gt) - tp \in Nat
<1> DEFINE gt == GroundTruth(n)
           f == [a \in l.offsets |-> ToInt(a)]
           image == {f[a] : a \in l.offsets}
<1>1. IsFiniteSet(gt) /\ IsFiniteSet(l.offsets)
  BY DatasetAssumption, ListsFinite DEF GroundTruth
<1> HIDE DEF gt
<1>2. IsFiniteSet(image) /\ Cardinality(image) <= Cardinality(l.offsets)
  BY <1>1, ImageFinite
<1>3. Erased(gt, l.offsets) = gt \cap image
  BY DEF Erased
<1> HIDE DEF image
<1>4. /\ IsFiniteSet(gt \cap image) /\ Cardinality(gt \cap image) <= Cardinality(gt)
      /\ Cardinality(gt \cap image) <= Cardinality(image)
  BY <1>1, <1>2, FS_Intersection
<1>5. /\ Cardinality(gt) \in Nat /\ Cardinality(image) \in Nat
      /\ Cardinality(l.offsets) \in Nat /\ Cardinality(gt \cap image) \in Nat
  BY <1>1, <1>2, <1>4, FS_CardinalityType
<1> QED
  BY <1>2, <1>3, <1>4, <1>5 DEF gt

-----------------------------------------------------------------------------
(* Type correctness, in one part for each tool.                            *)

DatasetOK ==
    /\ careful \in BOOLEAN
    /\ binary \in [Names -> Builds] /\ capture \in [Names -> Builds]
    /\ list \in [Names -> OneDumpLists]
    /\ listed \in BOOLEAN /\ commands \in 0 .. MaxCommands[careful]

(* Between two files the wrapper has no instructions, and in a file those  *)
(* of one dump, cut somewhere or whole.                                    *)
WrapperOK ==
    /\ DOMAIN dumps = Names
    /\ \A n \in Names : \E b \in Builds : dumps[n] \in CutDumps(b)
    /\ wpc \in {"idle", "next", "open", "write"} /\ files \subseteq Names
    /\ wpc \in {"idle", "next"} => instructions = {}
    /\ wpc \in {"open", "write"} =>
          /\ file \in Names /\ dumped \in Builds
          /\ \E lines \in Cuts(Lines[dumped]) : instructions = Parsed(lines)
    /\ wpc = "write" => list[file] = Truncated

BatchOK ==
    /\ bpc \in {"idle", "next", "evaluate"} /\ entries \subseteq Names
    /\ bpc = "evaluate" => entry \in Names /\ read \in Builds
    /\ counts \in Counts
    /\ \A r \in rows : r.name \in Names /\ r.counts \in Counts

PrinterOK ==
    /\ ppc \in {"idle", "read", "print"} /\ left \subseteq Int
    /\ ppc = "read" => subject \in Names
    /\ ppc = "print" => subject \in Names /\ printing \in Builds /\ left # {}

AnalysisOK == analysis.tp \in Nat /\ analysis.fp \in Nat /\ analysis.fn \in Nat

TInv == DatasetOK /\ WrapperOK /\ BatchOK /\ PrinterOK /\ AnalysisOK

LEMMA TInvIsTypeOK == TInv => TypeOK
BY ListsFinite DEF TInv, TypeOK, DatasetOK, WrapperOK, BatchOK, PrinterOK, AnalysisOK

LEMMA InitTInv == Init => TInv
<1> SUFFICES ASSUME Init PROVE TInv
  OBVIOUS
<1>1. DatasetOK
  <2>1. NoList \in OneDumpLists
    BY DEF OneDumpLists
  <2>2. MaxCommands[careful] \in Nat
    BY DatasetAssumption DEF Init, DatasetInit
  <2>3. careful \in BOOLEAN /\ listed \in BOOLEAN
    BY DEF Init, DatasetInit
  <2>4. list = [n \in Names |-> NoList] /\ commands = 0
    BY DEF Init, DatasetInit
  <2>5. list \in [Names -> OneDumpLists] /\ commands \in 0 .. MaxCommands[careful]
    BY <2>1, <2>2, <2>4
  <2>6. binary \in [Names -> Builds] /\ capture = binary
    BY DEF Init, DatasetInit
  <2> QED
    BY <2>3, <2>5, <2>6 DEF DatasetOK
<1>2. WrapperOK
  <2>1. /\ DOMAIN dumps = Names
        /\ \A n \in Names : binary[n] \in Builds /\ dumps[n] = [build |-> binary[n], lines |-> {}]
    BY DEF Init, DatasetInit, WrapperInit
  <2>2. \A b \in Builds : [build |-> b, lines |-> {}] \in CutDumps(b)
    BY DEF CutDumps, Cuts
  <2>3. \A n \in Names : \E b \in Builds : dumps[n] \in CutDumps(b)
    BY <2>1, <2>2
  <2> QED
    BY <2>1, <2>3 DEF Init, WrapperInit, WrapperOK
<1>3. BatchOK
  BY BatchEvaluatorAssumption DEF Init, BatchInit, BatchOK, Counts
<1>4. PrinterOK
  BY DEF Init, PrinterInit, PrinterOK
<1>5. AnalysisOK
  BY DEF Init, AnalyzerInit, NoAnalysis, AnalysisOK
<1> QED
  BY <1>1, <1>2, <1>3, <1>4, <1>5 DEF TInv

(* A command counts one more. *)
LEMMA CommandCounts ==
    ASSUME DatasetOK, Command
    PROVE  commands' \in 0 .. MaxCommands[careful]
BY DatasetAssumption DEF DatasetOK, Command

LEMMA ExtractTInv ==
    ASSUME TInv, UserExtracts
    PROVE  TInv'
<1>1. PICK n \in Names, b \in Builds, copied \in SUBSET {"capture", "binary"} :
          Extract(n, b, copied)
  BY DEF UserExtracts
<1>2. /\ UNCHANGED <<careful, list, wrapper, batch, analysis, printer>>
      /\ binary' \in [Names -> Builds] /\ capture' \in [Names -> Builds]
      /\ listed' = FALSE /\ Command
  BY <1>1 DEF UserExtracts, Extract, TInv, DatasetOK
<1>3. DatasetOK'
  BY <1>2, CommandCounts DEF TInv, DatasetOK
<1>4. WrapperOK'
  BY <1>2 DEF TInv, WrapperOK, wrapper
<1>5. BatchOK' /\ PrinterOK' /\ AnalysisOK'
  BY <1>2 DEF TInv, BatchOK, PrinterOK, AnalysisOK, batch, printer, Counts
<1> QED
  BY <1>3, <1>4, <1>5 DEF TInv

LEMMA ListsTInv ==
    ASSUME TInv, MakeLists
    PROVE  TInv'
<1>1. BatchOK' /\ PrinterOK' /\ AnalysisOK'
  BY DEF MakeLists, TInv, BatchOK, PrinterOK, AnalysisOK, batch, printer, Counts
<1>2. DatasetOK' /\ WrapperOK'
  <2> USE DEF TInv, DatasetOK, WrapperOK
  <2>1. CASE WrapperStart
    <3>1. commands' \in 0 .. MaxCommands[careful]
      BY <2>1, CommandCounts DEF WrapperStart
    <3> QED
      BY <2>1, <3>1 DEF WrapperStart, dataset
  <2>2. ASSUME NEW n \in Names, Disassemble(n)
        PROVE  DatasetOK' /\ WrapperOK'
    <3>1. PICK dump \in Redirected(n) :
              /\ dumps' = [dumps EXCEPT ![n] = dump] /\ dumped' = dump.build
              /\ instructions' = instructions \cup Parsed(dump.lines)
      BY <2>2 DEF Disassemble
    <3>2. PICK b \in Builds : dump \in CutDumps(b)
      <4>1. binary[n] \in Builds
        OBVIOUS
      <4>2. Lines[binary[n]] \in Cuts(Lines[binary[n]])
        BY DEF Cuts
      <4> QED
        BY <4>1, <4>2 DEF Redirected, CutDumps
    <3>3. PICK lines \in Cuts(Lines[b]) : dump = [build |-> b, lines |-> lines]
      BY <3>2 DEF CutDumps
    <3>4. dumped' = b /\ instructions' = Parsed(lines)
      BY <2>2, <3>1, <3>3 DEF Disassemble
    <3>5. DOMAIN dumps' = Names /\ \A m \in Names : \E c \in Builds : dumps'[m] \in CutDumps(c)
      BY <3>1, <3>2
    <3>6. DatasetOK'
      BY <2>2 DEF Disassemble, dataset
    <3>7. /\ wpc' = "open" /\ files' \subseteq Names /\ file' \in Names
      BY <2>2 DEF Disassemble
    <3> QED
      BY <3>4, <3>5, <3>6, <3>7
  <2>3. CASE WrapperThrows
    BY <2>3 DEF WrapperThrows, dataset
  <2>4. CASE OpenList
    <3>1. Truncated \in OneDumpLists
      BY DEF OneDumpLists
    <3> QED
      BY <2>4, <3>1 DEF OpenList
  <2>5. CASE OpenListFails
    BY <2>5 DEF OpenListFails, Leave, dataset
  <2>6. CASE WriteList
    <3>1. PICK lines \in Cuts(Lines[dumped]) : instructions = Parsed(lines) /\ dumped \in Builds
      BY <2>6 DEF WriteList
    <3>2. [kind |-> "v0", build |-> dumped, offsets |-> instructions] \in OneDumpLists
      BY <3>1 DEF OneDumpLists
    <3>3. list' \in [Names -> OneDumpLists]
      BY <2>6, <3>2 DEF WriteList
    <3> QED
      BY <2>6, <3>3 DEF WriteList, Leave
  <2>7. CASE WrapperReturn
    BY <2>7 DEF WrapperReturn
  <2>8. CASE WrapperKilled
    BY <2>8 DEF WrapperKilled, Leave, dataset
  <2> QED
    BY <2>1, <2>2, <2>3, <2>4, <2>5, <2>6, <2>7, <2>8 DEF MakeLists, WrapperNext
<1> QED
  BY <1>1, <1>2 DEF TInv

LEMMA BatchTInv ==
    ASSUME TInv, EvaluateBatch
    PROVE  TInv'
<1>1. UNCHANGED dataset /\ commands' \in 0 .. MaxCommands[careful]
  <2>1. UNCHANGED dataset /\ (Command \/ commands' = commands)
    BY DEF EvaluateBatch, BatchNext, BatchStart, NextEntry, BatchThrows, Evaluate,
           EvaluateWithoutReport, BatchReturn, BatchKilled
  <2> QED
    BY <2>1, CommandCounts DEF TInv, DatasetOK
<1>2. DatasetOK'
  BY <1>1 DEF TInv, DatasetOK, dataset
<1>3. WrapperOK' /\ PrinterOK' /\ AnalysisOK'
  BY <1>1 DEF EvaluateBatch, TInv, WrapperOK, PrinterOK, AnalysisOK, wrapper, printer, dataset
<1>4. BatchOK'
  <2> USE DEF TInv, BatchOK, DatasetOK
  <2>1. CASE BatchStart
    BY <2>1, BatchEvaluatorAssumption DEF BatchStart, Counts
  <2>2. ASSUME NEW n \in Names, NextEntry(n)
        PROVE  BatchOK'
    BY <2>2 DEF NextEntry, Counts
  <2>3. CASE BatchThrows
    BY <2>3 DEF BatchThrows, Counts
  <2>4. CASE Evaluate
    <3>1. counts' = Report /\ entry \in Names /\ read \in Builds
      BY <2>4 DEF Evaluate
    <3>2. counts' \in Counts
      BY <3>1, ListsFinite, ClassifyCounts DEF Report, Counts
    <3>3. rows' = rows \cup {Row(counts', TRUE)}
      BY <2>4 DEF Evaluate
    <3>4. Row(counts', TRUE).name \in Names /\ Row(counts', TRUE).counts \in Counts
      BY <3>1, <3>2 DEF Row
    <3> QED
      BY <2>4, <3>2, <3>3, <3>4 DEF Evaluate, Counts
  <2>5. CASE EvaluateWithoutReport
    <3>1. counts' \in Counts
      BY <2>5, BatchEvaluatorAssumption DEF EvaluateWithoutReport, Counts
    <3>2. rows' = rows \cup {Row(counts', FALSE)} /\ entry \in Names
      BY <2>5 DEF EvaluateWithoutReport
    <3>3. Row(counts', FALSE).name \in Names /\ Row(counts', FALSE).counts \in Counts
      BY <3>1, <3>2 DEF Row
    <3> QED
      BY <2>5, <3>1, <3>2, <3>3 DEF EvaluateWithoutReport, Counts
  <2>6. CASE BatchReturn \/ BatchKilled
    BY <2>6 DEF BatchReturn, BatchKilled, Counts
  <2> QED
    BY <2>1, <2>2, <2>3, <2>4, <2>5, <2>6 DEF EvaluateBatch, BatchNext
<1> QED
  BY <1>2, <1>3, <1>4 DEF TInv

LEMMA AnalysisTInv ==
    ASSUME TInv, AnalyzeList
    PROVE  TInv'
<1>1. PICK n \in Names : Analyze(n)
  BY DEF AnalyzeList
<1>2. UNCHANGED <<dataset, wrapper, batch, printer>> /\ Command
  BY <1>1 DEF AnalyzeList, Analyze
<1>3. DatasetOK'
  BY <1>2, CommandCounts DEF TInv, DatasetOK, dataset
<1>4. WrapperOK' /\ BatchOK' /\ PrinterOK'
  BY <1>2 DEF TInv, WrapperOK, BatchOK, PrinterOK, wrapper, batch, printer, dataset, Counts
<1>5. AnalysisOK'
  <2>1. binary[n] \in Builds /\ list[n] \in OneDumpLists
    BY DEF TInv, DatasetOK
  <2> DEFINE tp == Cardinality(Erased(GroundTruth(n), list[n].offsets))
  <2>2. /\ tp \in Nat /\ Cardinality(list[n].offsets) - tp \in Nat
        /\ Cardinality(GroundTruth(n)) - tp \in Nat
    BY <2>1, ErasedCounts
  <2>3. analysis' = [list |-> list[n], truth |-> binary[n], tp |-> tp,
                     fp |-> Cardinality(list[n].offsets) - tp,
                     fn |-> Cardinality(GroundTruth(n)) - tp]
    BY <1>1 DEF Analyze
  <2> HIDE DEF tp
  <2> QED
    BY <2>2, <2>3 DEF AnalysisOK
<1> QED
  BY <1>3, <1>4, <1>5 DEF TInv

LEMMA PrinterTInv ==
    ASSUME TInv, PrintCapture
    PROVE  TInv'
<1>1. UNCHANGED <<dataset, wrapper, batch, analysis>> /\ (Command \/ commands' = commands)
  BY DEF PrintCapture, PrinterNext, PrintStart, ReadCapture, PrintLine, PrinterDies
<1>2. DatasetOK'
  BY <1>1, CommandCounts DEF TInv, DatasetOK, dataset
<1>3. WrapperOK' /\ BatchOK' /\ AnalysisOK'
  BY <1>1 DEF TInv, WrapperOK, BatchOK, AnalysisOK, wrapper, batch, dataset, Counts
<1>4. PrinterOK'
  <2> USE DEF TInv, PrinterOK, DatasetOK
  <2>1. ASSUME NEW n \in Names, PrintStart(n)
        PROVE  PrinterOK'
    BY <2>1 DEF PrintStart
  <2>2. CASE ReadCapture
    <3>1. capture[subject] \in Builds /\ left' = DOMAIN Insns[capture[subject]]
      BY <2>2 DEF ReadCapture
    <3>2. left' \subseteq Int
      BY <3>1, DatasetAssumption
    <3> QED
      BY <2>2, <3>1, <3>2 DEF ReadCapture
  <2>3. ASSUME NEW o \in left, PrintLine(o)
        PROVE  PrinterOK'
    BY <2>3 DEF PrintLine
  <2>4. CASE PrinterDies
    BY <2>4 DEF PrinterDies
  <2> QED
    BY <2>1, <2>2, <2>3, <2>4 DEF PrintCapture, PrinterNext
<1> QED
  BY <1>2, <1>3, <1>4 DEF TInv

LEMMA NextTInv == TInv /\ [Next]_vars => TInv'
<1>1. TInv /\ UNCHANGED vars => TInv'
  BY DEF vars, dataset, wrapper, batch, printer, TInv, DatasetOK, WrapperOK, BatchOK,
         PrinterOK, AnalysisOK, Counts
<1> QED
  BY <1>1, ExtractTInv, ListsTInv, BatchTInv, AnalysisTInv, PrinterTInv DEF Next

(* Every variable keeps its type, for any programs, builds and dumps.      *)
THEOREM CampaignTypeOK == Spec => []TypeOK
BY InitTInv, NextTInv, TInvIsTypeOK, PTL DEF Spec

-----------------------------------------------------------------------------
(* Lists. *)

(* Lists of one dump are what the property says. *)
LEMMA TInvIsOneDump == TInv => ListsAreOfOneDump
<1> SUFFICES ASSUME TInv, NEW n \in Names, list[n].kind = "v0"
             PROVE  LET all == Parsed(Lines[list[n].build]) IN
                    /\ list[n].offsets \subseteq all
                    /\ \A a \in list[n].offsets, d \in all :
                          d < a => d \in list[n].offsets
  BY DEF ListsAreOfOneDump
<1>1. list[n] \in OneDumpLists /\ list[n] \notin {NoList, Truncated}
  BY DEF TInv, DatasetOK, NoList, Truncated
<1>2. PICK b \in Builds : \E lines \in Cuts(Lines[b]) :
          list[n] = [kind |-> "v0", build |-> b, offsets |-> Parsed(lines)]
  BY <1>1, OneDumpList
<1>3. PICK lines \in Cuts(Lines[b]) :
          list[n] = [kind |-> "v0", build |-> b, offsets |-> Parsed(lines)]
  BY <1>2
<1>4. list[n].build = b /\ list[n].offsets = Parsed(lines)
  BY <1>3
<1> QED
  BY <1>4, CutsParsed

(* Whoever starts, interrupts or repeats what, however often, and wherever *)
(* objdump stops: a list that can be read is of one dump, from its first   *)
(* instruction up to some address without a gap.                           *)
THEOREM ListsStayOfOneDump == Spec => []ListsAreOfOneDump
BY InitTInv, NextTInv, TInvIsOneDump, PTL DEF Spec

-----------------------------------------------------------------------------
(* The CSV of a careful user.                                              *)

RightList(b) == [kind |-> "v0", build |-> b, offsets |-> Parsed(Lines[b])]

(* The lists of the programs in S are those of the builds there.           *)
Listed(S) == \A n \in S : list[n] = RightList(capture[n])

(* One tool at a time, each on what the one before has finished.           *)
InTurn ==
    /\ binary = capture
    /\ wpc # "idle" => bpc = "idle"
    /\ bpc # "idle" => listed
    /\ wpc = "idle" /\ listed => Listed(Names)
    /\ wpc = "next" => Listed(Names \ files)
    /\ wpc \in {"open", "write"} =>
          /\ Listed(Names \ (files \cup {file}))
          /\ dumped = capture[file] /\ instructions = Parsed(Lines[dumped])
    /\ bpc = "evaluate" => read = capture[entry] /\ entry \notin entries

RowRight(r) ==
    LET b == r.capture IN
    /\ r.list.build = b
    /\ DOMAIN Insns[b] # {} =>
          /\ r.reported
          /\ r.counts = Classify(Insns[b], Base[b], Parsed(Lines[b]))

(* The rows are those of the entries that are done. *)
Done ==
    CASE bpc = "idle" -> Names
      [] bpc = "next" -> Names \ entries
      [] OTHER -> Names \ (entries \cup {entry})

RowsRight ==
    /\ \A r \in rows : RowRight(r)
    /\ \A r, q \in rows : r.name = q.name => r = q
    /\ \/ bpc = "idle" /\ rows = {}
       \/ {r.name : r \in rows} = Done

CInv == careful => InTurn /\ RowsRight

LEMMA CInvIsRight == CInv => CsvIsRight
BY DEF CInv, RowsRight, RowRight, CsvIsRight, Done

LEMMA InitCInv == Init => CInv
BY DEF Init, DatasetInit, WrapperInit, BatchInit, CInv, InTurn, RowsRight

(* Steps that leave the batch evaluator alone leave the rows right.        *)
LEMMA RowsStay ==
    ASSUME RowsRight, UNCHANGED batch
    PROVE  RowsRight'
BY DEF RowsRight, RowRight, Done, batch

LEMMA ExtractCInv ==
    ASSUME TInv, CInv, careful, UserExtracts
    PROVE  InTurn' /\ RowsRight'
<1>1. PICK n \in Names, b \in Builds, copied \in SUBSET {"capture", "binary"} :
          Extract(n, b, copied)
  BY DEF UserExtracts
<1>2. /\ wpc = "idle" /\ bpc = "idle" /\ UNCHANGED <<wrapper, batch>>
      /\ binary' = [binary EXCEPT ![n] = b] /\ capture' = [capture EXCEPT ![n] = b]
      /\ listed' = FALSE
  BY <1>1 DEF UserExtracts, Idle, Extract
<1>3. InTurn'
  BY <1>2 DEF CInv, InTurn, wrapper, batch
<1> QED
  BY <1>2, <1>3, RowsStay DEF CInv

LEMMA ListsCInv ==
    ASSUME TInv, CInv, careful, MakeLists
    PROVE  InTurn' /\ RowsRight'
<1>1. RowsRight'
  BY RowsStay DEF MakeLists, CInv
<1>2. InTurn'
  <2>1. bpc = "idle" /\ bpc' = bpc /\ DOMAIN list = Names
    BY DEF MakeLists, batch, TInv, DatasetOK
  <2> USE DEF InTurn
  <2>2. InTurn
    BY DEF CInv
  <2>3. CASE WrapperStart
    BY <2>1, <2>2, <2>3 DEF WrapperStart, dataset, Listed
  <2>4. ASSUME NEW n \in Names, Disassemble(n)
        PROVE  InTurn'
    <3>1. PICK dump \in Redirected(n) :
              dumped' = dump.build /\ instructions' = instructions \cup Parsed(dump.lines)
      BY <2>4 DEF Disassemble
    <3>2. instructions = {} /\ dump = [build |-> binary[n], lines |-> Lines[binary[n]]]
      BY <2>4, <3>1 DEF Disassemble, TInv, WrapperOK, Redirected
    <3>3. dumped' = binary[n] /\ instructions' = Parsed(Lines[binary[n]])
      BY <3>1, <3>2
    <3> QED
      BY <2>1, <2>2, <2>4, <3>3 DEF Disassemble, dataset, Listed
  <2>5. CASE WrapperThrows \/ OpenListFails \/ WrapperKilled
    BY <2>5 DEF WrapperThrows, OpenListFails, WrapperKilled
  <2>6. CASE OpenList
    <3>1. file \in Names /\ list' = [list EXCEPT ![file] = Truncated]
      BY <2>6 DEF OpenList, TInv, WrapperOK
    <3>2. Listed(Names \ (files \cup {file}))'
      BY <2>1, <2>2, <2>6, <3>1 DEF OpenList, Listed, RightList
    <3> QED
      BY <2>1, <2>2, <2>6, <3>2 DEF OpenList
  <2>7. CASE WriteList
    <3>1. /\ file \in Names
          /\ list' = [list EXCEPT ![file] = RightList(capture[file])]
      BY <2>2, <2>7 DEF WriteList, TInv, WrapperOK, RightList
    <3>2. Listed(Names \ files)'
      BY <2>1, <2>2, <2>7, <3>1 DEF WriteList, Listed, RightList
    <3> QED
      BY <2>1, <2>2, <2>7, <3>2 DEF WriteList
  <2>8. CASE WrapperReturn
    BY <2>1, <2>2, <2>8 DEF WrapperReturn, Listed, RightList
  <2> QED
    BY <2>3, <2>4, <2>5, <2>6, <2>7, <2>8 DEF MakeLists, WrapperNext
<1> QED
  BY <1>1, <1>2

(* The row of the entry in work is right, and goes with those before.      *)
LEMMA RowAdded ==
    ASSUME TInv, CInv, careful, bpc = "evaluate", bpc' = "next", UNCHANGED entries,
           NEW c, NEW reported \in BOOLEAN,
           reported => c = Report,
           ~ reported => DOMAIN Insns[read] = {},
           rows' = rows \cup {Row(c, reported)}
    PROVE  RowsRight'
<1>1. /\ entry \in Names \ entries /\ entries \subseteq Names
      /\ {r.name : r \in rows} = Names \ (entries \cup {entry})
  BY DEF TInv, BatchOK, CInv, InTurn, RowsRight, Done
<1>2. list[entry] = RightList(read)
  BY <1>1 DEF CInv, InTurn, Listed
<1> DEFINE new == Row(c, reported)
<1>3. /\ new.name = entry /\ new.capture = read /\ new.list = RightList(read)
      /\ new.counts = c /\ new.reported = reported
  BY <1>2 DEF Row
<1>4. RightList(read).build = read /\ RightList(read).offsets = Parsed(Lines[read])
  BY DEF RightList
<1>5. reported => c = Classify(Insns[read], Base[read], Parsed(Lines[read]))
  BY <1>2, <1>4 DEF Report
<1> HIDE DEF new
<1>6. RowRight(new)
  BY <1>3, <1>4, <1>5 DEF RowRight
<1>7. rows' = rows \cup {new}
  BY DEF new
<1>8. \A r \in rows' : RowRight(r)
  BY <1>6, <1>7 DEF CInv, RowsRight
<1>9. \A r \in rows : r.name # entry
  BY <1>1
<1>10. \A r, q \in rows' : r.name = q.name => r = q
  BY <1>3, <1>7, <1>9 DEF CInv, RowsRight
<1>11. {r.name : r \in rows'} = Names \ entries
  BY <1>1, <1>3, <1>7
<1> QED
  BY <1>8, <1>10, <1>11 DEF RowsRight, RowRight, Done

LEMMA BatchCInv ==
    ASSUME TInv, CInv, careful, EvaluateBatch
    PROVE  InTurn' /\ RowsRight'
<1> USE DEF CInv
<1>1. wpc = "idle" /\ listed /\ UNCHANGED <<dataset, wrapper>>
  BY DEF EvaluateBatch, BatchNext, BatchStart, NextEntry, BatchThrows, Evaluate,
         EvaluateWithoutReport, BatchReturn, BatchKilled
<1>2. Listed(Names)' /\ Listed(Names)
  BY <1>1 DEF InTurn, Listed, dataset
<1>3. CASE BatchStart
  <2>1. RowsRight'
    BY <1>3 DEF BatchStart, RowsRight, Done
  <2> QED
    BY <1>1, <1>2, <1>3, <2>1 DEF BatchStart, InTurn, dataset, wrapper
<1>4. ASSUME NEW n \in Names, NextEntry(n)
      PROVE  InTurn' /\ RowsRight'
  <2>1. RowsRight'
    BY <1>4 DEF NextEntry, RowsRight, RowRight, Done
  <2> QED
    BY <1>1, <1>2, <1>4, <2>1 DEF NextEntry, InTurn, dataset, wrapper
<1>5. CASE Evaluate
  <2>1. RowsRight'
    BY <1>5, RowAdded DEF Evaluate
  <2> QED
    BY <1>1, <1>2, <1>5, <2>1 DEF Evaluate, InTurn, dataset, wrapper
<1>6. CASE EvaluateWithoutReport
  <2>1. entry \in Names /\ list[entry] = RightList(read)
    BY <1>2, <1>6 DEF EvaluateWithoutReport, TInv, BatchOK, InTurn, Listed
  <2>2. DOMAIN Insns[read] = {}
    BY <1>6, <2>1 DEF EvaluateWithoutReport, Reports, RightList
  <2>3. RowsRight'
    BY <1>6, <2>2, RowAdded DEF EvaluateWithoutReport
  <2> QED
    BY <1>1, <1>2, <1>6, <2>3 DEF EvaluateWithoutReport, InTurn, dataset, wrapper
<1>7. CASE BatchReturn
  <2>1. RowsRight'
    BY <1>7 DEF BatchReturn, RowsRight, RowRight, Done
  <2> QED
    BY <1>1, <1>2, <1>7, <2>1 DEF BatchReturn, InTurn, dataset, wrapper
<1>8. CASE BatchThrows \/ BatchKilled
  BY <1>8 DEF BatchThrows, BatchKilled
<1> QED
  BY <1>3, <1>4, <1>5, <1>6, <1>7, <1>8 DEF EvaluateBatch, BatchNext

LEMMA NextCInv == TInv /\ CInv /\ [Next]_vars => CInv'
<1> SUFFICES ASSUME TInv, CInv, [Next]_vars, careful'
             PROVE  InTurn' /\ RowsRight'
  BY DEF CInv
<1>1. careful
  BY DEF Next, UserExtracts, Extract, MakeLists, WrapperNext, WrapperStart, Disassemble,
         WrapperThrows, OpenList, OpenListFails, WriteList, WrapperReturn, WrapperKilled,
         EvaluateBatch, BatchNext, BatchStart, NextEntry, BatchThrows, Evaluate,
         EvaluateWithoutReport, BatchReturn, BatchKilled, AnalyzeList, Analyze,
         PrintCapture, PrinterNext, PrintStart, ReadCapture, PrintLine, PrinterDies,
         vars, dataset
<1>2. CASE AnalyzeList \/ PrintCapture \/ UNCHANGED vars
  <2>1. UNCHANGED <<dataset, wrapper, batch>>
    BY <1>2 DEF AnalyzeList, Analyze, PrintCapture, PrinterNext, PrintStart, ReadCapture,
                PrintLine, PrinterDies, vars
  <2>2. InTurn'
    BY <1>1, <2>1 DEF CInv, InTurn, Listed, dataset, wrapper, batch
  <2> QED
    BY <1>1, <2>1, <2>2, RowsStay DEF CInv
<1> QED
  BY <1>1, <1>2, ExtractCInv, ListsCInv, BatchCInv DEF Next

(* For any programs, builds and dumps: a user who follows the README gets  *)
(* one row for each program, with the classification of its capture        *)
(* against the whole list of the same build.                               *)
THEOREM CsvStaysRight == Spec => []CsvIsRight
BY InitTInv, NextTInv, InitCInv, NextCInv, CInvIsRight, PTL DEF Spec

-----------------------------------------------------------------------------
(* The printout of a careful user.                                         *)

(* What is printed are the offsets that are not left, in their order.      *)
Printed(b) ==
    /\ left \subseteq DOMAIN Insns[b]
    /\ \A k \in DOMAIN printout : printout[k].build = b
    /\ \A k \in DOMAIN printout : k > 1 => printout[k - 1].addr < printout[k].addr
    /\ \A k \in DOMAIN printout : \A o \in left : printout[k].addr < Base[b] + o
    /\ {printout[k].addr : k \in DOMAIN printout} =
          {d + Base[b] : d \in DOMAIN Insns[b] \ left}

PInv ==
    /\ printout \in Seq([addr : Int, build : Builds])
    /\ ppc \in {"idle", "read"} => left = {}
    /\ ppc = "read" => printing = None /\ printout = <<>>
    /\ careful =>
          /\ ppc = "print" => printing = capture[subject]
          /\ printing # None => printing \in Builds /\ Printed(printing)

LEMMA PInvIsRight == TInv /\ PInv => PrintoutIsRight
<1> SUFFICES ASSUME TInv, PInv, careful, printing # None
             PROVE  LET printed == {printout[k].addr : k \in DOMAIN printout} IN
        /\ \A k \in DOMAIN printout :
              /\ printout[k].build = printing
              /\ TruthOK(printing) => printout[k].addr \in Truth[printing]
              /\ k > 1 => printout[k - 1].addr < printout[k].addr
        /\ ppc = "idle" => printed = Addresses(Insns[printing], Base[printing])
  BY DEF PrintoutIsRight
<1> DEFINE printed == {printout[k].addr : k \in DOMAIN printout}
<1>1. Printed(printing)
  BY DEF PInv
<1>2. printed \subseteq Addresses(Insns[printing], Base[printing])
  BY <1>1 DEF Printed, Addresses
<1>3. TruthOK(printing) => printed \subseteq Truth[printing]
  BY <1>2 DEF TruthOK
<1>4. ppc = "idle" => printed = Addresses(Insns[printing], Base[printing])
  BY <1>1 DEF Printed, Addresses, PInv
<1>5. \A k \in DOMAIN printout : printout[k].addr \in printed
  OBVIOUS
<1> HIDE DEF printed
<1> QED
  BY <1>1, <1>3, <1>4, <1>5 DEF Printed, printed

LEMMA InitPInv == Init => PInv
BY DEF Init, PrinterInit, PInv

(* Of the offsets that are left the smallest is printed next.              *)
LEMMA LinePInv ==
    ASSUME TInv, CInv, PInv, NEW o \in left, PrintLine(o), UNCHANGED careful
    PROVE  PInv'
<1>1. /\ ppc = "print" /\ subject \in Names /\ printing \in Builds
      /\ o \in Int /\ Base[printing] \in Int /\ left \subseteq Int
      /\ binary[subject] \in Builds
  BY DatasetAssumption DEF PrintLine, TInv, PrinterOK, DatasetOK
<1> DEFINE line == [addr |-> Base[printing] + o, build |-> binary[subject]]
<1>2. /\ printout' = Append(printout, line) /\ left' = left \ {o}
      /\ printing' = printing /\ subject' = subject /\ capture' = capture
      /\ \A q \in left : o <= q
      /\ ppc' = IF left' = {} THEN "idle" ELSE "print"
  BY DEF PrintLine, dataset
<1>3. /\ printout \in Seq([addr : Int, build : Builds])
      /\ line \in [addr : Int, build : Builds]
  BY <1>1 DEF PInv
<1>4. line.addr = Base[printing] + o /\ line.build = binary[subject]
  OBVIOUS
<1> HIDE DEF line
<1>5. /\ printout' \in Seq([addr : Int, build : Builds])
      /\ Len(printout) \in Nat /\ DOMAIN printout = 1 .. Len(printout)
      /\ DOMAIN printout' = 1 .. Len(printout) + 1
      /\ printout'[Len(printout) + 1] = line
      /\ \A k \in DOMAIN printout : printout'[k] = printout[k]
  BY <1>2, <1>3
<1>7. ASSUME careful
      PROVE  printing = capture[subject] /\ Printed(printing)'
  <2>1. printing = capture[subject] /\ Printed(printing) /\ binary = capture
    BY <1>1, <1>7, DatasetAssumption DEF PInv, CInv, InTurn
  <2>2. line.build = printing
    BY <1>4, <2>1
  <2>3. \A k \in DOMAIN printout : printout[k].addr < line.addr
    BY <1>4, <2>1 DEF Printed
  <2>4. left' \subseteq DOMAIN Insns[printing]
    BY <1>2, <2>1 DEF Printed
  <2>5. \A k \in DOMAIN printout' : printout'[k].build = printing
    BY <1>5, <2>1, <2>2 DEF Printed
  <2>6. \A k \in DOMAIN printout' : k > 1 => printout'[k - 1].addr < printout'[k].addr
    <3> DEFINE n == Len(printout)
    <3>1. ASSUME NEW k \in 1 .. n, k > 1
          PROVE  printout'[k - 1].addr < printout'[k].addr
      <4>1. k \in DOMAIN printout /\ k - 1 \in DOMAIN printout
        BY <1>5, <3>1
      <4>2. printout[k - 1].addr < printout[k].addr
        BY <2>1, <3>1, <4>1 DEF Printed
      <4> QED
        BY <1>5, <4>1, <4>2
    <3>2. n + 1 > 1 => printout'[n + 1 - 1].addr < printout'[n + 1].addr
      <4>1. SUFFICES ASSUME n + 1 > 1 PROVE printout'[n].addr < printout'[n + 1].addr
        BY <1>5
      <4>2. n \in DOMAIN printout
        BY <1>5, <4>1
      <4> QED
        BY <1>5, <2>3, <4>2
    <3>3. n \in Nat /\ \A k \in DOMAIN printout' : k \in 1 .. n \/ k = n + 1
      BY <1>5
    <3> HIDE DEF n
    <3> SUFFICES ASSUME NEW k \in DOMAIN printout', k > 1
                 PROVE  printout'[k - 1].addr < printout'[k].addr
      OBVIOUS
    <3>4. CASE k \in 1 .. n
      BY <3>1, <3>4
    <3>5. CASE k = n + 1
      <4>1. n + 1 > 1 /\ k - 1 = n + 1 - 1
        BY <3>3, <3>5
      <4> QED
        BY <3>2, <3>5, <4>1, Zenon
    <3> QED
      BY <3>3, <3>4, <3>5
  <2>7. \A k \in DOMAIN printout' : \A q \in left' : printout'[k].addr < Base[printing] + q
    <3>1. ASSUME NEW q \in left'
          PROVE  line.addr < Base[printing] + q
      <4>1. q \in Int /\ o <= q /\ q # o
        BY <1>1, <1>2
      <4>2. \A b \in Int : b + o < b + q
        BY <1>1, <4>1
      <4> QED
        BY <1>1, <1>4, <4>2
    <3>2. \A k \in DOMAIN printout : \A q \in left' : printout[k].addr < Base[printing] + q
      BY <1>2, <2>1 DEF Printed
    <3>3. \A k \in DOMAIN printout' : k \in DOMAIN printout \/ k = Len(printout) + 1
      BY <1>5
    <3> QED
      BY <1>5, <3>1, <3>2, <3>3
  <2>8. {printout'[k].addr : k \in DOMAIN printout'} =
          {printout[k].addr : k \in DOMAIN printout} \cup {line.addr}
    BY <1>5
  <2>9. DOMAIN Insns[printing] \ left' = (DOMAIN Insns[printing] \ left) \cup {o}
    BY <1>2, <2>1 DEF Printed
  <2>10. {printout'[k].addr : k \in DOMAIN printout'} =
          {d + Base[printing] : d \in DOMAIN Insns[printing] \ left'}
    <3> DEFINE b == Base[printing]
               E == DOMAIN Insns[printing] \ left
    <3>1. {printout'[k].addr : k \in DOMAIN printout'} = {d + b : d \in E} \cup {line.addr}
      BY <2>1, <2>8 DEF Printed
    <3>2. line.addr = o + b
      BY <1>1, <1>4
    <3> HIDE DEF b, E
    <3>3. {d + b : d \in E} \cup {o + b} = {d + b : d \in E \cup {o}}
      OBVIOUS
    <3> QED
      BY <2>9, <3>1, <3>2, <3>3 DEF b, E
  <2> QED
    BY <1>2, <2>1, <2>4, <2>5, <2>6, <2>7, <2>10 DEF Printed
<1> QED
  BY <1>1, <1>2, <1>5, <1>7 DEF PInv

LEMMA NextPInv == TInv /\ CInv /\ PInv /\ [Next]_vars => PInv'
<1> SUFFICES ASSUME TInv, CInv, PInv, [Next]_vars
             PROVE  PInv'
  OBVIOUS
<1>1. CASE UserExtracts
  <2>1. UNCHANGED <<careful, printer>> /\ (careful => ppc = "idle")
    BY <1>1 DEF UserExtracts, Extract, Idle
  <2> QED
    BY <2>1 DEF PInv, Printed, printer
<1>2. CASE UNCHANGED <<careful, capture, printer>>
  BY <1>2 DEF PInv, Printed, printer
<1>3. ASSUME NEW n \in Names, PrintStart(n)
      PROVE  PInv'
  <2>1. left' = {} /\ printing' = None /\ printout' = <<>> /\ ppc' = "read"
    BY <1>3 DEF PrintStart, PInv
  <2> QED
    BY <2>1 DEF PInv
<1>4. CASE ReadCapture /\ UNCHANGED dataset
  <2> DEFINE b == capture[subject]
  <2>1. /\ printing' = b /\ left' = DOMAIN Insns[b] /\ printout' = <<>>
        /\ ppc' = (IF left' = {} THEN "idle" ELSE "print")
        /\ UNCHANGED <<careful, capture, subject>>
    BY <1>4 DEF ReadCapture, PInv, dataset
  <2>2. subject \in Names /\ b \in Builds
    BY <1>4 DEF ReadCapture, TInv, PrinterOK, DatasetOK
  <2> HIDE DEF b
  <2>3. Printed(printing)'
    BY <2>1 DEF Printed
  <2>4. printing' = capture'[subject']
    BY <2>1 DEF b
  <2>5. printout' \in Seq([addr : Int, build : Builds])
    BY <2>1
  <2> QED
    BY <2>1, <2>2, <2>3, <2>4, <2>5 DEF PInv
<1>5. ASSUME NEW o \in left, PrintLine(o)
      PROVE  PInv'
  BY <1>5, LinePInv DEF PrintLine, dataset
<1>6. CASE PrinterDies
  <2>1. /\ ppc = "print" /\ subject \in Names /\ printing \in Builds
        /\ UNCHANGED <<careful, printout>>
        /\ ppc' = "idle" /\ left' = {}
    BY <1>6 DEF PrinterDies, TInv, PrinterOK, dataset
  <2>2. ~ careful
    <3> SUFFICES ASSUME careful
                 PROVE  FALSE
      OBVIOUS
    <3>1. binary[subject] = printing /\ left \subseteq DOMAIN Insns[printing]
      BY <2>1, DatasetAssumption DEF CInv, InTurn, PInv, Printed
    <3>2. PICK o \in left : o >= Size[printing]
      BY <1>6, <3>1 DEF PrinterDies
    <3>3. o < Size[printing] /\ o \in Int /\ Size[printing] \in Int
      BY <2>1, <3>1, <3>2, DatasetAssumption, ResultPrinterAssumption
    <3> QED
      BY <3>2, <3>3
  <2> QED
    BY <2>1, <2>2 DEF PInv
<1>7. CASE MakeLists \/ EvaluateBatch \/ AnalyzeList \/ UNCHANGED vars
  BY <1>2, <1>7 DEF MakeLists, WrapperNext, WrapperStart, Disassemble,
         WrapperThrows, OpenList, OpenListFails, WriteList, WrapperReturn, WrapperKilled,
         EvaluateBatch, BatchNext, BatchStart, NextEntry, BatchThrows, Evaluate,
         EvaluateWithoutReport, BatchReturn, BatchKilled, AnalyzeList, Analyze,
         vars, dataset
<1> QED
  BY <1>1, <1>3, <1>4, <1>5, <1>6, <1>7 DEF Next, PrintCapture, PrinterNext, ReadCapture

(* For any programs and builds: what a user who follows the README prints  *)
(* is the executed instructions in the order of their addresses, all of    *)
(* them at the end, with the bytes of the binary that was traced.          *)
THEOREM PrintoutStaysRight == Spec => []PrintoutIsRight
BY InitTInv, NextTInv, InitCInv, NextCInv, InitPInv, NextPInv, PInvIsRight, PTL DEF Spec


-----------------------------------------------------------------------------
(* The two evaluations of a list.                                          *)

(* An address that the evaluator calls a false positive is, for the        *)
(* compiler, inside the instruction that was executed.                     *)
LEMMA ConfirmedIsNoTruth ==
    ASSUME NEW b \in Builds, TruthOK(b), NEW s \in Int, Confirmed(Insns[b], Base[b], s)
    PROVE  s \notin Truth[b]
<1> DEFINE insns == Insns[b]
           offset == s - Base[b]
           below == {d \in DOMAIN insns : d < offset}
           elem == Nearest(insns, offset)
<1>1. /\ Base[b] \in Int /\ IsFiniteSet(DOMAIN insns) /\ DOMAIN insns \subseteq Int
      /\ \A d \in DOMAIN insns : insns[d] \in Int
  BY DatasetAssumption
<1>2. offset \notin DOMAIN insns /\ below # {} /\ offset < elem + insns[elem]
  BY DEF Confirmed
<1>3. IsFiniteSet(below) /\ below \subseteq Int
  BY <1>1, FS_Subset
<1>4. \E d \in below : \A e \in below : e <= d
  BY <1>2, <1>3, HasLargest
<1>5. elem \in DOMAIN insns /\ elem < offset
  <2>1. \E d \in DOMAIN insns : d < offset /\ \A e \in DOMAIN insns : e < offset => e <= d
    BY <1>4
  <2> QED
    BY <2>1 DEF Nearest
<1> HIDE DEF elem
<1>6. elem + Base[b] < s /\ s < elem + Base[b] + insns[elem]
  <2>1. elem \in Int /\ insns[elem] \in Int
    BY <1>1, <1>5
  <2> QED
    BY <1>1, <1>2, <1>5, <2>1
<1> QED
  BY <1>5, <1>6 DEF TruthOK

LEMMA CountsAgree ==
    ASSUME NEW b \in Builds, TruthOK(b), NEW S, IsFiniteSet(S), S \subseteq Int,
           \A a \in S : ToInt(a) = a
    PROVE  LET c == Classify(Insns[b], Base[b], S)
               tp == Cardinality(Erased(Truth[b], S))
           IN  /\ c.tp <= tp
               /\ c.fp <= Cardinality(S) - tp
               /\ c.fn <= Cardinality(Truth[b]) - tp
<1> DEFINE truth == Truth[b]
           ran == Addresses(Insns[b], Base[b])
           confirmed == {s \in S : Confirmed(Insns[b], Base[b], s)}
           T == S \cap truth
<1>1. IsFiniteSet(truth) /\ IsFiniteSet(ran) /\ ran \subseteq truth
  BY DatasetAssumption, AddressesFinite DEF TruthOK
<1>2. confirmed \subseteq S \ truth
  BY ConfirmedIsNoTruth
<1>3. Erased(truth, S) = T
  <2>1. {ToInt(a) : a \in S} = S
    OBVIOUS
  <2> QED
    BY <2>1 DEF Erased
<1>4. Classify(Insns[b], Base[b], S) =
          [tp |-> Cardinality(S \cap ran), fp |-> Cardinality(confirmed),
           unk |-> Cardinality(S \ (ran \cup confirmed)),
           fn |-> Cardinality(ran \ S)]
  BY DEF Classify
<1> HIDE DEF truth, ran, confirmed
<1>5. /\ IsFiniteSet(T) /\ IsFiniteSet(S \ truth) /\ IsFiniteSet(truth \ S)
  BY <1>1, FS_Subset
<1>6. Cardinality(S \cap ran) <= Cardinality(T)
  <2>1. S \cap ran \subseteq T
    BY <1>1
  <2> QED
    BY <1>5, <2>1, FS_Subset
<1>7. /\ Cardinality(confirmed) <= Cardinality(S \ truth)
      /\ Cardinality(S \ truth) = Cardinality(S) - Cardinality(T)
  BY <1>2, <1>5, FS_Subset, FS_Difference
<1>8. Cardinality(ran \ S) <= Cardinality(truth \ S)
  BY <1>1, <1>5, FS_Subset
<1>9. Cardinality(truth \ S) = Cardinality(truth) - Cardinality(T)
  <2>1. Cardinality(truth \ S) = Cardinality(truth) - Cardinality(truth \cap S)
    BY <1>1, FS_Difference
  <2>2. truth \cap S = T
    OBVIOUS
  <2> QED
    BY <2>1, <2>2
<1> HIDE DEF T
<1> QED
  BY <1>3, <1>4, <1>6, <1>7, <1>8, <1>9 DEF truth

(* What a row and an analysis hold, of whatever they were made.            *)
RowIs(r) ==
    /\ r.capture \in Builds /\ r.list \in OneDumpLists
    /\ r.reported =>
          r.counts = Classify(Insns[r.capture], Base[r.capture], r.list.offsets)

AnalysisIs ==
    \/ analysis.truth = None
    \/ LET tp == Cardinality(Erased(Truth[analysis.truth], analysis.list.offsets)) IN
       /\ analysis.tp = tp
       /\ analysis.fp = Cardinality(analysis.list.offsets) - tp
       /\ analysis.fn = Cardinality(Truth[analysis.truth]) - tp

AInv == (\A r \in rows : RowIs(r)) /\ AnalysisIs

LEMMA AInvAgrees == AInv => ToolsAgree
<1> SUFFICES ASSUME AInv, NEW r \in rows,
                    r.reported, r.list = analysis.list, r.capture = analysis.truth,
                    TruthOK(r.capture), \A a \in r.list.offsets : ToInt(a) = a
             PROVE  /\ r.counts.tp <= analysis.tp
                    /\ r.counts.fp <= analysis.fp
                    /\ r.counts.fn <= analysis.fn
  BY DEF ToolsAgree
<1> DEFINE b == r.capture
           S == r.list.offsets
<1>1. /\ b \in Builds /\ r.list \in OneDumpLists
      /\ r.counts = Classify(Insns[b], Base[b], S)
  BY DEF AInv, RowIs
<1>2. IsFiniteSet(S) /\ S \subseteq Int
  BY <1>1, ListsFinite
<1>3. LET tp == Cardinality(Erased(Truth[b], S)) IN
      /\ analysis.tp = tp
      /\ analysis.fp = Cardinality(S) - tp
      /\ analysis.fn = Cardinality(Truth[b]) - tp
  BY <1>1, DatasetAssumption DEF AInv, AnalysisIs
<1>4. TruthOK(b) /\ \A a \in S : ToInt(a) = a
  OBVIOUS
<1> HIDE DEF b, S
<1> QED
  BY <1>1, <1>2, <1>3, <1>4, CountsAgree

LEMMA NextAInv == TInv /\ AInv /\ [Next]_vars => AInv'
<1> SUFFICES ASSUME TInv, AInv, [Next]_vars
             PROVE  AInv'
  OBVIOUS
<1>1. CASE EvaluateBatch
  <2>1. AnalysisIs'
    BY <1>1 DEF EvaluateBatch, AInv, AnalysisIs
  <2>2. ASSUME NEW c, NEW reported, bpc = "evaluate",
               reported => c = Report, rows' = rows \cup {Row(c, reported)}
        PROVE  \A r \in rows' : RowIs(r)
    <3>1. read \in Builds /\ list[entry] \in OneDumpLists
      BY <2>2 DEF TInv, DatasetOK, BatchOK
    <3> DEFINE new == Row(c, reported)
    <3>2. /\ new.capture = read /\ new.list = list[entry]
          /\ new.counts = c /\ (new.reported => reported)
      BY DEF Row
    <3> HIDE DEF new
    <3>3. RowIs(new)
      BY <2>2, <3>1, <3>2 DEF RowIs, Report
    <3>4. rows' = rows \cup {new}
      BY <2>2 DEF new
    <3> QED
      BY <3>3, <3>4 DEF AInv
  <2>3. CASE Evaluate
    BY <2>1, <2>2, <2>3 DEF Evaluate, AInv, RowIs
  <2>4. CASE EvaluateWithoutReport
    BY <2>1, <2>2, <2>4 DEF EvaluateWithoutReport, AInv, RowIs
  <2>5. CASE BatchStart
    BY <2>1, <2>5 DEF BatchStart, AInv
  <2>6. CASE UNCHANGED rows
    BY <2>1, <2>6 DEF AInv, RowIs
  <2> QED
    BY <1>1, <2>3, <2>4, <2>5, <2>6 DEF EvaluateBatch, BatchNext, NextEntry, BatchThrows,
       BatchReturn, BatchKilled
<1>2. CASE AnalyzeList
  <2>1. PICK n \in Names : Analyze(n)
    BY <1>2 DEF AnalyzeList
  <2>2. rows' = rows
    BY <1>2 DEF AnalyzeList, batch
  <2>3. AnalysisIs'
    BY <2>1 DEF Analyze, AnalysisIs, GroundTruth
  <2> QED
    BY <2>2, <2>3 DEF AInv, RowIs
<1>3. CASE UNCHANGED <<rows, analysis>>
  BY <1>3 DEF AInv, RowIs, AnalysisIs
<1> QED
  BY <1>1, <1>2, <1>3 DEF Next, UserExtracts, MakeLists, PrintCapture, batch, vars

(* For any programs, builds, lists and order of the commands: no true      *)
(* positive, false positive or false negative of the evaluator is one that *)
(* the ground truth denies.                                                *)
THEOREM ToolsStayAgreed == Spec => []ToolsAgree
<1>1. Init => AInv
  BY DEF Init, BatchInit, AnalyzerInit, NoAnalysis, AInv, AnalysisIs
<1> QED
  BY InitTInv, NextTInv, <1>1, NextAInv, AInvAgrees, PTL DEF Spec

=============================================================================
