------------------------------ MODULE Campaign ------------------------------
(***************************************************************************)
(* The offline tools at work on one dataset: lists are made, captures are  *)
(* evaluated and printed, and lists are analysed, while a program may be   *)
(* extracted again. A careful user follows the README: extraction, then    *)
(* the lists, then the evaluation, each to its end. A careless one starts  *)
(* the tools at any time, may interrupt those that write, and may run out  *)
(* of space or of processes.                                               *)
(***************************************************************************)
EXTENDS ObjdumpWrapper, BatchEvaluator, FpAnalyzer, ResultPrinter

vars == <<commands, dataset, wrapper, batch, analysis, printer>>

Init == DatasetInit /\ WrapperInit /\ BatchInit /\ AnalyzerInit /\ PrinterInit

Idle == wpc = "idle" /\ bpc = "idle" /\ ppc = "idle"

UserExtracts ==
    /\ careful => Idle
    /\ \E n \in Names, b \in Builds, copied \in SUBSET {"capture", "binary"} :
          Extract(n, b, copied)
    /\ UNCHANGED <<wrapper, batch, analysis, printer>>

MakeLists ==
    /\ WrapperNext
    /\ careful => bpc = "idle"
    /\ UNCHANGED <<batch, analysis, printer>>

EvaluateBatch ==
    /\ BatchNext
    /\ careful => wpc = "idle" /\ listed
    /\ UNCHANGED <<wrapper, analysis, printer>>

AnalyzeList ==
    /\ \E n \in Names : Analyze(n)
    /\ UNCHANGED <<wrapper, batch, printer>>

PrintCapture ==
    /\ PrinterNext
    /\ UNCHANGED <<wrapper, batch, analysis>>

Next ==
    \/ UserExtracts \/ MakeLists \/ EvaluateBatch \/ AnalyzeList
    \/ PrintCapture

Spec == Init /\ [][Next]_vars

-----------------------------------------------------------------------------
Lists ==
    {NoList, Truncated}
        \cup [kind : {"v0"}, build : Builds, offsets : SUBSET Int]

Counts == [tp : Int, fp : Int, unk : Int, fn : Int]

TypeOK ==
    /\ careful \in BOOLEAN
    /\ binary \in [Names -> Builds] /\ capture \in [Names -> Builds]
    /\ list \in [Names -> Lists]
    /\ listed \in BOOLEAN /\ commands \in 0 .. MaxCommands[careful]
    /\ wpc \in {"idle", "next", "open", "write"}
    /\ bpc \in {"idle", "next", "evaluate"}
    /\ files \subseteq Names /\ entries \subseteq Names
    /\ wpc \in {"open", "write"} => file \in Names /\ dumped \in Builds
    /\ wpc = "write" => list[file] = Truncated
    /\ bpc = "evaluate" => entry \in Names /\ read \in Builds
    /\ counts \in Counts
    /\ \A r \in rows : r.name \in Names /\ r.counts \in Counts
    /\ ppc \in {"idle", "read", "print"} /\ left \subseteq Int
    /\ ppc = "print" => subject \in Names /\ printing \in Builds /\ left # {}
    /\ analysis.tp \in Nat /\ analysis.fp \in Nat /\ analysis.fn \in Nat

(* Whoever interrupts what, and wherever objdump stops: a list that can be *)
(* read is of one dump, has nothing that the dump of that build has not,   *)
(* and lacks nothing below an address it has.                              *)
ListsAreOfOneDump ==
    \A n \in Names :
        list[n].kind = "v0" =>
            LET all == Parsed(Lines[list[n].build]) IN
            /\ list[n].offsets \subseteq all
            /\ \A a \in list[n].offsets, d \in all :
                  d < a => d \in list[n].offsets

(* For a careful user the CSV has, for each program, one row with the      *)
(* classification of its capture against the whole list of the same build; *)
(* only the row of a program of which nothing was executed repeats what    *)
(* the variables held before.                                              *)
CsvIsRight ==
    careful =>
        /\ \A r \in rows :
              LET b == r.capture IN
              /\ r.list.build = b
              /\ DOMAIN Insns[b] # {} =>
                    /\ r.reported
                    /\ r.counts = Classify(Insns[b], Base[b], Parsed(Lines[b]))
        /\ \A r, q \in rows : r.name = q.name => r = q
        /\ bpc = "idle" /\ rows # {} => {r.name : r \in rows} = Names

(* A careful user's printout has the executed instructions, all of them    *)
(* when the printer has ended, in the order of their addresses, and every  *)
(* address is one where the binary it shows has an instruction.            *)
PrintoutIsRight ==
    careful /\ printing # None =>
        LET printed == {printout[k].addr : k \in DOMAIN printout} IN
        /\ \A k \in DOMAIN printout :
              /\ printout[k].build = printing
              /\ TruthOK(printing) => printout[k].addr \in Truth[printing]
              /\ k > 1 => printout[k - 1].addr < printout[k].addr
        /\ ppc = "idle" => printed = Addresses(Insns[printing], Base[printing])

(* The two evaluations of a list agree: what the evaluator calls TP, FP or *)
(* FN because of the execution, the ground truth calls so too.             *)
ToolsAgree ==
    \A r \in rows :
        /\ r.reported /\ r.list = analysis.list /\ r.capture = analysis.truth
        /\ TruthOK(r.capture)
        /\ \A a \in r.list.offsets : ToInt(a) = a
        => /\ r.counts.tp <= analysis.tp
           /\ r.counts.fp <= analysis.fp
           /\ r.counts.fn <= analysis.fn
=============================================================================
