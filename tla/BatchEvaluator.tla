--------------------------- MODULE BatchEvaluator ---------------------------
(***************************************************************************)
(* batch_evaluator.cpp: for each capture of a folder it runs the evaluator *)
(* on it and on the list of the same name, and writes a row of the CSV.    *)
(***************************************************************************)
EXTENDS Dataset

CONSTANTS Garbage      \* counts that uninitialised variables can hold

ASSUME BatchEvaluatorAssumption ==
    Garbage # {} /\ Garbage \subseteq [tp : Int, fp : Int, unk : Int, fn : Int]

VARIABLES
    bpc,               \* "idle", "next" or "evaluate"
    entries,           \* those the directory iterator has not returned
    entry, read,       \* the entry in work, the build its capture is of
    counts,            \* tp, fp_confirm, fp_other, fn
    rows               \* the CSV: [name, capture, list, counts, reported]

batch == <<bpc, entries, entry, read, counts, rows>>

BatchInit ==
    /\ bpc = "idle" /\ entries = {} /\ entry = None /\ read = None
    /\ counts \in Garbage
    /\ rows = {}

BatchStart ==
    /\ Command
    /\ bpc = "idle" /\ bpc' = "next"
    /\ entries' = Names /\ rows' = {} /\ counts' \in Garbage
    /\ UNCHANGED <<entry, read, dataset>>

(* The evaluator is started, and reads the capture. *)
NextEntry(n) ==
    /\ bpc = "next" /\ n \in entries
    /\ entries' = entries \ {n} /\ entry' = n
    /\ read' = capture[n]
    /\ bpc' = "evaluate"
    /\ UNCHANGED <<commands, counts, rows, dataset>>

(* popen fails in exec: nothing catches the exception, and the CSV ends    *)
(* with the row before.                                                    *)
BatchThrows ==
    /\ bpc = "next" /\ entries # {} /\ ~ careful
    /\ bpc' = "idle" /\ entries' = {}
    /\ UNCHANGED <<commands, entry, read, counts, rows, dataset>>

(* It then reads the list, and ends without a report when that cannot be   *)
(* decoded, or when nothing was executed to compare it with.               *)
Reports ==
    /\ list[entry].kind # "bad"
    /\ DOMAIN Insns[read] = {} => list[entry].offsets = {}

Report == Classify(Insns[read], Base[read], list[entry].offsets)

Row(c, reported) ==
    [name |-> entry, capture |-> read, list |-> list[entry],
     counts |-> c, reported |-> reported]

(* Mutant: the counts are read in another order than they are printed.     *)
EvaluateSwapped ==
    /\ bpc = "evaluate" /\ bpc' = "next"
    /\ Reports
    /\ counts' = [Report EXCEPT !.fp = Report.unk, !.unk = Report.fp]
    /\ rows' = rows \cup {Row(counts', TRUE)}
    /\ entry' = None /\ read' = None
    /\ UNCHANGED <<commands, entries, dataset>>

Evaluate ==
    /\ bpc = "evaluate" /\ bpc' = "next"
    /\ Reports
    /\ counts' = Report
    /\ rows' = rows \cup {Row(counts', TRUE)}
    /\ entry' = None /\ read' = None
    /\ UNCHANGED <<commands, entries, dataset>>

(* Without the word BATCH in the output nothing is read into the           *)
(* variables, which are where those of the entry before were.              *)
EvaluateWithoutReport ==
    /\ bpc = "evaluate" /\ bpc' = "next"
    /\ ~ Reports
    /\ counts' \in {counts} \cup Garbage
    /\ rows' = rows \cup {Row(counts', FALSE)}
    /\ entry' = None /\ read' = None
    /\ UNCHANGED <<commands, entries, dataset>>

BatchReturn ==
    /\ bpc = "next" /\ entries = {}
    /\ bpc' = "idle"
    /\ UNCHANGED <<commands, entries, entry, read, counts, rows, dataset>>

BatchKilled ==
    /\ bpc # "idle" /\ ~ careful
    /\ bpc' = "idle" /\ entries' = {} /\ entry' = None /\ read' = None
    /\ UNCHANGED <<commands, counts, rows, dataset>>

BatchNext ==
    \/ BatchStart
    \/ (\E n \in Names : NextEntry(n)) \/ BatchThrows
    \/ Evaluate \/ EvaluateWithoutReport
    \/ BatchReturn \/ BatchKilled
=============================================================================
