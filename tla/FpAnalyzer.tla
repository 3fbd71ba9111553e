----------------------------- MODULE FpAnalyzer -----------------------------
(***************************************************************************)
(* fp-analyzer.cpp: it counts a version 0 list against the ground truth of *)
(* the compiler.                                                           *)
(***************************************************************************)
EXTENDS Dataset

CONSTANTS IntWidth     \* the 32 of the source

ASSUME FpAnalyzerAssumption == IntWidth \in Nat \ {0}

VARIABLES analysis     \* the last one: [list, truth, tp, fp, fn]

NoAnalysis == [list |-> NoList, truth |-> None, tp |-> 0, fp |-> 0, fn |-> 0]

AnalyzerInit == analysis = NoAnalysis

(* The rows of the compiler's database, each inserted by the callback.     *)
GroundTruth(n) == Truth[binary[n]]

(* The loop over the addresses takes each as an int. *)
ToInt(a) == ((a + 2^(IntWidth - 1)) % 2^IntWidth) - 2^(IntWidth - 1)

(* Those of the truth that are in the list, erased one by one. *)
Erased(gt, offsets) == gt \cap {ToInt(a) : a \in offsets}

(* Without a list, or with one that cannot be decoded, it ends with        *)
(* nothing printed.                                                        *)
Analyze(n) ==
    LET gt == GroundTruth(n)  tp == Cardinality(Erased(gt, list[n].offsets)) IN
    /\ Command
    /\ list[n].kind = "v0"
    /\ analysis' = [list |-> list[n], truth |-> binary[n],
           tp |-> tp, fp |-> Cardinality(list[n].offsets) - tp,
           fn |-> Cardinality(gt) - tp]
    /\ UNCHANGED dataset
=============================================================================
