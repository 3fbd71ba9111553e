---------------------------- MODULE MCEvaluator ----------------------------
(* Captures of up to three instructions at offsets 1, 2, 4 and 6, of       *)
(* lengths that leave gaps, touch or overlap, against the static           *)
(* instructions at addresses from below the first to past the last.        *)
EXTENDS Evaluator

Captures == UNION {[s -> 1 .. 3] : s \in {{}, {2}, {2, 4}, {1, 2, 4}, {1, 4, 6}}}

MCDynamicFiles ==
    {[kind |-> "v1", base |-> b, insns |-> i] : b \in {0, 2}, i \in Captures}
    \cup {[kind |-> k, base |-> 0, insns |-> <<>>] : k \in {"missing", "bad"}}

MCStaticFiles ==
    {[kind |-> "v0", offsets |-> s] : s \in SUBSET {2, 3, 5, 6, 9}}
    \cup {[kind |-> k, offsets |-> {}] : k \in {"missing", "bad"}}

MCGarbage == {-5, 0}
=============================================================================
