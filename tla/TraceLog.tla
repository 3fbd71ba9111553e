------------------------------ MODULE TraceLog ------------------------------
(***************************************************************************)
(* What a traced run promises: it remembers each instruction of the target *)
(* the program executes, and at exit it delivers exactly those, or nothing *)
(* when the run ends without the exit callback or can no longer tell.      *)
(***************************************************************************)
CONSTANT Insn          \* the instructions a run may execute

VARIABLES status,      \* "open", then "delivered" or "lost"
          seen,        \* the instructions executed so far
          report       \* what was delivered

vars == <<status, seen, report>>

TypeOK ==
    /\ status \in {"open", "delivered", "lost"}
    /\ seen \subseteq Insn /\ report \subseteq Insn

Init == status = "open" /\ seen = {} /\ report = {}

Record(i) ==
    /\ status = "open"
    /\ seen' = seen \cup {i}
    /\ UNCHANGED <<status, report>>

Deliver ==
    /\ status = "open"
    /\ status' = "delivered" /\ report' = seen
    /\ UNCHANGED seen

(* What was remembered is gone, and nothing is delivered any more.         *)
Abandon ==
    /\ status = "open"
    /\ status' = "lost" /\ seen' = {}
    /\ UNCHANGED report

Next == (\E i \in Insn : Record(i)) \/ Deliver \/ Abandon

Spec == Init /\ [][Next]_vars
=============================================================================
