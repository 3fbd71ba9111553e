---------------------------- MODULE CaptureStore ----------------------------
(***************************************************************************)
(* What the output file of the plugin is meant to be: a capture of one     *)
(* build of the program. A run of the same build adds to it in one step, a *)
(* run of another build replaces it. A run that dies at the wrong moment   *)
(* spoils it, and a spoilt capture takes nothing more until it is removed. *)
(***************************************************************************)
CONSTANTS Build,       \* the digests a capture can carry
          Insn         \* Insn[b]: the instructions of b, [offset, length]

VARIABLE store

NoCapture == [state |-> "none"]
Spoilt == [state |-> "spoilt"]
Capture(b, insns) == [state |-> "kept", build |-> b, insns |-> insns]

Init == store = NoCapture

Commit(b, insns) ==
    /\ store # Spoilt
    /\ store' = Capture(b, insns \cup
           (IF store # NoCapture /\ store.build = b THEN store.insns ELSE {}))

Spoil == store' = Spoilt

Remove == store' = NoCapture

Next == (\E b \in Build : \E insns \in SUBSET Insn[b] : Commit(b, insns)) \/ Spoil \/ Remove

Spec == Init /\ [][Next]_store
=============================================================================
