--------------------------- MODULE Classification ---------------------------
(***************************************************************************)
(* What a report of the evaluator says of a capture and a static list, as  *)
(* operators: insns maps the offset of each executed instruction to its    *)
(* length, statics are addresses.                                          *)
(***************************************************************************)
EXTENDS Integers, FiniteSets

Addresses(insns, base) == {d + base : d \in DOMAIN insns}

(* An address that did not run, in the middle of an instruction that did.  *)
(* Only the nearest executed instruction below is looked at.               *)
Nearest(insns, offset) ==
    CHOOSE d \in DOMAIN insns :
        d < offset /\ \A e \in DOMAIN insns : e < offset => e <= d

(* Mutant: the length of the executed instruction is not looked at.        *)
ConfirmedAnyLength(insns, base, s) ==
    LET offset == s - base IN
    offset \notin DOMAIN insns /\ \E d \in DOMAIN insns : d < offset

Confirmed(insns, base, s) ==
    LET offset == s - base IN
    /\ offset \notin DOMAIN insns
    /\ \E d \in DOMAIN insns : d < offset
    /\ LET elem == Nearest(insns, offset) IN offset < elem + insns[elem]

Classify(insns, base, statics) ==
    LET ran == Addresses(insns, base)
        confirmed == {s \in statics : Confirmed(insns, base, s)}
    IN  [tp |-> Cardinality(statics \cap ran),
         fp |-> Cardinality(confirmed),
         unk |-> Cardinality(statics \ (ran \cup confirmed)),
         fn |-> Cardinality(ran \ statics)]
=============================================================================
