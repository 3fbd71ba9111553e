----------------------------- MODULE MCCampaign -----------------------------
(* Two programs and three builds. Of the first, objdump finds every        *)
(* instruction, one of them at an address that an int of four bits does    *)
(* not hold; in the second it loses its way in data, so that the list has  *)
(* an address inside an executed instruction and lacks another; of the     *)
(* third it decodes nothing, and nothing was executed.                     *)
EXTENDS Campaign, TLC

CONSTANTS p1, p2, b1, b2, b3

MCNames == {p1, p2}
Symmetry == Permutations(MCNames)

MCBuilds == {b1, b2, b3}
MCInsns == b1 :> (1 :> 2) @@ b2 :> (0 :> 3 @@ 3 :> 1) @@ b3 :> <<>>
MCBase == b1 :> 2 @@ b2 :> 0 @@ b3 :> 0

Line(tabs, addr) == [colon |-> TRUE, blank |-> TRUE, tabs |-> tabs, addr |-> addr]
Symbol(addr) == [colon |-> TRUE, blank |-> FALSE, tabs |-> 0, addr |-> addr]

MCLines ==
    b1 :> {Symbol(3), Line(2, 3), Line(2, 9)} @@
    b2 :> {Symbol(0), Line(2, 0), Line(2, 1), Line(2, 6)} @@
    b3 :> {Symbol(5), Line(1, 5)}
MCSize == b1 :> 8 @@ b2 :> 7 @@ b3 :> 2
MCTruth == b1 :> {3, 9} @@ b2 :> {0, 3, 6} @@ b3 :> {5}

MCMaxCommands == TRUE :> 6 @@ FALSE :> 3

MCGarbage == {[tp |-> -1, fp |-> -1, unk |-> -1, fn |-> -1]}
=============================================================================
