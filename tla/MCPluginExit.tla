---------------------------- MODULE MCPluginExit ----------------------------
(* Two builds that share offset 1, with another length, and differ in the  *)
(* rest of their code and in their base address.                           *)
EXTENDS PluginExit, TLC

CONSTANTS p1, p2, p3, old, new

MCProc == {p1, p2, p3}
MCTwoProc == {p1, p2}
MCBuild == {old, new}
MCOneBuild == {old}
MCCode == [b \in Build |-> IF b = old THEN 1 :> 2 @@ 3 :> 1 ELSE 1 :> 3]
MCBase == [b \in Build |-> IF b = old THEN 0 ELSE 64]
MCBoth == {0, 1}
MCNew == {1}
MCSymmetry == Permutations(Proc)
=============================================================================
