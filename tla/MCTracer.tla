------------------------------ MODULE MCTracer ------------------------------
(* A dynamically linked program of six instructions: one in the loader,    *)
(* one at offset 0 of the target, one whose file page is mapped twice, as  *)
(* the last page of one segment and the first page of the next, and one in *)
(* a segment after a line of the maps file that is too long to read.       *)
EXTENDS Tracer

MCTarget == <<"/bin/prog">>

Line(begin, end, offset, inode, path) ==
    [begin |-> begin, end |-> end, offset |-> offset, inode |-> inode,
     path |-> path, fits |-> TRUE]

MapsWith(second) ==
    << Line(0, 2, 0, 7, <<"/lib/ld.so">>),
       Line(2, 4, 0, 8, MCTarget),
       second,
       Line(9, 10, 0, 0, <<>>),
       [Line(10, 11, 0, 9, <<"/a/long/name">>) EXCEPT !.fits = FALSE],
       Line(11, 12, 3, 8, MCTarget) >>

Segment == Line(4, 6, 1, 8, MCTarget)
Library == Line(4, 6, 0, 7, <<"/lib/ld.so">>)

MCLayout == {MapsWith(Segment)}
(* The program maps a library over the second segment, or the segment over *)
(* a library.                                                              *)
MCLayouts == {MapsWith(Segment), MapsWith(Library)}

MCLength == [v \in 1 .. 5 \cup {11} |-> IF v = 11 THEN 1 ELSE <<2, 1, 3, 3, 2>>[v]]
MCBlocks == {<<1>>, <<2, 3>>, <<4, 5>>, <<11>>}

MCNoRewrites == {}
MCRewrites == {[vaddr |-> 5, length |-> 1], [vaddr |-> 1, length |-> 1]}
=============================================================================
