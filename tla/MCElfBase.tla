----------------------------- MODULE MCElfBase -----------------------------
(* Tables of up to three sections, at two addresses and two offsets, with  *)
(* and without code, in files of either class that are cut short anywhere. *)
EXTENDS ElfBase

Sections ==
    [alloc : {TRUE}, exec : {TRUE}, addr : {1, 3}, offset : {0, 2}]
        \cup [alloc : {TRUE}, exec : {FALSE}, addr : {1}, offset : {1}]
        \cup [alloc : {FALSE}, exec : {TRUE}, addr : {0}, offset : {3}]

MCFiles ==
    [class : {32, 64}, readable : Unopened .. 5,
     sections : UNION {[1 .. n -> Sections] : n \in 0 .. 3}]

MCHalf == [c \in {32, 64} |-> IF c = 32 THEN 2 ELSE 8]
=============================================================================
