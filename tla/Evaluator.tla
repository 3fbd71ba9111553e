----------------------------- MODULE Evaluator -----------------------------
(***************************************************************************)
(* One run of evaluator.cpp: it reads a version 1 capture and a version 0  *)
(* list of what a static disassembler found, classifies every static       *)
(* instruction against the executed ones, and counts the executed ones the *)
(* disassembler missed.                                                    *)
(***************************************************************************)
EXTENDS Integers, FiniteSets, Classification

CONSTANTS
    DynamicFiles,      \* [kind, base, insns]: kind "missing", "bad" or "v1"
    StaticFiles,       \* [kind, offsets]: kind "missing", "bad" or "v0"
    Garbage            \* what an uninitialised int64_t can hold

ASSUME EvaluatorAssumption ==
    /\ \A f \in DynamicFiles :
          /\ f.base \in Int /\ IsFiniteSet(DOMAIN f.insns)
          /\ \A o \in DOMAIN f.insns : o \in Int /\ f.insns[o] \in 0 .. 127
    /\ \A f \in StaticFiles :
          IsFiniteSet(f.offsets) /\ \A s \in f.offsets : s \in Int
    /\ \A g \in Garbage : g \in Int

VARIABLES
    pc,
    dynamic_file, static_file,
    dynamic_offsets,   \* executed instructions, without the base address
    base_address,
    static_offsets,    \* static instructions, with the base address
    rest,              \* what the running loop has not visited
    tp, fp, unk, fn,
    fplist, fnlist, unklist

files == <<dynamic_file, static_file>>
inputs == <<dynamic_offsets, base_address, static_offsets>>
lists == <<fplist, fnlist, unklist>>
vars == <<pc, files, inputs, rest, tp, fp, unk, fn, lists>>

(* Mutant: the counters start with what the stack holds.                   *)
InitUncleared ==
    /\ pc = "read_dynamic"
    /\ dynamic_file \in DynamicFiles /\ static_file \in StaticFiles
    /\ dynamic_offsets = <<>> /\ base_address \in Garbage
    /\ static_offsets = {} /\ rest = {}
    /\ tp \in Garbage /\ fp = 0 /\ unk = 0 /\ fn = 0
    /\ fplist = {} /\ fnlist = {} /\ unklist = {}

Init ==
    /\ pc = "read_dynamic"
    /\ dynamic_file \in DynamicFiles /\ static_file \in StaticFiles
    /\ dynamic_offsets = <<>> /\ base_address \in Garbage
    /\ static_offsets = {} /\ rest = {}
    /\ tp = 0 /\ fp = 0 /\ unk = 0 /\ fn = 0
    /\ fplist = {} /\ fnlist = {} /\ unklist = {}

Throw ==
    /\ pc' = "aborted"
    /\ UNCHANGED <<files, inputs, rest, tp, fp, unk, fn, lists>>

(* The values the two readers return are not looked at: after a failed     *)
(* open the map stays empty and the base address what it was.              *)
ReadDynamic ==
    /\ pc = "read_dynamic"
    /\ \/ dynamic_file.kind = "bad" /\ Throw
       \/ /\ dynamic_file.kind # "bad"
          /\ IF dynamic_file.kind = "v1"
             THEN /\ dynamic_offsets' = dynamic_file.insns
                  /\ base_address' = dynamic_file.base
             ELSE UNCHANGED <<dynamic_offsets, base_address>>
          /\ pc' = "read_static"
          /\ UNCHANGED <<files, static_offsets, rest, tp, fp, unk, fn, lists>>

ReadStatic ==
    /\ pc = "read_static"
    /\ \/ static_file.kind = "bad" /\ Throw
       \/ /\ static_file.kind # "bad"
          /\ static_offsets' =
                 IF static_file.kind = "v0" THEN static_file.offsets ELSE {}
          /\ rest' = static_offsets'
          /\ pc' = "classify"
          /\ UNCHANGED <<files, dynamic_offsets, base_address, tp, fp, unk, fn, lists>>

-----------------------------------------------------------------------------
(* The loop over static_offsets, in increasing order. *)

IsLeast(x, S) == x \in S /\ \A y \in S : x <= y

Executed == DOMAIN dynamic_offsets
Below(offset) == {d \in Executed : d < offset}

(* Mutant: begin() where prev(lower_bound) is meant.                       *)
ElemFirst(offset) == CHOOSE d \in Below(offset) : \A e \in Below(offset) : d <= e

(* prev(lower_bound), or rbegin when the lower bound is the end. *)
Elem(offset) == CHOOSE d \in Below(offset) : \A e \in Below(offset) : e <= d
ReachedBy(elem, offset) == offset < elem + dynamic_offsets[elem]

(* What a line of the fplist shows. A length is held in a signed char: the *)
(* branch for an offset past the last executed one streams it as it is, as *)
(* the character of that code; the other branch casts it to int first.     *)
AsNumber(n) == [shown |-> "number", of |-> n]
AsCharacter(n) == [shown |-> "character", of |-> n]
PastLast(offset) == \A d \in Executed : d < offset

Printed(elem, offset) ==
    LET length == dynamic_offsets[elem] IN
    [E |-> elem, A |-> offset,
     L |-> IF PastLast(offset) THEN AsCharacter(length) ELSE AsNumber(length)]

Visit(s) == pc = "classify" /\ IsLeast(s, rest) /\ rest' = rest \ {s}

(* rbegin of an empty map is dereferenced. *)
Crash(s) ==
    /\ Visit(s) /\ Executed = {}
    /\ pc' = "crashed"
    /\ UNCHANGED <<files, inputs, tp, fp, unk, fn, lists>>

Match(s) ==
    /\ Visit(s) /\ s - base_address \in Executed
    /\ tp' = tp + 1
    /\ UNCHANGED <<pc, files, inputs, fp, unk, fn, lists>>

(* Mutant: whatever comes after an executed instruction is inside it.      *)
InsideUnchecked(s) ==
    LET offset == s - base_address IN
    /\ Visit(s) /\ offset \notin Executed /\ Below(offset) # {}
    /\ fp' = fp + 1
    /\ fplist' = fplist \cup {Printed(Elem(offset), offset)}
    /\ UNCHANGED <<pc, files, inputs, tp, unk, fn, fnlist, unklist>>

Inside(s) ==
    LET offset == s - base_address IN
    /\ Visit(s) /\ offset \notin Executed /\ Below(offset) # {}
    /\ ReachedBy(Elem(offset), offset)
    /\ fp' = fp + 1
    /\ fplist' = fplist \cup {Printed(Elem(offset), offset)}
    /\ UNCHANGED <<pc, files, inputs, tp, unk, fn, fnlist, unklist>>

(* Mutant: the case of a lower bound that is the first is missing.         *)
UnknownNotFirst(s) ==
    LET offset == s - base_address IN
    /\ Visit(s) /\ Below(offset) # {} /\ offset \notin Executed
    /\ ~ ReachedBy(Elem(offset), offset)
    /\ unk' = unk + 1
    /\ unklist' = unklist \cup {offset}
    /\ UNCHANGED <<pc, files, inputs, tp, fp, fn, fplist, fnlist>>

Unknown(s) ==
    LET offset == s - base_address IN
    /\ Visit(s) /\ Executed # {} /\ offset \notin Executed
    /\ Below(offset) # {} => ~ ReachedBy(Elem(offset), offset)
    /\ unk' = unk + 1
    /\ unklist' = unklist \cup {offset}
    /\ UNCHANGED <<pc, files, inputs, tp, fp, fn, fplist, fnlist>>

EndClassify ==
    /\ pc = "classify" /\ rest = {}
    /\ pc' = "count" /\ rest' = Executed
    /\ UNCHANGED <<files, inputs, tp, fp, unk, fn, lists>>

-----------------------------------------------------------------------------
(* The loop over dynamic_offsets, and the report. *)

(* Mutant: the base address is not added.                                  *)
CountUnbased(d) ==
    /\ pc = "count" /\ IsLeast(d, rest) /\ rest' = rest \ {d}
    /\ IF d \in static_offsets
       THEN UNCHANGED <<fn, fnlist>>
       ELSE fn' = fn + 1 /\ fnlist' = fnlist \cup {d}
    /\ UNCHANGED <<pc, files, inputs, tp, fp, unk, fplist, unklist>>

Count(d) ==
    /\ pc = "count" /\ IsLeast(d, rest) /\ rest' = rest \ {d}
    /\ IF d + base_address \in static_offsets
       THEN UNCHANGED <<fn, fnlist>>
       ELSE fn' = fn + 1 /\ fnlist' = fnlist \cup {d}
    /\ UNCHANGED <<pc, files, inputs, tp, fp, unk, fplist, unklist>>

Report ==
    /\ pc = "count" /\ rest = {}
    /\ pc' = "reported"
    /\ UNCHANGED <<files, inputs, rest, tp, fp, unk, fn, lists>>

Next ==
    \/ ReadDynamic
    \/ ReadStatic
    \/ \E s \in rest : Crash(s) \/ Match(s) \/ Inside(s) \/ Unknown(s)
    \/ EndClassify
    \/ \E d \in rest : Count(d)
    \/ Report

Spec == Init /\ [][Next]_vars

(* The program runs to its end by itself. *)
FairSpec == Spec /\ WF_vars(Next)

-----------------------------------------------------------------------------
IsInsns(m) ==
    /\ IsFiniteSet(DOMAIN m)
    /\ \A o \in DOMAIN m : o \in Int /\ m[o] \in 0 .. 127

IntSet(S) == IsFiniteSet(S) /\ \A x \in S : x \in Int

InputsOK ==
    /\ dynamic_file \in DynamicFiles /\ static_file \in StaticFiles
    /\ IsInsns(dynamic_offsets)
    /\ base_address \in Int
    /\ IntSet(static_offsets)

CountsOK == tp \in Nat /\ fp \in Nat /\ unk \in Nat /\ fn \in Nat

TypeOK ==
    /\ pc \in {"read_dynamic", "read_static", "classify", "count", "reported",
               "aborted", "crashed"}
    /\ InputsOK /\ IntSet(rest) /\ CountsOK

(* Nothing is counted twice or dropped: what is reported splits the static *)
(* instructions into TP, FP and UNK, and the executed ones into TP and FN. *)
Conservation ==
    pc = "reported" =>
        /\ tp + fp + unk = Cardinality(static_offsets)
        /\ tp + fn = Cardinality(Executed)

(* The loops, with their four cases around lower_bound and the conversions *)
(* of addresses in both directions, report the classification that the     *)
(* batch evaluator puts into a row.                                        *)
ReportClassifies ==
    pc = "reported" =>
        [tp |-> tp, fp |-> fp, unk |-> unk, fn |-> fn] =
            Classify(dynamic_offsets, base_address, static_offsets)

(* A static instruction contradicts the execution when it starts strictly  *)
(* inside an instruction that ran, and did not run itself.                 *)
Within(offset, d) == d < offset /\ ReachedBy(d, offset)
Contradicts(offset) ==
    offset \notin Executed /\ \E d \in Executed : Within(offset, d)

(* Executed instructions overlap when the program jumps into the middle of *)
(* one, or past its prefix.                                                *)
Disjoint == \A d \in Executed : ~ \E e \in Executed : Within(e, d)

(* Each confirmed FP contradicts the execution, and its line of the fplist *)
(* names an instruction that shows it: its offset always, its length as a  *)
(* number wherever something was executed above. Past the last executed    *)
(* offset the length is there, but as a character and not as a number.     *)
FpsAreContradicted ==
    \A l \in fplist :
        /\ Contradicts(l.A)
        /\ l.E \in Executed /\ Within(l.A, l.E)
        /\ l.L \in {AsNumber(dynamic_offsets[l.E]), AsCharacter(dynamic_offsets[l.E])}
        /\ (\E d \in Executed : l.A < d) => l.L = AsNumber(dynamic_offsets[l.E])

(* Comparing with the nearest executed instruction below is enough when    *)
(* the executed instructions do not overlap: none that contradicts the     *)
(* execution is left in UNK.                                               *)
FpsAreComplete ==
    Disjoint => \A offset \in unklist : ~ Contradicts(offset)

(* A report is only missing when an input could not be decoded, or when    *)
(* there is nothing executed to compare static instructions with.          *)
ReportUnlessUndecodable ==
    [](dynamic_file.kind = "v1" /\ DOMAIN dynamic_file.insns # {}
           /\ static_file.kind # "bad" => <>(pc = "reported"))
=============================================================================
