-------------------------- MODULE EvaluatorProofs --------------------------
(***************************************************************************)
(* The counts and the lists of the evaluator, for any capture and any list *)
(* of static instructions.                                                 *)
(***************************************************************************)
EXTENDS Evaluator, FiniteSetTheorems, WellFoundedInduction, TLAPS

LEMMA InitTypeOK == Init => TypeOK
<1> SUFFICES ASSUME Init
             PROVE  TypeOK
  OBVIOUS
<1>1. IntSet({})
  BY FS_EmptySet DEF IntSet
<1>2. DOMAIN dynamic_offsets = {}
  <2>1. \A x : x \notin DOMAIN <<>>
    OBVIOUS
  <2> QED
    BY <2>1 DEF Init
<1>3. InputsOK
  BY <1>1, <1>2, EvaluatorAssumption, FS_EmptySet DEF Init, InputsOK, IsInsns
<1> QED
  BY <1>1, <1>3 DEF Init, TypeOK, CountsOK

LEMMA InputsKept ==
    ASSUME InputsOK, UNCHANGED <<files, inputs>>
    PROVE  InputsOK'
BY DEF InputsOK, IsInsns, IntSet, files, inputs

(* A step of either loop takes one element out of what is left.            *)
LEMMA RestShrinks ==
    ASSUME IntSet(rest), NEW x, rest' = rest \ {x}
    PROVE  IntSet(rest')
BY FS_RemoveElement DEF IntSet

LEMMA NextTypeOK == TypeOK /\ [Next]_vars => TypeOK'
<1> SUFFICES ASSUME TypeOK, [Next]_vars
             PROVE  TypeOK'
  OBVIOUS
<1> USE DEF TypeOK
<1>1. CASE ReadDynamic
  <2>1. pc' \in {"aborted", "read_static"} /\ UNCHANGED <<rest, tp, fp, unk, fn>>
    BY <1>1 DEF ReadDynamic, Throw
  <2>2. InputsOK'
    BY <1>1, EvaluatorAssumption
    DEF ReadDynamic, Throw, InputsOK, IsInsns, IntSet, files, inputs
  <2> QED
    BY <2>1, <2>2 DEF CountsOK, IntSet
<1>2. CASE ReadStatic
  <2>1. CASE static_file.kind = "bad"
    BY <1>2, <2>1, InputsKept DEF ReadStatic, Throw, CountsOK, IntSet
  <2>2. CASE static_file.kind # "bad"
    <3>1. /\ UNCHANGED <<files, dynamic_offsets, base_address, tp, fp, unk, fn>>
          /\ pc' = "classify" /\ rest' = static_offsets'
          /\ static_offsets' = static_file.offsets \/ static_offsets' = {}
      BY <1>2, <2>2 DEF ReadStatic, Throw
    <3>2. IntSet(static_file.offsets) /\ IntSet({})
      BY EvaluatorAssumption, FS_EmptySet DEF InputsOK, IntSet
    <3>3. IntSet(static_offsets')
      BY <3>1, <3>2
    <3> QED
      BY <3>1, <3>3 DEF InputsOK, IsInsns, CountsOK, IntSet, files
  <2> QED
    BY <2>1, <2>2
<1>3. ASSUME NEW s \in rest, Crash(s) \/ Match(s) \/ Inside(s) \/ Unknown(s)
      PROVE  TypeOK'
  <2>1. Visit(s) /\ UNCHANGED <<files, inputs>> /\ fn' = fn
    BY <1>3 DEF Crash, Match, Inside, Unknown
  <2>2. IntSet(rest')
    BY <2>1, RestShrinks DEF Visit
  <2>3. CountsOK'
    <3>1. /\ tp' = tp \/ tp' = tp + 1
          /\ fp' = fp \/ fp' = fp + 1
          /\ unk' = unk \/ unk' = unk + 1
      BY <1>3 DEF Crash, Match, Inside, Unknown
    <3>2. tp \in Nat /\ fp \in Nat /\ unk \in Nat /\ fn \in Nat /\ fn' = fn
      BY <2>1 DEF CountsOK
    <3> HIDE DEF TypeOK
    <3> QED
      BY <3>1, <3>2 DEF CountsOK
  <2>4. pc' \in {pc, "crashed"}
    BY <1>3 DEF Crash, Match, Inside, Unknown
  <2> QED
    BY <2>1, <2>2, <2>3, <2>4, InputsKept
<1>4. CASE EndClassify
  <2>1. IntSet(rest')
    BY <1>4 DEF EndClassify, Executed, InputsOK, IsInsns, IntSet
  <2> QED
    BY <1>4, <2>1, InputsKept DEF EndClassify, CountsOK
<1>5. ASSUME NEW d \in rest, Count(d)
      PROVE  TypeOK'
  <2>1. IntSet(rest')
    BY <1>5, RestShrinks DEF Count
  <2>2. CountsOK'
    BY <1>5 DEF Count, CountsOK
  <2> QED
    BY <1>5, <2>1, <2>2, InputsKept DEF Count
<1>6. CASE Report
  BY <1>6, InputsKept DEF Report, CountsOK, IntSet
<1>7. CASE UNCHANGED vars
  BY <1>7, InputsKept DEF vars, CountsOK, IntSet
<1> HIDE DEF TypeOK
<1> QED
  BY <1>1, <1>2, <1>3, <1>4, <1>5, <1>6, <1>7 DEF Next

(* Every variable keeps its type; the counters never go below zero.        *)
THEOREM EvaluatorTypeOK == Spec => []TypeOK
BY InitTypeOK, NextTypeOK, PTL DEF Spec

-----------------------------------------------------------------------------
(* Conservation. *)

MatchedIn(S) == {s \in S : s - base_address \in Executed}
MissedIn(S) == {d \in S : d + base_address \notin static_offsets}

Visited == static_offsets \ rest

CInv ==
    /\ pc \in {"read_dynamic", "read_static"} =>
          tp = 0 /\ fp = 0 /\ unk = 0 /\ fn = 0
    /\ pc = "classify" =>
          /\ rest \subseteq static_offsets
          /\ tp = Cardinality(MatchedIn(Visited))
          /\ tp + fp + unk = Cardinality(Visited)
          /\ fn = 0
    /\ pc \in {"count", "reported"} =>
          /\ rest \subseteq Executed
          /\ tp = Cardinality(MatchedIn(static_offsets))
          /\ tp + fp + unk = Cardinality(static_offsets)
          /\ fn = Cardinality(MissedIn(Executed \ rest))
    /\ pc = "reported" => rest = {}

(* Visiting one more element adds it to those of the set that satisfy a    *)
(* condition, of which T is the subset.                                    *)
LEMMA OneMore ==
    ASSUME NEW S, IsFiniteSet(S), NEW x, x \notin S
    PROVE  Cardinality(S \cup {x}) = Cardinality(S) + 1 /\ Cardinality(S) \in Nat
BY FS_AddElement, FS_CardinalityType

(* The executed instructions the disassembler found are as many as the     *)
(* static instructions that were executed: the base address is added on    *)
(* one side as it is subtracted on the other.                              *)
LEMMA FoundAreMatched ==
    ASSUME TypeOK
    PROVE  /\ Cardinality(MatchedIn(static_offsets)) \in Nat
           /\ Cardinality(MissedIn(Executed)) \in Nat
           /\ Cardinality(MatchedIn(static_offsets)) + Cardinality(MissedIn(Executed))
                = Cardinality(Executed)
<1> DEFINE M == MatchedIn(static_offsets)
           D == {d \in Executed : d + base_address \in static_offsets}
           f == [s \in M |-> s - base_address]
<1>1. /\ IsFiniteSet(static_offsets) /\ IsFiniteSet(Executed)
      /\ \A s \in static_offsets : s \in Int
      /\ \A d \in Executed : d \in Int
      /\ base_address \in Int
  BY DEF TypeOK, InputsOK, IntSet, IsInsns, Executed
<1>2. IsFiniteSet(M) /\ IsFiniteSet(D)
  BY <1>1, FS_Subset DEF MatchedIn
<1>3. f \in Bijection(M, D)
  <2>1. \A s \in M : s \in Int /\ s \in static_offsets /\ s - base_address \in Executed
    BY <1>1 DEF MatchedIn
  <2>2. \A s \in M : s - base_address \in D
    <3> SUFFICES ASSUME NEW s \in M
                 PROVE  s - base_address \in D
      OBVIOUS
    <3>1. (s - base_address) + base_address = s
      BY <1>1, <2>1
    <3> QED
      BY <2>1, <3>1
  <2>3. \A a, b \in M : f[a] = f[b] => a = b
    BY <1>1, <2>1
  <2>4. \A d \in D : \E s \in M : f[s] = d
    <3> SUFFICES ASSUME NEW d \in D
                 PROVE  \E s \in M : f[s] = d
      OBVIOUS
    <3>1. (d + base_address) - base_address = d
      BY <1>1
    <3>2. d + base_address \in M
      BY <3>1 DEF MatchedIn
    <3> QED
      BY <3>1, <3>2
  <2>5. f \in [M -> D]
    BY <2>2
  <2> HIDE DEF M, D, f
  <2>6. f \in Injection(M, D)
    BY <2>3, <2>5 DEF Injection, IsInjective
  <2>7. f \in Surjection(M, D)
    BY <2>4, <2>5 DEF Surjection
  <2> QED
    BY <2>6, <2>7 DEF Bijection
<1>4. Cardinality(D) = Cardinality(M)
  BY <1>2, <1>3, FS_Bijection DEF ExistsBijection
<1>5. MissedIn(Executed) = Executed \ D
  BY DEF MissedIn
<1>6. /\ IsFiniteSet(Executed \ D)
      /\ Cardinality(Executed \ D) = Cardinality(Executed) - Cardinality(Executed \cap D)
  BY <1>1, FS_Difference
<1>7. Executed \cap D = D
  OBVIOUS
<1>8. Cardinality(Executed) \in Nat /\ Cardinality(M) \in Nat
      /\ Cardinality(Executed \ D) \in Nat
  BY <1>1, <1>2, <1>6, FS_CardinalityType
<1> HIDE DEF D
<1> QED
  BY <1>4, <1>5, <1>6, <1>7, <1>8

LEMMA InitCInv == Init => CInv
BY DEF Init, CInv

(* A visited static instruction is counted once, under one heading.        *)
LEMMA ClassifyCInv ==
    ASSUME TypeOK, CInv, NEW s \in rest,
           Match(s) \/ Inside(s) \/ Unknown(s)
    PROVE  CInv'
<1>1. /\ pc = "classify" /\ pc' = pc /\ fn' = fn
      /\ UNCHANGED <<dynamic_offsets, base_address, static_offsets>>
      /\ rest' = rest \ {s}
  BY DEF Match, Inside, Unknown, Visit, inputs
<1>2. /\ rest \subseteq static_offsets /\ fn = 0
      /\ tp = Cardinality(MatchedIn(Visited))
      /\ tp + fp + unk = Cardinality(Visited)
  BY <1>1 DEF CInv
<1>3. IsFiniteSet(Visited) /\ IsFiniteSet(MatchedIn(Visited))
  <2>1. IsFiniteSet(static_offsets)
    BY DEF TypeOK, InputsOK, IntSet
  <2>2. Visited \in SUBSET static_offsets /\ MatchedIn(Visited) \in SUBSET static_offsets
    BY DEF Visited, MatchedIn
  <2> QED
    BY <2>1, <2>2, FS_Subset
<1>4. Visited' = Visited \cup {s} /\ s \notin Visited
  BY <1>1, <1>2 DEF Visited
<1>5. Cardinality(Visited') = Cardinality(Visited) + 1
  BY <1>3, <1>4, OneMore
<1>6. MatchedIn(Visited)' = {x \in Visited \cup {s} : x - base_address \in Executed}
  BY <1>1, <1>4 DEF MatchedIn, Executed
<1>7. tp \in Nat /\ fp \in Nat /\ unk \in Nat /\ Cardinality(Visited) \in Nat
  BY <1>3, FS_CardinalityType DEF TypeOK, CountsOK
<1>8. CASE Match(s)
  <2>1. s - base_address \in Executed /\ tp' = tp + 1 /\ fp' = fp /\ unk' = unk
    BY <1>8 DEF Match
  <2>2. MatchedIn(Visited)' = MatchedIn(Visited) \cup {s} /\ s \notin MatchedIn(Visited)
    BY <1>4, <1>6, <2>1 DEF MatchedIn
  <2>3. tp' = Cardinality(MatchedIn(Visited)')
    BY <1>2, <1>3, <2>1, <2>2, OneMore
  <2>4. tp' + fp' + unk' = Cardinality(Visited')
    BY <1>2, <1>5, <1>7, <2>1
  <2> QED
    BY <1>1, <1>2, <2>3, <2>4 DEF CInv
<1>9. CASE Inside(s) \/ Unknown(s)
  <2>1. /\ s - base_address \notin Executed /\ tp' = tp
        /\ (fp' = fp + 1 /\ unk' = unk) \/ (fp' = fp /\ unk' = unk + 1)
    <3>1. CASE Inside(s)
      BY <3>1 DEF Inside
    <3>2. CASE Unknown(s)
      BY <3>2 DEF Unknown
    <3> QED
      BY <1>9, <3>1, <3>2
  <2>2. MatchedIn(Visited)' = MatchedIn(Visited)
    BY <1>6, <2>1 DEF MatchedIn
  <2>3. tp' + fp' + unk' = Cardinality(Visited')
    BY <1>2, <1>5, <1>7, <2>1
  <2> QED
    BY <1>1, <1>2, <2>1, <2>2, <2>3 DEF CInv
<1> QED
  BY <1>8, <1>9

(* Every other step of the run keeps the counts in line with what has been *)
(* visited.                                                                *)
LEMMA CountCInv ==
    ASSUME TypeOK, CInv, NEW d \in rest, Count(d)
    PROVE  CInv'
<1>1. /\ pc = "count" /\ pc' = pc /\ tp' = tp /\ fp' = fp /\ unk' = unk
      /\ UNCHANGED <<dynamic_offsets, base_address, static_offsets>>
      /\ rest' = rest \ {d}
  BY DEF Count, inputs
<1>2. /\ rest \subseteq Executed
      /\ tp = Cardinality(MatchedIn(static_offsets))
      /\ tp + fp + unk = Cardinality(static_offsets)
      /\ fn = Cardinality(MissedIn(Executed \ rest))
  BY <1>1 DEF CInv
<1>3. Executed' = Executed /\ MatchedIn(static_offsets)' = MatchedIn(static_offsets)
  BY <1>1 DEF Executed, MatchedIn
<1>4. (Executed \ rest)' = (Executed \ rest) \cup {d} /\ d \notin Executed \ rest
  BY <1>1, <1>2, <1>3
<1>5. MissedIn(Executed \ rest)' =
        {x \in (Executed \ rest) \cup {d} : x + base_address \notin static_offsets}
  BY <1>1, <1>4 DEF MissedIn
<1>6. fn' = Cardinality(MissedIn(Executed \ rest)')
  <2>1. CASE d + base_address \in static_offsets
    <3>1. fn' = fn
      BY <2>1 DEF Count
    <3>2. MissedIn(Executed \ rest)' = MissedIn(Executed \ rest)
      BY <1>5, <2>1 DEF MissedIn
    <3> QED
      BY <1>2, <3>1, <3>2
  <2>2. CASE d + base_address \notin static_offsets
    <3>1. fn' = fn + 1
      BY <2>2 DEF Count
    <3>2. /\ MissedIn(Executed \ rest)' = MissedIn(Executed \ rest) \cup {d}
          /\ d \notin MissedIn(Executed \ rest)
      BY <1>4, <1>5, <2>2 DEF MissedIn
    <3>3. IsFiniteSet(Executed)
      BY DEF TypeOK, InputsOK, IsInsns, Executed
    <3>4. MissedIn(Executed \ rest) \in SUBSET Executed
      BY DEF MissedIn
    <3>5. IsFiniteSet(MissedIn(Executed \ rest))
      BY <3>3, <3>4, FS_Subset
    <3> QED
      BY <1>2, <3>1, <3>2, <3>5, OneMore
  <2> QED
    BY <2>1, <2>2
<1> QED
  BY <1>1, <1>2, <1>3, <1>6 DEF CInv

LEMMA NextCInv == TypeOK /\ CInv /\ [Next]_vars => CInv'
<1> SUFFICES ASSUME TypeOK, CInv, [Next]_vars
             PROVE  CInv'
  OBVIOUS
<1>1. CASE ReadDynamic
  BY <1>1 DEF ReadDynamic, Throw, CInv
<1>2. CASE ReadStatic
  <2>1. CASE pc' = "aborted"
    BY <2>1 DEF CInv
  <2>2. CASE pc' # "aborted"
    <3>1. /\ pc' = "classify" /\ rest' = static_offsets'
          /\ tp' = 0 /\ fp' = 0 /\ unk' = 0 /\ fn' = 0
      BY <1>2, <2>2 DEF ReadStatic, Throw, CInv
    <3>2. Visited' = {} /\ MatchedIn(Visited)' = {}
      BY <3>1 DEF Visited, MatchedIn
    <3>3. Cardinality({}) = 0
      BY FS_EmptySet
    <3>4. tp' = Cardinality(MatchedIn(Visited)') /\ tp' + fp' + unk' = Cardinality(Visited')
      BY <3>1, <3>2, <3>3
    <3> QED
      BY <3>1, <3>4 DEF CInv
  <2> QED
    BY <2>1, <2>2
<1>3. ASSUME NEW s \in rest, Crash(s) \/ Match(s) \/ Inside(s) \/ Unknown(s)
      PROVE  CInv'
  <2>1. CASE Crash(s)
    BY <2>1 DEF Crash, CInv
  <2> QED
    BY <1>3, <2>1, ClassifyCInv
<1>4. CASE EndClassify
  <2>1. /\ pc = "classify" /\ rest = {} /\ pc' = "count" /\ rest' = Executed
        /\ UNCHANGED <<dynamic_offsets, base_address, static_offsets>>
        /\ tp' = tp /\ fp' = fp /\ unk' = unk /\ fn' = fn
    BY <1>4 DEF EndClassify, inputs
  <2>2. Visited = static_offsets
    BY <2>1 DEF Visited
  <2>3. /\ tp = Cardinality(MatchedIn(static_offsets))
        /\ tp + fp + unk = Cardinality(static_offsets) /\ fn = 0
    BY <2>1, <2>2 DEF CInv
  <2>4. /\ Executed' = Executed /\ MatchedIn(static_offsets)' = MatchedIn(static_offsets)
        /\ MissedIn(Executed \ rest)' = {}
    BY <2>1 DEF Executed, MatchedIn, MissedIn
  <2>5. Cardinality({}) = 0
    BY FS_EmptySet
  <2> QED
    BY <2>1, <2>3, <2>4, <2>5 DEF CInv
<1>5. ASSUME NEW d \in rest, Count(d)
      PROVE  CInv'
  BY <1>5, CountCInv
<1>6. CASE Report
  <2>1. /\ pc = "count" /\ pc' = "reported" /\ rest = {} /\ rest' = rest
        /\ UNCHANGED <<dynamic_offsets, base_address, static_offsets>>
        /\ tp' = tp /\ fp' = fp /\ unk' = unk /\ fn' = fn
    BY <1>6 DEF Report, inputs
  <2> QED
    BY <2>1 DEF CInv, Executed, MatchedIn, MissedIn
<1>7. CASE UNCHANGED vars
  BY <1>7 DEF vars, inputs, CInv, Executed, MatchedIn, MissedIn, Visited
<1> QED
  BY <1>1, <1>2, <1>3, <1>4, <1>5, <1>6, <1>7 DEF Next

LEMMA CInvConserves == TypeOK /\ CInv => Conservation
<1> SUFFICES ASSUME TypeOK, CInv, pc = "reported"
             PROVE  /\ tp + fp + unk = Cardinality(static_offsets)
                    /\ tp + fn = Cardinality(Executed)
  BY DEF Conservation
<1>1. Executed \ rest = Executed
  BY DEF CInv
<1>2. /\ tp = Cardinality(MatchedIn(static_offsets))
      /\ tp + fp + unk = Cardinality(static_offsets)
      /\ fn = Cardinality(MissedIn(Executed))
  BY <1>1 DEF CInv
<1> QED
  BY <1>2, FoundAreMatched

(* A report counts every static instruction under exactly one of TP, FP    *)
(* and UNK, and every executed one under exactly one of TP and FN, for any *)
(* capture, any list of static instructions and any base address.          *)
THEOREM CountsConserved == Spec => []Conservation
<1>1. Spec => []TypeOK
  BY EvaluatorTypeOK
<1>2. Spec => []CInv
  BY <1>1, InitCInv, NextCInv, PTL DEF Spec
<1> QED
  BY <1>1, <1>2, CInvConserves, PTL

-----------------------------------------------------------------------------
(* Which static instructions are confirmed FPs. *)

(* A finite set of integers that is not empty has a greatest element: a    *)
(* smallest such set without one would lose its counterexample by losing   *)
(* an element.                                                             *)
LEMMA GreatestExists ==
    ASSUME NEW S, IsFiniteSet(S), S # {}, \A x \in S : x \in Int
    PROVE  \E x \in S : \A y \in S : y <= x
<1> DEFINE Has(X) == \E x \in X : \A y \in X : y <= x
           Bad == {X \in SUBSET S : X # {} /\ ~ Has(X)}
<1>1. SUFFICES ASSUME Bad # {}
               PROVE  FALSE
  BY <1>1
<1>2. Bad \subseteq FiniteSubsetsOf(S)
  BY FS_FiniteSubsetsOfFinite
<1>3. PICK X \in Bad : \A Y \in Bad : ~ (<<Y, X>> \in StrictSubsetOrdering(S))
  <2> HIDE DEF Bad
  <2> QED
    BY <1>1, <1>2, FS_StrictSubsetOrderingWellFounded, WFMin
<1>4. X \subseteq S /\ X # {} /\ ~ Has(X)
  BY <1>3
<1>5. PICK x \in X : TRUE
  BY <1>4
<1>6. \A y \in X : y \in Int
  BY <1>4
<1>7. X \ {x} # {}
  BY <1>4, <1>5, <1>6
<1>8. X \ {x} \notin Bad
  <2>1. <<X \ {x}, X>> \in StrictSubsetOrdering(S)
    BY <1>4, <1>5 DEF StrictSubsetOrdering
  <2> QED
    BY <1>3, <2>1
<1>9. PICK m \in X \ {x} : \A y \in X \ {x} : y <= m
  BY <1>4, <1>7, <1>8
<1>10. CASE x <= m
  BY <1>4, <1>9, <1>10
<1>11. CASE m <= x
  BY <1>4, <1>5, <1>6, <1>9, <1>11
<1> QED
  BY <1>5, <1>6, <1>9, <1>10, <1>11

(* prev(lower_bound) is the nearest executed instruction below.            *)
LEMMA ElemIsNearest ==
    ASSUME TypeOK, NEW offset \in Int, Below(offset) # {}
    PROVE  /\ Elem(offset) \in Executed /\ Elem(offset) < offset
           /\ \A e \in Executed : e < offset => e <= Elem(offset)
<1>1. IsFiniteSet(Executed) /\ \A d \in Executed : d \in Int
  BY DEF TypeOK, InputsOK, IsInsns, Executed
<1>2. IsFiniteSet(Below(offset)) /\ \A d \in Below(offset) : d \in Int
  BY <1>1, FS_Subset DEF Below
<1>3. \E d \in Below(offset) : \A e \in Below(offset) : e <= d
  BY <1>2, GreatestExists
<1>4. Elem(offset) \in Below(offset) /\ \A e \in Below(offset) : e <= Elem(offset)
  BY <1>3 DEF Elem
<1> QED
  BY <1>4 DEF Below

FInv ==
    /\ pc = "read_dynamic" => fplist = {} /\ unklist = {}
    /\ \A offset \in unklist : offset \in Int
    /\ FpsAreContradicted
    /\ FpsAreComplete

LEMMA InitFInv == Init => FInv
BY DEF Init, FInv, FpsAreContradicted, FpsAreComplete

(* What the lists say stays true while the capture is not read again.      *)
LEMMA ListsKept ==
    ASSUME FInv, pc' # "read_dynamic", UNCHANGED <<dynamic_offsets, fplist, unklist>>
    PROVE  FInv'
BY DEF FInv, FpsAreContradicted, FpsAreComplete, Contradicts, Within, Disjoint,
       Executed, ReachedBy

(* How a line shows the length of its instruction.                         *)
LengthShown(l) ==
    /\ l.L \in {AsNumber(dynamic_offsets[l.E]), AsCharacter(dynamic_offsets[l.E])}
    /\ (\E d \in Executed : l.A < d) => l.L = AsNumber(dynamic_offsets[l.E])

LEMMA InsideFInv ==
    ASSUME TypeOK, FInv, NEW s \in rest, Inside(s)
    PROVE  FInv'
<1> DEFINE offset == s - base_address
           line == Printed(Elem(offset), offset)
<1>1. /\ pc = "classify" /\ pc' = pc /\ dynamic_offsets' = dynamic_offsets
      /\ unklist' = unklist /\ fplist' = fplist \cup {line}
      /\ offset \notin Executed /\ Below(offset) # {} /\ ReachedBy(Elem(offset), offset)
  BY DEF Inside, Visit, inputs
<1>2. offset \in Int
  <2>1. s \in Int /\ base_address \in Int
    BY DEF TypeOK, InputsOK, IntSet
  <2> QED
    BY <2>1
<1>3. Elem(offset) \in Executed /\ Within(offset, Elem(offset))
  BY <1>1, <1>2, ElemIsNearest DEF Within
<1>4. /\ line.A = offset /\ line.E = Elem(offset)
      /\ LengthShown(line)
  <2>1. (\E d \in Executed : offset < d) => ~ PastLast(offset)
    <3>1. \A d \in Executed : d \in Int
      BY DEF TypeOK, InputsOK, IsInsns, Executed
    <3> QED
      BY <1>2, <3>1 DEF PastLast
  <2> QED
    BY <2>1 DEF Printed, LengthShown
<1> HIDE DEF offset, line
<1>5. /\ Contradicts(line.A) /\ line.E \in Executed /\ Within(line.A, line.E)
      /\ LengthShown(line)
  BY <1>1, <1>3, <1>4 DEF Contradicts
<1>6. FpsAreContradicted'
  <2>1. \A l \in fplist' :
          /\ Contradicts(l.A)
          /\ l.E \in Executed /\ Within(l.A, l.E) /\ LengthShown(l)
    BY <1>1, <1>5 DEF FInv, FpsAreContradicted, LengthShown
  <2> QED
    BY <1>1, <2>1 DEF FpsAreContradicted, LengthShown, Contradicts, Within, Executed,
                      ReachedBy, AsNumber, AsCharacter
<1>7. FpsAreComplete'
  BY <1>1 DEF FInv, FpsAreComplete, Contradicts, Disjoint, Within, Executed, ReachedBy
<1> QED
  BY <1>1, <1>6, <1>7 DEF FInv

(* An executed instruction that holds an unknown one would also hold the   *)
(* nearest executed instruction below it.                                  *)
LEMMA UnknownFInv ==
    ASSUME TypeOK, FInv, NEW s \in rest, Unknown(s)
    PROVE  FInv'
<1> DEFINE offset == s - base_address
<1>1. /\ pc = "classify" /\ pc' = pc /\ dynamic_offsets' = dynamic_offsets
      /\ fplist' = fplist /\ unklist' = unklist \cup {offset}
      /\ Below(offset) # {} => ~ ReachedBy(Elem(offset), offset)
  BY DEF Unknown, Visit, inputs
<1>2. offset \in Int
  <2>1. s \in Int /\ base_address \in Int
    BY DEF TypeOK, InputsOK, IntSet
  <2> QED
    BY <2>1
<1> HIDE DEF offset
<1>3. ASSUME Disjoint, Contradicts(offset)
      PROVE  FALSE
  <2>1. PICK d \in Executed : d < offset /\ ReachedBy(d, offset)
    BY <1>3 DEF Contradicts, Within
  <2>2. Below(offset) # {}
    BY <2>1 DEF Below
  <2>3. /\ Elem(offset) \in Executed /\ Elem(offset) < offset /\ d <= Elem(offset)
        /\ ~ ReachedBy(Elem(offset), offset)
    BY <1>1, <1>2, <2>1, <2>2, ElemIsNearest
  <2>4. d \in Int /\ dynamic_offsets[d] \in Int /\ Elem(offset) \in Int
    <3>1. \A e \in Executed : e \in Int /\ dynamic_offsets[e] \in 0 .. 127
      BY DEF TypeOK, InputsOK, IsInsns, Executed
    <3> QED
      BY <2>1, <2>3, <3>1
  <2>5. d < Elem(offset) /\ Elem(offset) < d + dynamic_offsets[d]
    <3>1. d # Elem(offset)
      BY <2>1, <2>3
    <3>2. offset < d + dynamic_offsets[d]
      BY <2>1 DEF ReachedBy
    <3> QED
      BY <1>2, <2>3, <2>4, <3>1, <3>2
  <2>6. Within(Elem(offset), d)
    BY <2>5 DEF Within, ReachedBy
  <2> QED
    BY <1>3, <2>1, <2>3, <2>6 DEF Disjoint
<1>4. Disjoint => \A o \in unklist' : ~ Contradicts(o)
  BY <1>1, <1>3 DEF FInv, FpsAreComplete
<1>5. FpsAreComplete'
  BY <1>1, <1>4 DEF FpsAreComplete, Contradicts, Disjoint, Within, Executed, ReachedBy
<1>6. FpsAreContradicted'
  BY <1>1 DEF FInv, FpsAreContradicted, Contradicts, Within, Executed, ReachedBy
<1>7. \A o \in unklist' : o \in Int
  BY <1>1, <1>2 DEF FInv
<1> QED
  BY <1>1, <1>5, <1>6, <1>7 DEF FInv

LEMMA NextFInv == TypeOK /\ FInv /\ [Next]_vars => FInv'
<1> SUFFICES ASSUME TypeOK, FInv, [Next]_vars
             PROVE  FInv'
  OBVIOUS
<1>1. CASE ReadDynamic
  <2>1. fplist' = {} /\ unklist' = {} /\ pc' # "read_dynamic"
    BY <1>1 DEF ReadDynamic, Throw, FInv, lists
  <2> QED
    BY <2>1 DEF FInv, FpsAreContradicted, FpsAreComplete
<1>2. CASE ReadStatic
  BY <1>2, ListsKept DEF ReadStatic, Throw, lists, inputs
<1>3. ASSUME NEW s \in rest, Crash(s) \/ Match(s)
      PROVE  FInv'
  BY <1>3, ListsKept DEF Crash, Match, Visit, lists, inputs
<1>4. CASE EndClassify
  BY <1>4, ListsKept DEF EndClassify, lists, inputs
<1>5. ASSUME NEW d \in rest, Count(d)
      PROVE  FInv'
  BY <1>5, ListsKept DEF Count, inputs
<1>6. CASE Report
  BY <1>6, ListsKept DEF Report, lists, inputs
<1>7. CASE UNCHANGED vars
  BY <1>7 DEF vars, inputs, lists, FInv, FpsAreContradicted, FpsAreComplete,
              Contradicts, Within, Disjoint, Executed, ReachedBy
<1> QED
  BY <1>1, <1>2, <1>3, <1>4, <1>5, <1>6, <1>7, InsideFInv, UnknownFInv DEF Next

(* Each line of the fplist names an instruction that was executed and      *)
(* strictly contains the static one, which was not executed: a confirmed   *)
(* FP is a proof that the disassembler was wrong about this run. The       *)
(* length shown is the one recorded, as a number or, past the last         *)
(* executed offset, as the character that line 81 makes of it.             *)
THEOREM FpsAreWitnessed == Spec => []FpsAreContradicted
<1>1. Spec => []FInv
  BY EvaluatorTypeOK, InitFInv, NextFInv, PTL DEF Spec
<1>2. FInv => FpsAreContradicted
  BY DEF FInv
<1> QED
  BY <1>1, <1>2, PTL

(* When no two executed instructions overlap, looking only at the nearest  *)
(* one below misses no contradiction.                                      *)
THEOREM NearestIsEnough == Spec => []FpsAreComplete
<1>1. Spec => []FInv
  BY EvaluatorTypeOK, InitFInv, NextFInv, PTL DEF Spec
<1>2. FInv => FpsAreComplete
  BY DEF FInv
<1> QED
  BY <1>1, <1>2, PTL

-----------------------------------------------------------------------------
(* The report and the classification.                                      *)

ConfirmedIn(S) == {s \in S : Confirmed(dynamic_offsets, base_address, s)}

(* What the FP counter has counted. *)
GInv ==
    /\ pc \in {"read_dynamic", "read_static"} => fp = 0
    /\ pc = "classify" => fp = Cardinality(ConfirmedIn(Visited))
    /\ pc \in {"count", "reported"} => fp = Cardinality(ConfirmedIn(static_offsets))

(* The nearest executed instruction below is the one prev(lower_bound)     *)
(* finds.                                                                  *)
LEMMA ConfirmedIsReached ==
    ASSUME TypeOK, NEW s \in Int, s - base_address \notin Executed
    PROVE  Confirmed(dynamic_offsets, base_address, s) <=>
               /\ Below(s - base_address) # {}
               /\ ReachedBy(Elem(s - base_address), s - base_address)
<1> DEFINE offset == s - base_address
           near == Nearest(dynamic_offsets, offset)
<1>1. /\ offset \in Int /\ \A d \in Executed : d \in Int
  BY DEF TypeOK, InputsOK, IsInsns, Executed
<1>2. Below(offset) # {} <=> \E d \in DOMAIN dynamic_offsets : d < offset
  BY DEF Below, Executed
<1>3. ASSUME Below(offset) # {}
      PROVE  near = Elem(offset)
  <2> HIDE DEF offset
  <2>1. /\ Elem(offset) \in Executed /\ Elem(offset) < offset
        /\ \A e \in Executed : e < offset => e <= Elem(offset)
    BY <1>1, <1>3, ElemIsNearest
  <2>2. /\ near \in Executed /\ near < offset
        /\ \A e \in Executed : e < offset => e <= near
    BY <2>1 DEF Nearest, Executed
  <2>3. near <= Elem(offset) /\ Elem(offset) <= near
    BY <2>1, <2>2
  <2>4. near \in Int /\ Elem(offset) \in Int
    BY <1>1, <2>1, <2>2
  <2> HIDE DEF near
  <2> QED
    BY <2>3, <2>4
<1>4. Confirmed(dynamic_offsets, base_address, s) <=>
          /\ \E d \in DOMAIN dynamic_offsets : d < offset
          /\ offset < near + dynamic_offsets[near]
  BY DEF Confirmed, Executed
<1>5. ReachedBy(Elem(offset), offset) <=> offset < Elem(offset) + dynamic_offsets[Elem(offset)]
  BY DEF ReachedBy
<1> HIDE DEF offset, near
<1>6. Confirmed(dynamic_offsets, base_address, s) <=>
          Below(offset) # {} /\ ReachedBy(Elem(offset), offset)
  BY <1>2, <1>3, <1>4, <1>5
<1> QED
  BY <1>6 DEF offset

LEMMA VisitGInv ==
    ASSUME TypeOK, CInv, GInv, NEW s \in rest,
           Match(s) \/ Inside(s) \/ Unknown(s)
    PROVE  GInv'
<1>1. /\ pc = "classify" /\ pc' = pc
      /\ UNCHANGED <<dynamic_offsets, base_address, static_offsets>>
      /\ rest' = rest \ {s} /\ s \in Int
  BY DEF Match, Inside, Unknown, Visit, inputs, TypeOK, IntSet
<1>2. rest \subseteq static_offsets /\ fp = Cardinality(ConfirmedIn(Visited))
  BY <1>1 DEF CInv, GInv
<1>3. IsFiniteSet(ConfirmedIn(Visited))
  BY FS_Subset DEF ConfirmedIn, Visited, TypeOK, InputsOK, IntSet
<1>4. Visited' = Visited \cup {s} /\ s \notin Visited
  BY <1>1, <1>2 DEF Visited
<1>5. ConfirmedIn(Visited)' =
          {x \in Visited \cup {s} : Confirmed(dynamic_offsets, base_address, x)}
  BY <1>1, <1>4 DEF ConfirmedIn
<1>6. CASE Confirmed(dynamic_offsets, base_address, s)
  <2>1. s - base_address \notin Executed
    BY <1>6 DEF Confirmed, Executed
  <2>2. ~ Match(s) /\ ~ Unknown(s)
    BY <1>1, <1>6, <2>1, ConfirmedIsReached DEF Match, Unknown
  <2>3. fp' = fp + 1
    BY <2>2 DEF Inside
  <2>4. /\ ConfirmedIn(Visited)' = ConfirmedIn(Visited) \cup {s}
        /\ s \notin ConfirmedIn(Visited)
    BY <1>4, <1>5, <1>6 DEF ConfirmedIn
  <2>5. fp' = Cardinality(ConfirmedIn(Visited)')
    BY <1>2, <1>3, <2>3, <2>4, OneMore
  <2> QED
    BY <1>1, <2>5 DEF GInv
<1>7. CASE ~ Confirmed(dynamic_offsets, base_address, s)
  <2>1. ~ Inside(s)
    BY <1>1, <1>7, ConfirmedIsReached DEF Inside
  <2>2. fp' = fp
    BY <2>1 DEF Match, Unknown
  <2>3. ConfirmedIn(Visited)' = ConfirmedIn(Visited)
    BY <1>5, <1>7 DEF ConfirmedIn
  <2> QED
    BY <1>1, <1>2, <2>2, <2>3 DEF GInv
<1> QED
  BY <1>6, <1>7

LEMMA NextGInv == TypeOK /\ CInv /\ GInv /\ [Next]_vars => GInv'
<1> SUFFICES ASSUME TypeOK, CInv, GInv, [Next]_vars
             PROVE  GInv'
  OBVIOUS
<1>1. CASE ReadDynamic
  BY <1>1 DEF ReadDynamic, Throw, GInv
<1>2. CASE ReadStatic
  <2>1. CASE pc' = "aborted"
    BY <2>1 DEF GInv
  <2>2. CASE pc' # "aborted"
    <3>1. pc' = "classify" /\ rest' = static_offsets' /\ fp' = 0
      BY <1>2, <2>2 DEF ReadStatic, Throw, GInv
    <3>2. ConfirmedIn(Visited)' = {} /\ Cardinality({}) = 0
      BY <3>1, FS_EmptySet DEF Visited, ConfirmedIn
    <3> QED
      BY <3>1, <3>2 DEF GInv
  <2> QED
    BY <2>1, <2>2
<1>3. ASSUME NEW s \in rest, Crash(s) \/ Match(s) \/ Inside(s) \/ Unknown(s)
      PROVE  GInv'
  <2>1. CASE Crash(s)
    BY <2>1 DEF Crash, GInv
  <2> QED
    BY <1>3, <2>1, VisitGInv
<1>4. CASE EndClassify
  <2>1. Visited = static_offsets
    BY <1>4 DEF EndClassify, Visited
  <2> QED
    BY <1>4, <2>1 DEF EndClassify, inputs, GInv, ConfirmedIn
<1>5. ASSUME NEW d \in rest, Count(d)
      PROVE  GInv'
  BY <1>5 DEF Count, inputs, GInv, ConfirmedIn
<1>6. CASE Report
  BY <1>6 DEF Report, inputs, GInv, ConfirmedIn
<1>7. CASE UNCHANGED vars
  BY <1>7 DEF vars, inputs, GInv, ConfirmedIn, Visited
<1> QED
  BY <1>1, <1>2, <1>3, <1>4, <1>5, <1>6, <1>7 DEF Next

(* The executed instructions without a static one, counted with the base   *)
(* address and without it.                                                 *)
LEMMA MissedAreMissed ==
    ASSUME TypeOK
    PROVE  Cardinality(Addresses(dynamic_offsets, base_address) \ static_offsets)
               = Cardinality(MissedIn(Executed))
<1> DEFINE M == MissedIn(Executed)
           A == Addresses(dynamic_offsets, base_address) \ static_offsets
           f == [d \in M |-> d + base_address]
<1>1. IsFiniteSet(Executed) /\ base_address \in Int /\ \A d \in Executed : d \in Int
  BY DEF TypeOK, InputsOK, IsInsns, Executed
<1>2. M \subseteq Executed /\ IsFiniteSet(M)
  BY <1>1, FS_Subset DEF MissedIn
<1>3. A = {d + base_address : d \in M}
  BY DEF MissedIn, Addresses, Executed
<1>4. \A c, d \in M : c + base_address = d + base_address => c = d
  <2> SUFFICES ASSUME NEW c \in M, NEW d \in M, c + base_address = d + base_address
               PROVE  c = d
    OBVIOUS
  <2>1. c \in Int /\ d \in Int
    BY <1>1, <1>2
  <2> QED
    BY <1>1, <2>1
<1> HIDE DEF M, A
<1>5. f \in Injection(M, A) /\ f \in Surjection(M, A)
  BY <1>3, <1>4 DEF Injection, IsInjective, Surjection
<1>6. f \in Bijection(M, A)
  BY <1>5 DEF Bijection
<1> HIDE DEF f
<1>7. ExistsBijection(M, A)
  BY <1>6 DEF ExistsBijection
<1> QED
  BY <1>2, <1>7, FS_Bijection DEF M, A

LEMMA CountsClassify == TypeOK /\ CInv /\ GInv => ReportClassifies
<1> SUFFICES ASSUME TypeOK, CInv, GInv, pc = "reported"
             PROVE  [tp |-> tp, fp |-> fp, unk |-> unk, fn |-> fn] =
                        Classify(dynamic_offsets, base_address, static_offsets)
  BY DEF ReportClassifies
<1> DEFINE S == static_offsets
           ran == Addresses(dynamic_offsets, base_address)
           confirmed == ConfirmedIn(S)
<1>1. IsFiniteSet(S) /\ base_address \in Int /\ \A s \in S : s \in Int
  BY DEF TypeOK, InputsOK, IntSet
<1>2. MatchedIn(S) = S \cap ran
  <2>1. \A d \in Executed : d \in Int
    BY DEF TypeOK, InputsOK, IsInsns, Executed
  <2>2. \A s \in S : s - base_address \in Executed <=> s \in ran
    <3> SUFFICES ASSUME NEW s \in S
                 PROVE  s - base_address \in Executed <=> s \in ran
      OBVIOUS
    <3>1. s \in Int /\ s = (s - base_address) + base_address
      BY <1>1
    <3>2. \A d \in Executed : s = d + base_address => d = s - base_address
      BY <1>1, <2>1, <3>1
    <3> QED
      BY <3>1, <3>2 DEF Addresses, Executed
  <2> QED
    BY <2>2 DEF MatchedIn
<1>3. Executed \ rest = Executed
  BY DEF CInv
<1>4. /\ tp = Cardinality(S \cap ran) /\ fp = Cardinality(confirmed)
      /\ tp + fp + unk = Cardinality(S) /\ fn = Cardinality(ran \ S)
  BY <1>2, <1>3, MissedAreMissed DEF CInv, GInv
<1>5. confirmed \subseteq S /\ confirmed \cap MatchedIn(S) = {}
  BY DEF ConfirmedIn, MatchedIn, Confirmed, Executed
<1>6. Classify(dynamic_offsets, base_address, S) =
          [tp |-> Cardinality(S \cap ran), fp |-> Cardinality(confirmed),
           unk |-> Cardinality(S \ (ran \cup confirmed)), fn |-> Cardinality(ran \ S)]
  BY DEF Classify, ConfirmedIn
<1> HIDE DEF S, ran, confirmed
<1>7. Cardinality(S \ (ran \cup confirmed)) = unk
  <2> DEFINE T == S \cap ran
  <2>1. IsFiniteSet(T) /\ IsFiniteSet(confirmed)
    BY <1>1, <1>5, FS_Subset
  <2>2. T \cap confirmed = {} /\ S \cap (ran \cup confirmed) = T \cup confirmed
    BY <1>2, <1>5
  <2> HIDE DEF T
  <2>3. Cardinality(T \cup confirmed) =
            Cardinality(T) + Cardinality(confirmed) - Cardinality(T \cap confirmed)
    BY <2>1, FS_Union
  <2>4. Cardinality(S \ (ran \cup confirmed)) =
            Cardinality(S) - Cardinality(S \cap (ran \cup confirmed))
    BY <1>1, FS_Difference
  <2>5. Cardinality(T \cap confirmed) = 0
    BY <2>2, FS_EmptySet
  <2>6. tp \in Nat /\ fp \in Nat /\ unk \in Nat /\ tp = Cardinality(T)
    BY <1>4 DEF TypeOK, CountsOK, T
  <2>7. Cardinality(T \cup confirmed) = tp + fp
    BY <1>4, <2>3, <2>5, <2>6
  <2>8. Cardinality(S \ (ran \cup confirmed)) = Cardinality(S) - (tp + fp)
    BY <2>2, <2>4, <2>7, Zenon
  <2>9. (tp + fp + unk) - (tp + fp) = unk
    <3>1. tp \in Nat /\ fp \in Nat /\ unk \in Nat
      BY <2>6
    <3> QED
      BY <3>1
  <2>10. Cardinality(S) = tp + fp + unk
    BY <1>4
  <2> QED
    BY <2>8, <2>9, <2>10, Zenon
<1> QED
  BY <1>4, <1>6, <1>7 DEF S

(* For any capture and any list the two loops report the classification    *)
(* that the batch evaluator puts into a row.                               *)
THEOREM ReportIsClassification == Spec => []ReportClassifies
<1>1. Init => GInv
  BY DEF Init, GInv
<1> QED
  BY InitTypeOK, NextTypeOK, InitCInv, NextCInv, <1>1, NextGInv, CountsClassify, PTL DEF Spec

-----------------------------------------------------------------------------
(* How many steps the program can still make, at most: the two reads, one  *)
(* for each instruction of either loop, and the ends of the loops.         *)
StepsLeft ==
    CASE pc = "read_dynamic" ->
             Cardinality(DOMAIN dynamic_file.insns) + Cardinality(Executed)
                 + Cardinality(static_file.offsets) + 4
      [] pc = "read_static" ->
             Cardinality(Executed) + Cardinality(static_file.offsets) + 3
      [] pc = "classify" -> Cardinality(rest) + Cardinality(Executed) + 2
      [] pc = "count"    -> Cardinality(rest) + 1
      [] OTHER           -> 0

(* The sizes that are counted are numbers.                                 *)
LEMMA SizesAreNat ==
    ASSUME TypeOK
    PROVE  /\ Cardinality(DOMAIN dynamic_file.insns) \in Nat
           /\ Cardinality(static_file.offsets) \in Nat
           /\ Cardinality(Executed) \in Nat /\ Cardinality(rest) \in Nat
<1>1. /\ IsFiniteSet(DOMAIN dynamic_file.insns) /\ IsFiniteSet(static_file.offsets)
      /\ IsFiniteSet(Executed) /\ IsFiniteSet(rest)
  BY EvaluatorAssumption DEF TypeOK, InputsOK, IsInsns, IntSet, Executed
<1> QED
  BY <1>1, FS_CardinalityType

LEMMA StepsLeftIsNat == TypeOK => StepsLeft \in Nat
BY SizesAreNat DEF StepsLeft

(* A step of either loop leaves one instruction less.                      *)
LEMMA OneLess ==
    ASSUME TypeOK, NEW x \in rest, rest' = rest \ {x}
    PROVE  /\ Cardinality(rest') \in Nat /\ Cardinality(rest) \in Nat
           /\ Cardinality(rest') = Cardinality(rest) - 1
<1>1. IsFiniteSet(rest) /\ Cardinality(rest) \in Nat
  BY SizesAreNat DEF TypeOK, IntSet
<1>2. Cardinality(rest') = Cardinality(rest) - 1 /\ IsFiniteSet(rest')
  BY <1>1, FS_RemoveElement
<1> QED
  BY <1>1, <1>2, FS_CardinalityType

LEMMA StepsShrink == TypeOK /\ TypeOK' /\ [Next]_vars => [StepsLeft' < StepsLeft]_vars
<1> SUFFICES ASSUME TypeOK, TypeOK', Next PROVE StepsLeft' < StepsLeft
  OBVIOUS
<1> DEFINE D == Cardinality(DOMAIN dynamic_file.insns)
           S == Cardinality(static_file.offsets)
           E == Cardinality(Executed)
           R == Cardinality(rest)
<1>1. D \in Nat /\ S \in Nat /\ E \in Nat /\ R \in Nat
  BY SizesAreNat
<1>2. CASE ReadDynamic
  <2>1. UNCHANGED files /\ pc = "read_dynamic" /\ StepsLeft = D + E + S + 4
    BY <1>2 DEF ReadDynamic, Throw, StepsLeft
  <2>2. CASE pc' = "aborted"
    <3>1. StepsLeft' = 0
      BY <2>2 DEF StepsLeft
    <3> QED
      BY <1>1, <2>1, <3>1
  <2>3. CASE pc' # "aborted"
    <3>1. pc' = "read_static" /\ StepsLeft' = Cardinality(Executed') + S + 3
      BY <1>2, <2>1, <2>3 DEF ReadDynamic, Throw, StepsLeft, files
    <3>2. Executed' = DOMAIN dynamic_file.insns \/ Executed' = Executed
      BY <1>2, <2>3 DEF ReadDynamic, Throw, Executed
    <3>3. Cardinality(Executed') = D \/ Cardinality(Executed') = E
      BY <3>2
    <3> QED
      BY <1>1, <2>1, <3>1, <3>3
  <2> QED
    BY <2>2, <2>3
<1>3. CASE ReadStatic
  <2>1. pc = "read_static" /\ StepsLeft = E + S + 3
    BY <1>3 DEF ReadStatic, Throw, StepsLeft
  <2>2. CASE pc' = "aborted"
    <3>1. StepsLeft' = 0
      BY <2>2 DEF StepsLeft
    <3> QED
      BY <1>1, <2>1, <3>1
  <2>3. CASE pc' # "aborted"
    <3>1. pc' = "classify" /\ Executed' = Executed
      BY <1>3, <2>3 DEF ReadStatic, Throw, Executed
    <3>2. rest' = static_file.offsets \/ rest' = {}
      BY <1>3, <2>3 DEF ReadStatic, Throw
    <3>3. Cardinality(rest') = S \/ Cardinality(rest') = 0
      BY <3>2, FS_EmptySet
    <3>4. StepsLeft' = Cardinality(rest') + E + 2
      BY <3>1 DEF StepsLeft
    <3> QED
      BY <1>1, <2>1, <3>3, <3>4
  <2> QED
    BY <2>2, <2>3
<1>4. ASSUME NEW s \in rest, Crash(s) \/ Match(s) \/ Inside(s) \/ Unknown(s)
      PROVE  StepsLeft' < StepsLeft
  <2>1. /\ pc = "classify" /\ rest' = rest \ {s} /\ Executed' = Executed
        /\ pc' = "crashed" \/ pc' = "classify"
    BY <1>4 DEF Crash, Match, Inside, Unknown, Visit, inputs, Executed
  <2>2. StepsLeft = R + E + 2
    BY <2>1 DEF StepsLeft
  <2>3. StepsLeft' = 0 \/ StepsLeft' = Cardinality(rest') + E + 2
    BY <2>1 DEF StepsLeft
  <2>4. Cardinality(rest') \in Nat /\ Cardinality(rest') = R - 1
    BY <2>1, OneLess
  <2> QED
    BY <1>1, <2>2, <2>3, <2>4
<1>5. CASE EndClassify
  <2>1. pc = "classify" /\ pc' = "count" /\ rest' = Executed
    BY <1>5 DEF EndClassify
  <2>2. StepsLeft = R + E + 2 /\ StepsLeft' = E + 1
    BY <2>1 DEF StepsLeft
  <2> QED
    BY <1>1, <2>2
<1>6. ASSUME NEW d \in rest, Count(d)
      PROVE  StepsLeft' < StepsLeft
  <2>1. pc = "count" /\ pc' = "count" /\ rest' = rest \ {d}
    BY <1>6 DEF Count
  <2>2. StepsLeft = R + 1 /\ StepsLeft' = Cardinality(rest') + 1
    BY <2>1 DEF StepsLeft
  <2>3. Cardinality(rest') \in Nat /\ Cardinality(rest') = R - 1
    BY <2>1, OneLess
  <2> QED
    BY <1>1, <2>2, <2>3
<1>7. CASE Report
  <2>1. StepsLeft = R + 1 /\ StepsLeft' = 0
    BY <1>7 DEF Report, StepsLeft
  <2> QED
    BY <1>1, <2>1
<1> QED
  BY <1>2, <1>3, <1>4, <1>5, <1>6, <1>7 DEF Next

(* Neither loop goes on for ever: each step leaves fewer, of a number that *)
(* the sizes of the two files bound.                                       *)
THEOREM StepsRunOut == Spec => [](StepsLeft \in Nat) /\ [][StepsLeft' < StepsLeft]_vars
BY EvaluatorTypeOK, StepsLeftIsNat, StepsShrink, PTL DEF Spec
=============================================================================
