------------------------ MODULE ResolveMappingProofs ------------------------
(***************************************************************************)
(* The loop of resolve_mapping returns what the kernel's mappings say, for *)
(* every well-formed table and every address.                              *)
(***************************************************************************)
EXTENDS ResolveMapping, FiniteSetTheorems, TLAPS

(* At most one mapping of a well-formed table covers an address.           *)
LEMMA CoverIsUnique ==
    ASSUME NEW table, table \subseteq Mapping, WellFormed(table),
           NEW address \in Nat,
           NEW m \in table, NEW n \in table,
           Covers(m, address), Covers(n, address)
    PROVE  m = n
BY DEF WellFormed, Covers, Mapping

(* Every mapping the loop has skipped ends at or before the address.       *)
Skipped == \A m \in mapping_table \ rest : m.end <= vaddr

IInv == TypeOK /\ Skipped /\ ReturnsFileOffset

LEMMA InitIInv == Init => IInv
BY TablesAssumption DEF Init, IInv, TypeOK, Skipped, ReturnsFileOffset, NoOffset

(* When the next mapping in order starts above the address, no mapping     *)
(* covers it.                                                              *)
LEMMA BreakIsSafe ==
    ASSUME TypeOK, Skipped, NEW m \in rest, IsNext(m), vaddr < m.begin
    PROVE  FileOffset(mapping_table, vaddr) = NoOffset
<1>1. ASSUME NEW n \in mapping_table
      PROVE  ~ Covers(n, vaddr)
  <2>1. n \in Mapping /\ m \in Mapping /\ vaddr \in Nat
    BY DEF TypeOK
  <2>2. CASE n \in rest
    <3>1. m.begin <= n.begin
      BY <2>1, <2>2 DEF IsNext, Precedes, Mapping
    <3> QED
      BY <2>1, <3>1 DEF Covers, Mapping
  <2>3. CASE n \notin rest
    BY <2>1, <2>3 DEF Skipped, Covers, Mapping
  <2> QED
    BY <2>2, <2>3
<1> QED
  BY <1>1 DEF FileOffset

LEMMA NextIInv == IInv /\ [Next]_vars => IInv'
<1> SUFFICES ASSUME IInv, [Next]_vars
             PROVE  IInv'
  OBVIOUS
<1> USE DEF IInv
<1>1. CASE pc = "scan" /\ Break
  <2>1. PICK m \in rest : IsNext(m) /\ vaddr < m.begin /\ Return(NoOffset)
    BY <1>1 DEF Break
  <2>2. FileOffset(mapping_table, vaddr) = NoOffset
    BY <2>1, BreakIsSafe
  <2> QED
    BY <2>1, <2>2 DEF Return, TypeOK, Skipped, ReturnsFileOffset, NoOffset
<1>2. CASE pc = "scan" /\ Continue
  BY <1>2 DEF Continue, TypeOK, Skipped, ReturnsFileOffset
<1>3. CASE pc = "scan" /\ Found
  <2>1. PICK m \in rest : /\ vaddr >= m.begin /\ vaddr < m.end
                          /\ Return(OffsetIn(m, vaddr))
    BY <1>3 DEF Found
  <2>2. m \in Mapping /\ vaddr \in Nat /\ m \in mapping_table
    BY <2>1 DEF TypeOK
  <2>3. Covers(m, vaddr)
    BY <2>1, <2>2 DEF Covers, Mapping
  <2>4. (CHOOSE n \in mapping_table : Covers(n, vaddr)) = m
    <3>1. \A n \in mapping_table : Covers(n, vaddr) => n = m
      BY <2>2, <2>3, CoverIsUnique DEF TypeOK
    <3> QED
      BY <2>2, <2>3, <3>1
  <2>5. FileOffset(mapping_table, vaddr) = OffsetIn(m, vaddr)
    BY <2>2, <2>3, <2>4 DEF FileOffset
  <2> QED
    BY <2>1, <2>2, <2>5 DEF Return, TypeOK, Skipped, ReturnsFileOffset, OffsetIn, Mapping
<1>4. CASE pc = "scan" /\ Exhausted
  <2>1. FileOffset(mapping_table, vaddr) = NoOffset
    BY <1>4 DEF Exhausted, Skipped, FileOffset, Covers, TypeOK, Mapping
  <2> QED
    BY <1>4, <2>1 DEF Exhausted, Return, TypeOK, Skipped, ReturnsFileOffset, NoOffset
<1>5. CASE UNCHANGED vars
  BY <1>5 DEF vars, TypeOK, Skipped, ReturnsFileOffset
<1> QED
  BY <1>1, <1>2, <1>3, <1>4, <1>5 DEF Next

(* For every set of tables and addresses, a call of resolve_mapping that   *)
(* returns has returned the offset the mappings give the address.          *)
THEOREM LoopReturnsFileOffset == Spec => []ReturnsFileOffset
<1>1. IInv => ReturnsFileOffset
  BY DEF IInv
<1> QED
  BY InitIInv, NextIInv, <1>1, PTL DEF Spec

(* Turns of the loop that are left, and the return.                        *)
StepsLeft == IF pc = "scan" THEN Cardinality(rest) + 1 ELSE 0

FiniteTable == IsFiniteSet(mapping_table) /\ rest \subseteq mapping_table

LEMMA NextFiniteTable == FiniteTable /\ [Next]_vars => FiniteTable'
BY DEF FiniteTable, Next, Break, Continue, Found, Exhausted, Return, vars

LEMMA StepsLeftIsNat == FiniteTable => StepsLeft \in Nat
BY FS_Subset, FS_CardinalityType DEF FiniteTable, StepsLeft

LEMMA StepsShrink == FiniteTable /\ [Next]_vars => [StepsLeft' < StepsLeft]_vars
<1> SUFFICES ASSUME FiniteTable, Next PROVE StepsLeft' < StepsLeft
  OBVIOUS
<1>1. IsFiniteSet(rest) /\ Cardinality(rest) \in Nat
  BY FS_Subset, FS_CardinalityType DEF FiniteTable
<1>2. pc = "scan" /\ StepsLeft = Cardinality(rest) + 1
  BY DEF Next, StepsLeft
<1>3. CASE Continue
  <2>1. PICK m \in rest : pc' = pc /\ rest' = rest \ {m}
    BY <1>3 DEF Continue, IsNext
  <2>2. Cardinality(rest') = Cardinality(rest) - 1
    BY <1>1, <2>1, FS_RemoveElement
  <2>3. StepsLeft' = Cardinality(rest') + 1
    BY <1>2, <2>1 DEF StepsLeft
  <2> QED
    BY <1>1, <1>2, <2>2, <2>3
<1>4. CASE Break \/ Found \/ Exhausted
  <2>1. StepsLeft' = 0
    BY <1>4 DEF Break, Found, Exhausted, Return, StepsLeft
  <2> QED
    BY <1>1, <1>2, <2>1
<1> QED
  BY <1>3, <1>4 DEF Next

(* On finite tables the loop cannot go on for ever: each turn leaves fewer *)
(* mappings.                                                               *)
THEOREM StepsRunOut ==
    ASSUME \A t \in Tables : IsFiniteSet(t)
    PROVE  Spec => [](StepsLeft \in Nat) /\ [][StepsLeft' < StepsLeft]_vars
<1>1. Init => FiniteTable
  BY DEF Init, FiniteTable
<1> QED
  BY <1>1, NextFiniteTable, StepsLeftIsNat, StepsShrink, PTL DEF Spec
=============================================================================
