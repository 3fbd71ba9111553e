--------------------------- MODULE ResolveMapping ---------------------------
(***************************************************************************)
(* One call of resolve_mapping as the loop it is: the table is scanned in  *)
(* set order, with the break, the continue and the return of the source.   *)
(* It shows that Resolve, which the other modules use for the whole call,  *)
(* is what the loop returns.                                               *)
(***************************************************************************)
EXTENDS MappingTable

CONSTANTS Tables,      \* the tables a call may meet
          Vaddrs       \* the addresses it may be asked for

ASSUME TablesAssumption ==
    /\ \A t \in Tables : t \subseteq Mapping /\ WellFormed(t)
    /\ Vaddrs \subseteq Nat

VARIABLES mapping_table, vaddr,
          rest,        \* the mappings the loop has not skipped
          pc, result

vars == <<mapping_table, vaddr, rest, pc, result>>

Init ==
    /\ mapping_table \in Tables
    /\ vaddr \in Vaddrs
    /\ rest = mapping_table
    /\ pc = "scan"
    /\ result = NoOffset

IsNext(m) == m \in rest /\ \A n \in rest : n = m \/ Precedes(m, n)

Return(offset) ==
    /\ pc' = "returned"
    /\ result' = offset
    /\ UNCHANGED <<mapping_table, vaddr, rest>>

(* Mutant: the end of the range where its start is meant.                  *)
BreakBeforeEnd == \E m \in rest : IsNext(m) /\ vaddr < m.end /\ Return(NoOffset)

Break == \E m \in rest : IsNext(m) /\ vaddr < m.begin /\ Return(NoOffset)

(* Mutant: the iterator stays where it is.                                 *)
ContinueInPlace ==
    \E m \in rest :
        /\ IsNext(m)
        /\ vaddr >= m.begin /\ vaddr >= m.end
        /\ UNCHANGED vars

Continue ==
    \E m \in rest :
        /\ IsNext(m)
        /\ vaddr >= m.begin /\ vaddr >= m.end
        /\ rest' = rest \ {m}
        /\ UNCHANGED <<mapping_table, vaddr, pc, result>>

Found ==
    \E m \in rest :
        /\ IsNext(m)
        /\ vaddr >= m.begin /\ vaddr < m.end
        /\ Return(OffsetIn(m, vaddr))

Exhausted == rest = {} /\ Return(NoOffset)

Next == pc = "scan" /\ (Break \/ Continue \/ Found \/ Exhausted)

Spec == Init /\ [][Next]_vars

(* The call runs on the translating thread until it returns. *)
FairSpec == Spec /\ WF_vars(Next)

-----------------------------------------------------------------------------
TypeOK ==
    /\ mapping_table \subseteq Mapping /\ WellFormed(mapping_table)
    /\ vaddr \in Nat
    /\ rest \subseteq mapping_table
    /\ pc \in {"scan", "returned"}
    /\ result \in Int

(* The loop returns the offset the kernel's mappings give the address, and *)
(* -1 only for an address no mapping covers: the early break of            *)
(* resolve_mapping never hides a later mapping.                            *)
ReturnsFileOffset ==
    pc = "returned" => result = FileOffset(mapping_table, vaddr)

(* "This should always succeed - it should not enter infinite loop". *)
AlwaysReturns == <>(pc = "returned")
=============================================================================
