-------------------------- MODULE MCResolveMapping --------------------------
(* Every well-formed table of at most three mappings over addresses 0..5. *)
EXTENDS ResolveMapping, FiniteSets

MCTarget == <<"target">>
MCMappings == {m \in [begin : 0 .. 4, end : 1 .. 5, offset : {0, 2}] : m.begin < m.end}
Disjoint(m, n) == m.end <= n.begin \/ n.end <= m.begin
MCPairs == {p \in MCMappings \X MCMappings : p[1] = p[2] \/ Disjoint(p[1], p[2])}
Fits(m, p) == m \in {p[1], p[2]} \/ (Disjoint(m, p[1]) /\ Disjoint(m, p[2]))
MCTables ==
    {{}} \cup {{p[1], p[2], m} : <<p, m>> \in {q \in MCPairs \X MCMappings : Fits(q[2], q[1])}}
MCVaddrs == 0 .. 5
=============================================================================
