------------------------------ MODULE RoadGraph ------------------------------
(***************************************************************************)
(* The road graph (app/services/graph/builder.py), a multigraph whose keys *)
(* are the segments of the table, and the simulation of a blockage         *)
(* (app/services/impact/isolation.py).                                     *)
(***************************************************************************)
EXTENDS Integers, FiniteSetsExt

CONSTANTS Segments, \* what road_network_edges may hold
          Ends,     \* [segments -> its two junctions, as a set]
          Reach     \* [segments -> kilometres from the point that is asked about]

Junctions(segments) == UNION {Ends[r] : r \in segments}

\* The parts when one more segment joins those it touches.
Joined(r, parts) ==
    LET touched == {part \in parts : part \cap Ends[r] # {}}
    IN  (parts \ touched) \cup {UNION touched}

\* nx.connected_components of the junctions in the graph.
Components(junctions, segments) == FoldSet(Joined, {{j} : j \in junctions}, segments)

\* build_local_subgraph, and the target that the callers add to it.  A graph without
\* any segment is not simulated, whatever the target.
Local(segments, radius) == {r \in segments : Reach[r] <= radius}
Subgraph(segments, radius, target) ==
    IF Local(segments, radius) = {} THEN {} ELSE Local(segments, radius) \cup {target}

\* Mutation: a simple graph, where parallel segments are one edge.
AfterInSimpleGraph(segments, target) == {r \in segments : Ends[r] # Ends[target]}
After(segments, target) == segments \ {target}

NotSimulated == [available |-> FALSE, bridge |-> FALSE, severity |-> 0]

\* simulate_blockage for every graph and what is left of it: the severity, in
\* hundredths, is 40 points for the parts there are more and 60 for the junctions of the
\* parts that are new.
Simulated == [graph \in SUBSET Segments |-> [left \in SUBSET Segments |->
    LET junctions == Junctions(graph)
        before == Components(junctions, graph)
        after == Components(junctions, left)
        parts == Cardinality(before)
        increase == Max({0, Cardinality(after) - parts})
        affected == Cardinality(UNION (after \ before))
        total == Cardinality(junctions)
    IN  IF graph = {} \/ ~ left \subseteq graph THEN NotSimulated
        ELSE [available |-> TRUE,
              bridge |-> Cardinality(after) > parts,
              severity |-> IF increase > 0 /\ affected > 0
                           THEN (2 * (4000 * Min({parts, increase}) * total + 6000 * affected * parts) + parts * total)
                                \div (2 * parts * total)
                           ELSE 0]]]

----------------------------------------------------------------------------
\* What the simulation is held against: a detour around a segment is a way between its
\* junctions that no bank of junctions cuts.
Cut(bank, r) == Ends[r] \cap bank # {} /\ ~ Ends[r] \subseteq bank

Detour == [graph \in SUBSET Segments |-> [r \in Segments |->
    \A bank \in SUBSET Junctions(graph) : Cut(bank, r) => \E other \in graph \ {r} : Cut(bank, other)]]
=============================================================================
