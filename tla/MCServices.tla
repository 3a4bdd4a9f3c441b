----------------------------- MODULE MCServices -----------------------------
(***************************************************************************)
(* Small instances of every part of Services for TLC.                      *)
(***************************************************************************)
EXTENDS Services, TLC

CONSTANTS h1, h2, h3, h4, e1, e2, l1, l2, s1, v1

\* Seven edges, any of them missing, and a hub that may have no node: ways of
\* one to three edges, equal costs, a cycle, and a way that is shorter with
\* more edges.
Leads(from, to, km, hours) == [from |-> from, to |-> to, km |-> km, hours |-> hours]
MCGraphs ==
    [nodes : {Hubs, Hubs \ {h3}},
     edges : SUBSET {Leads(h1, h2, 1, 1), Leads(h1, h3, 5, 1), Leads(h2, h3, 2, 1),
                     Leads(h3, h2, 1, 1), Leads(h3, h4, 1, 1), Leads(h2, h4, 4, 1),
                     Leads(h4, h1, 1, 1)}]

MCSeedEdges == (e1 :> [from |-> h1, to |-> h2, active |-> TRUE]) @@ (e2 :> NoRow)
MCAsked == {<<h1, h2>>, <<h1, h3>>}
MCEnds == {<<h2, h3>>}

\* Places on a line.
MCDistance == [p \in Places \X Places |-> IF p[1] < p[2] THEN p[2] - p[1] ELSE p[1] - p[2]]
MCParcelLists == {<<>>, <<2>>, <<4, 3>>, <<2, 4, 2>>, <<4, 2, 3>>, <<3, 4, 4, 2>>, <<2, 3, 0, 4>>}

MCQuantities == {-1, 1, 2}

MCAttempts == (s1 :> 1) @@ (v1 :> 2)

\* The rows of init.sql, in thousands of rupiah, with a height of its own.
MCZoneOf == (l1 :> "Z1") @@ (l2 :> NotFound)
MCRates ==
    [k \in Zones \X Services |->
        IF k[2] = "REG" THEN [perKg |-> 10, minWeight |-> 1, maxWeight |-> 50,
                               maxLength |-> 100, maxWidth |-> 100, maxHeight |-> 5]
        ELSE NotFound]
MCWeights == {-1, 0, 1, 60}
MCSides == {0, 10, 120}
MCOrderWeights == {-5, 0, 4, 10, 25}

Symmetry == Permutations(Finds) \cup Permutations(EdgeUpdates)
=============================================================================
