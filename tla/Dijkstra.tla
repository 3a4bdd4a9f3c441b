------------------------------ MODULE Dijkstra ------------------------------
(***************************************************************************)
(* routing-service: the search for the best route between two hubs, over   *)
(* the nodes and the active edges that GetActiveGraph read.  A hub may be  *)
(* on the heap more than once; entries that a better way has overtaken are *)
(* dropped when they come up.  The search stops when the destination comes *)
(* up, or with an empty heap; the route is then read backwards along prev. *)
(*                                                                         *)
(* Edges come from a SELECT without ORDER BY and equal costs leave the     *)
(* heap in any order, so both orders are free.  Kilometres and hours are   *)
(* whole numbers here; Alpha and Beta are not negative.                    *)
(***************************************************************************)
EXTENDS Integers, Sequences, FiniteSets

CONSTANTS
    Hubs,           \* hub ids
    Graphs,         \* the graphs that a search may be given
    Alpha, Beta,    \* weights of a kilometre and of an hour
    Infinity,       \* the distance of a hub that is not reached
    NoEdge          \* no edge leads to the hub yet

Edge == [from : Hubs, to : Hubs, km : Nat \ {0}, hours : Nat \ {0}]

\* The nodes are read before the edges, so an edge may lead to a hub that is
\* not among the nodes.
Graph == [nodes : SUBSET Hubs, edges : SUBSET Edge]

ASSUME DijkstraAssumption ==
    /\ Hubs # {}
    /\ Graphs \subseteq Graph
    /\ \A g \in Graphs : IsFiniteSet(g.nodes)
    /\ Alpha \in Nat
    /\ Beta \in Nat
    /\ Infinity \notin Nat
    /\ NoEdge \notin Edge

VARIABLES
    graph, origin, destination,     \* the arguments
    dist,       \* dist[h] : cost of the best way to h found so far
    prev,       \* prev[h] : the last edge of that way
    heap,       \* entries of a hub and a cost
    current,    \* the entry whose edges are being relaxed
    todo,       \* the edges of its hub that are left
    phase,      \* "idle", "search", "rejected", "none" or "found"
    cursor,     \* where the reading of the route has come to
    route,      \* the edges from there to the destination
    totals,     \* their kilometres and hours
    settled     \* history: the hubs whose entry came up and was not overtaken

routeVars == <<cursor, route, totals>>
searchVars == <<graph, origin, destination, dist, prev, heap, current, todo, phase, routeVars,
                settled>>

Entry == [hub : Hubs, cost : Nat]

EdgeWeight(e) == Alpha * e.km + Beta * e.hours

Adjacent(h) == {e \in graph.edges : e.from = h /\ e.to \in graph.nodes}

NoGraph == [nodes |-> {}, edges |-> {}]

SearchInit ==
    /\ graph = NoGraph
    /\ origin = (CHOOSE h \in Hubs : TRUE) /\ destination = origin
    /\ dist = [h \in Hubs |-> Infinity]
    /\ prev = [h \in Hubs |-> NoEdge]
    /\ heap = {}
    /\ current = [hub |-> origin, cost |-> 0]
    /\ todo = {}
    /\ phase = "idle"
    /\ cursor = origin /\ route = <<>> /\ totals = [km |-> 0, hours |-> 0]
    /\ settled = {}

\* An origin or a destination that is not a node is refused.
Known(g, from, to) == {from, to} \subseteq g.nodes

Call(g, from, to) ==
    /\ phase = "idle"
    /\ graph' = g /\ origin' = from /\ destination' = to
    /\ phase' = IF Known(g, from, to) THEN "search" ELSE "rejected"
    /\ dist' = [h \in Hubs |-> IF h = from THEN 0 ELSE Infinity]
    /\ heap' = {[hub |-> from, cost |-> 0]}
    /\ current' = [hub |-> from, cost |-> 0]
    /\ cursor' = to
    /\ UNCHANGED <<prev, todo, route, totals, settled>>

\* Mutant: the comparison of the heap is the wrong way round.
Pop_Costliest(item) ==
    /\ phase = "search" /\ todo = {}
    /\ item \in heap
    /\ \A other \in heap : item.cost >= other.cost
    /\ heap' = heap \ {item}
    /\ UNCHANGED <<graph, origin, destination, dist, prev, routeVars>>
    /\ \/ item.cost > dist[item.hub] /\ UNCHANGED <<current, todo, phase, settled>>
       \/ /\ item.cost <= dist[item.hub] /\ item.hub = destination
          /\ phase' = "found" /\ UNCHANGED <<current, todo, settled>>
       \/ /\ item.cost <= dist[item.hub] /\ item.hub # destination
          /\ current' = item /\ todo' = Adjacent(item.hub)
          /\ settled' = settled \cup {item.hub}
          /\ UNCHANGED phase

\* The entry of least cost leaves the heap.
Pop(item) ==
    /\ phase = "search" /\ todo = {}
    /\ item \in heap
    /\ \A other \in heap : item.cost <= other.cost
    /\ heap' = heap \ {item}
    /\ UNCHANGED <<graph, origin, destination, dist, prev, routeVars>>
    /\ \/ \* overtaken
          /\ item.cost > dist[item.hub]
          /\ UNCHANGED <<current, todo, phase, settled>>
       \/ \* the destination: stop
          /\ item.cost <= dist[item.hub] /\ item.hub = destination
          /\ phase' = "found"
          /\ UNCHANGED <<current, todo, settled>>
       \/ /\ item.cost <= dist[item.hub] /\ item.hub # destination
          /\ current' = item
          /\ todo' = Adjacent(item.hub)
          /\ settled' = settled \cup {item.hub}
          /\ UNCHANGED phase

Shorter(cost, h) == dist[h] = Infinity \/ cost < dist[h]

Relax(e) ==
    LET cost == current.cost + EdgeWeight(e)
    IN  /\ e \in todo
        /\ todo' = todo \ {e}
        /\ IF Shorter(cost, e.to)
           THEN /\ dist' = [dist EXCEPT ![e.to] = cost]
                /\ prev' = [prev EXCEPT ![e.to] = e]
                /\ heap' = heap \cup {[hub |-> e.to, cost |-> cost]}
           ELSE UNCHANGED <<dist, prev, heap>>
        /\ UNCHANGED <<graph, origin, destination, current, phase, routeVars, settled>>

\* Nothing is left to look at: there is a route if the destination was reached.
Exhaust ==
    /\ phase = "search" /\ todo = {} /\ heap = {}
    /\ phase' = IF dist[destination] = Infinity THEN "none" ELSE "found"
    /\ UNCHANGED <<graph, origin, destination, dist, prev, heap, current, todo, routeVars, settled>>

\* The route is complete at the origin, and would end before it where prev does.
\* The code adds up the totals in a loop of their own.
Complete == phase = "found" /\ (cursor = origin \/ prev[cursor] = NoEdge)

Backtrack ==
    /\ phase = "found" /\ ~Complete
    /\ cursor' = prev[cursor].from
    /\ route' = <<prev[cursor]>> \o route
    /\ totals' = [km |-> totals.km + prev[cursor].km,
                  hours |-> totals.hours + prev[cursor].hours]
    /\ UNCHANGED <<graph, origin, destination, dist, prev, heap, current, todo, phase, settled>>

SearchNext ==
    \/ \E g \in Graphs, from, to \in Hubs : Call(g, from, to)
    \/ \E item \in heap : Pop(item)
    \/ \E e \in todo : Relax(e)
    \/ Exhaust
    \/ Backtrack

SearchSpec == SearchInit /\ [][SearchNext]_searchVars
-----------------------------------------------------------------------------
(* Properties                                                               *)

SearchTypeOK ==
    /\ graph \in Graph
    /\ {origin, destination} \subseteq Hubs
    /\ dist \in [Hubs -> Nat \cup {Infinity}]
    /\ prev \in [Hubs -> Edge \cup {NoEdge}]
    /\ heap \subseteq Entry
    /\ current \in Entry
    /\ todo \subseteq Edge
    /\ phase \in {"idle", "search", "rejected", "none", "found"}
    /\ cursor \in Hubs
    /\ route \in Seq(Edge)
    /\ totals \in [km : Nat, hours : Nat]
    /\ settled \subseteq Hubs

\* The edges that the search may use.
Usable == {e \in graph.edges : {e.from, e.to} \subseteq graph.nodes}

\* The certificate of a shortest route: when the destination comes up, no hub
\* that was not settled is nearer than it, no edge of a settled hub leads
\* anywhere cheaper than the distance found, and the way to each hub that was
\* reached goes over a settled hub and costs what dist says.
Certificate ==
    phase = "found" =>
        /\ dist[origin] = 0
        /\ \A e \in Usable : e.from \in settled =>
              /\ dist[e.to] # Infinity
              /\ dist[e.to] <= dist[e.from] + EdgeWeight(e)
        /\ \A h \in Hubs \ settled :
              dist[h] = Infinity \/ dist[destination] <= dist[h]
        /\ \A h \in Hubs \ {origin} : dist[h] # Infinity =>
              /\ prev[h] \in Usable /\ prev[h].to = h /\ prev[h].from \in settled
              /\ dist[h] = dist[prev[h].from] + EdgeWeight(prev[h])

\* The ways from the origin to the destination that are no longer than ways
\* that pass no hub twice: the search is compared with all of them.
IsWay(p) ==
    /\ p = <<>> => origin = destination
    /\ p # <<>> => p[1].from = origin /\ p[Len(p)].to = destination
    /\ \A i \in 1 .. Len(p) - 1 : p[i].to = p[i + 1].from

Ways ==
    {p \in UNION {[1 .. n -> Usable] : n \in 0 .. Cardinality(graph.nodes) - 1} : IsWay(p)}

Cost(p) ==
    LET upTo[i \in 0 .. Len(p)] == IF i = 0 THEN 0 ELSE upTo[i - 1] + EdgeWeight(p[i])
    IN  upTo[Len(p)]

\* The search finds a route exactly if there is a way, the route is a way, none
\* costs less, and the totals of the answer are those of its edges.
RouteIsShortest ==
    /\ phase = "none" => Ways = {}
    /\ Complete =>
          /\ route \in Ways
          /\ \A p \in Ways : Cost(route) <= Cost(p)
          /\ Alpha * totals.km + Beta * totals.hours = Cost(route)

\* The answer of the search is the best of all ways, and the search leaves
\* behind what shows it without looking at them.
SearchIsCorrect == RouteIsShortest /\ Certificate
=============================================================================
