--------------------------- MODULE DijkstraProofs ---------------------------
(***************************************************************************)
(* The search of routing-service finds the best route in every graph: its  *)
(* certificate is an invariant, and the certificate rules out a better way *)
(* of any length.                                                          *)
(***************************************************************************)
EXTENDS Dijkstra, FiniteSetTheorems, SequenceTheorems, TLAPS

Reached(h) == dist[h] # Infinity

\* EdgeWeight as a function: the provers need not look into its products.
Weight == [e \in Edge |-> EdgeWeight(e)]

Started == phase \in {"search", "none", "found"}

\* Nothing is settled before the search starts, and no edge is left after it.
BeforeAndAfter ==
    /\ phase = "idle" => settled = {}
    /\ phase # "search" => todo = {}

\* The origin is reached at no cost, and whatever is reached is a node.
OriginReached ==
    Started => /\ dist[origin] = 0
               /\ \A h \in Hubs : Reached(h) => h \in graph.nodes

\* Settled hubs were reached, are not the destination, and are no farther than
\* what is on the heap or being relaxed.
SettledFirst ==
    \A s \in settled :
        /\ Reached(s) /\ s # destination
        /\ \A item \in heap : dist[s] <= item.cost
        /\ todo # {} => dist[s] <= current.cost

\* The edges being relaxed are those of a settled hub, at its distance.
TodoFromCurrent ==
    \A e \in todo : /\ e \in Usable /\ e.from = current.hub
                    /\ current.hub \in settled /\ dist[current.hub] = current.cost

\* A hub on the heap was reached at no more than the cost of its entry, and a
\* hub that was reached and is not settled is on the heap at its distance.
HeapHoldsFrontier ==
    phase = "search" =>
        /\ \A item \in heap : Reached(item.hub) /\ dist[item.hub] <= item.cost
        /\ \A h \in Hubs \ settled : Reached(h) => [hub |-> h, cost |-> dist[h]] \in heap

\* No edge of a settled hub is left that would lead anywhere cheaper.
SettledRelaxed ==
    Started => \A e \in Usable \ todo : e.from \in settled =>
                   Reached(e.to) /\ dist[e.to] <= dist[e.from] + Weight[e]

\* The way to a hub comes over a settled one and costs what dist says.
WaysCount ==
    Started => \A h \in Hubs \ {origin} : Reached(h) =>
        /\ prev[h] \in Usable /\ prev[h].to = h /\ prev[h].from \in settled
        /\ dist[h] = dist[prev[h].from] + Weight[prev[h]]

\* When the search is over, no hub outside the settled ones is nearer than the
\* destination; without a route there is none that was reached.
NoneNearer ==
    /\ phase = "found" => Reached(destination)
    /\ phase \in {"found", "none"} => \A h \in Hubs \ settled : Reached(h) =>
           phase = "found" /\ dist[destination] <= dist[h]

SearchInv ==
    /\ SearchTypeOK
    /\ BeforeAndAfter
    /\ OriginReached
    /\ SettledFirst
    /\ TodoFromCurrent
    /\ HeapHoldsFrontier
    /\ SettledRelaxed
    /\ WaysCount
    /\ NoneNearer
-----------------------------------------------------------------------------
LEMMA WeightIsNat == \A e \in Edge : Weight[e] = EdgeWeight(e) /\ Weight[e] \in Nat
  <1>1. \A m, n \in Nat : m * n \in Nat
    OBVIOUS
  <1>2. \A e \in Edge : EdgeWeight(e) \in Nat
    <2>1. SUFFICES ASSUME NEW e \in Edge PROVE EdgeWeight(e) \in Nat
      OBVIOUS
    <2>2. e.km \in Nat /\ e.hours \in Nat /\ Alpha \in Nat /\ Beta \in Nat
      BY DijkstraAssumption DEF Edge
    <2>3. Alpha * e.km \in Nat /\ Beta * e.hours \in Nat
      BY <1>1, <2>2
    <2>4. QED
      BY <2>3 DEF EdgeWeight
  <1>3. QED
    BY <1>2 DEF Weight

LEMMA Distributes ==
    ASSUME NEW a \in Nat, NEW x \in Nat, NEW u \in Nat
    PROVE  a * (x + u) = a * x + a * u /\ a * x \in Nat /\ a * u \in Nat
  OBVIOUS

LEMMA NoMore ==
    ASSUME NEW x \in Nat, NEW y \in Nat, NEW a \in Nat, NEW b \in Nat, NEW w \in Nat,
           y <= x + w, x <= a, b = a + w
    PROVE  y <= b
  OBVIOUS

LEMMA UsableAreEdges ==
    ASSUME SearchTypeOK
    PROVE  \A e \in Usable : /\ e \in Edge /\ e.from \in Hubs /\ e.to \in Hubs
                             /\ {e.from, e.to} \subseteq graph.nodes
  BY DEF Usable, SearchTypeOK, Graph, Edge

LEMMA InitSearches == SearchInit => SearchInv
  <1> SUFFICES ASSUME SearchInit PROVE SearchInv
    OBVIOUS
  <1>1. origin \in Hubs
    BY DijkstraAssumption DEF SearchInit
  <1>2. SearchTypeOK
    BY <1>1, EmptySeq DEF SearchInit, SearchTypeOK, NoGraph, Graph, Entry
  <1>3. QED
    BY <1>2 DEF SearchInit, SearchInv, BeforeAndAfter, Started, OriginReached, SettledFirst,
                TodoFromCurrent, HeapHoldsFrontier, SettledRelaxed, WaysCount, NoneNearer

LEMMA CallSearches ==
    ASSUME SearchInv, NEW g \in Graphs, NEW from \in Hubs, NEW to \in Hubs, Call(g, from, to)
    PROVE  SearchInv'
  <1>0. /\ phase = "idle" /\ settled = {} /\ todo = {}
        /\ graph' = g /\ origin' = from /\ destination' = to
        /\ phase' = IF {from, to} \subseteq g.nodes THEN "search" ELSE "rejected"
        /\ dist' = [h \in Hubs |-> IF h = from THEN 0 ELSE Infinity]
        /\ heap' = {[hub |-> from, cost |-> 0]}
        /\ current' = [hub |-> from, cost |-> 0]
        /\ cursor' = to
        /\ UNCHANGED <<prev, todo, route, totals, settled>>
    BY DEF Call, Known, SearchInv, BeforeAndAfter
  <1>1. SearchTypeOK'
    BY <1>0, DijkstraAssumption DEF SearchInv, SearchTypeOK, Entry
  <1>2. \A h \in Hubs : Reached(h)' => h = from
    BY <1>0 DEF Reached
  <1>3. OriginReached'
    BY <1>0, <1>2 DEF OriginReached, Started
  <1>4. HeapHoldsFrontier'
    <2>1. dist'[from] = 0 /\ 0 # Infinity
      BY <1>0, DijkstraAssumption
    <2>2. QED
      BY <1>0, <1>2, <2>1 DEF HeapHoldsFrontier, Reached
  <1>5. BeforeAndAfter' /\ SettledFirst' /\ TodoFromCurrent' /\ SettledRelaxed' /\ NoneNearer'
    BY <1>0 DEF BeforeAndAfter, SettledFirst, TodoFromCurrent, SettledRelaxed, NoneNearer
  <1>6. WaysCount'
    BY <1>0, <1>2 DEF WaysCount
  <1>7. QED
    BY <1>1, <1>3, <1>4, <1>5, <1>6 DEF SearchInv

LEMMA PopSearches ==
    ASSUME SearchInv, NEW item \in heap, Pop(item)
    PROVE  SearchInv'
  <1>0. /\ phase = "search" /\ todo = {} /\ heap' = heap \ {item}
        /\ \A other \in heap : item.cost <= other.cost
        /\ UNCHANGED <<graph, origin, destination, dist, prev, cursor, route, totals>>
    BY DEF Pop, routeVars
  <1>1. /\ item.hub \in Hubs /\ item.cost \in Nat
        /\ \A other \in heap : other.hub \in Hubs /\ other.cost \in Nat
        /\ \A h \in Hubs : Reached(h) => dist[h] \in Nat
    BY DEF SearchInv, SearchTypeOK, Entry, Reached
  <1>2. Reached(item.hub) /\ dist[item.hub] <= item.cost
    BY <1>0 DEF SearchInv, HeapHoldsFrontier
  <1>3. Usable' = Usable /\ \A h : Reached(h)' = Reached(h)
    BY <1>0 DEF Usable, Reached
  <1>4. CASE item.cost > dist[item.hub]
    <2>1. UNCHANGED <<current, todo, phase, settled>>
      BY <1>1, <1>2, <1>4 DEF Pop
    <2>2. SearchTypeOK'
      BY <1>0, <2>1 DEF SearchInv, SearchTypeOK
    <2>3. HeapHoldsFrontier'
      BY <1>0, <1>1, <1>3, <1>4, <2>1 DEF SearchInv, HeapHoldsFrontier
    <2>4. BeforeAndAfter' /\ OriginReached' /\ TodoFromCurrent' /\ SettledRelaxed' /\ WaysCount'
          /\ NoneNearer'
      BY <1>0, <1>3, <2>1
      DEF SearchInv, BeforeAndAfter, OriginReached, TodoFromCurrent, SettledRelaxed, WaysCount,
          NoneNearer, Started
    <2>5. SettledFirst'
      BY <1>0, <1>3, <2>1 DEF SearchInv, SettledFirst
    <2>6. QED
      BY <2>2, <2>3, <2>4, <2>5 DEF SearchInv
  <1>5. CASE item.cost <= dist[item.hub] /\ item.hub = destination
    <2>1. phase' = "found" /\ UNCHANGED <<current, todo, settled>>
      BY <1>1, <1>2, <1>5 DEF Pop
    <2>2. SearchTypeOK'
      BY <1>0, <2>1 DEF SearchInv, SearchTypeOK
    <2>3. NoneNearer'
      <3>1. dist[destination] = item.cost
        BY <1>1, <1>2, <1>5
      <3>2. \A h \in Hubs \ settled : Reached(h) => item.cost <= dist[h]
        <4>1. SUFFICES ASSUME NEW h \in Hubs \ settled, Reached(h) PROVE item.cost <= dist[h]
          OBVIOUS
        <4>2. [hub |-> h, cost |-> dist[h]] \in heap
          BY <1>0, <4>1 DEF SearchInv, HeapHoldsFrontier
        <4>3. QED
          BY <1>0, <4>2
      <3>3. QED
        BY <1>0, <1>2, <1>3, <1>5, <2>1, <3>1, <3>2 DEF NoneNearer
    <2>4. BeforeAndAfter' /\ OriginReached' /\ TodoFromCurrent' /\ HeapHoldsFrontier'
          /\ SettledRelaxed' /\ WaysCount'
      BY <1>0, <1>3, <2>1
      DEF SearchInv, BeforeAndAfter, OriginReached, TodoFromCurrent, HeapHoldsFrontier,
          SettledRelaxed, WaysCount, Started
    <2>5. SettledFirst'
      BY <1>0, <1>3, <2>1 DEF SearchInv, SettledFirst
    <2>6. QED
      BY <2>2, <2>3, <2>4, <2>5 DEF SearchInv
  <1>6. CASE item.cost <= dist[item.hub] /\ item.hub # destination
    <2>1. /\ current' = item /\ todo' = Adjacent(item.hub)
          /\ settled' = settled \cup {item.hub} /\ phase' = phase
      BY <1>1, <1>2, <1>6 DEF Pop
    <2>2. dist[item.hub] = item.cost
      BY <1>1, <1>2, <1>6
    <2>3. Adjacent(item.hub) = {e \in Usable : e.from = item.hub}
      BY <1>0, <1>1, <1>2 DEF Adjacent, Usable, SearchInv, OriginReached, Started
    <2>4. SearchTypeOK'
      BY <1>0, <1>1, <2>1 DEF SearchInv, SearchTypeOK, Adjacent, Graph
    <2>5. BeforeAndAfter' /\ OriginReached' /\ NoneNearer'
      BY <1>0, <1>3, <2>1 DEF SearchInv, BeforeAndAfter, OriginReached, Started, NoneNearer
    <2>6. SettledFirst'
      BY <1>0, <1>2, <1>3, <1>6, <2>1, <2>2 DEF SearchInv, SettledFirst
    <2>7. TodoFromCurrent'
      BY <1>0, <1>3, <2>1, <2>2, <2>3 DEF TodoFromCurrent
    <2>8. HeapHoldsFrontier'
      BY <1>0, <1>1, <1>3, <2>1 DEF SearchInv, HeapHoldsFrontier
    <2>9. SettledRelaxed'
      BY <1>0, <1>3, <2>1, <2>3 DEF SearchInv, SettledRelaxed, Started
    <2>10. WaysCount'
      BY <1>0, <1>3, <2>1 DEF SearchInv, WaysCount, Started
    <2>11. QED
      BY <2>4, <2>5, <2>6, <2>7, <2>8, <2>9, <2>10 DEF SearchInv
  <1>7. QED
    BY <1>1, <1>2, <1>4, <1>5, <1>6

LEMMA RelaxSearches ==
    ASSUME SearchInv, NEW e \in todo, Relax(e)
    PROVE  SearchInv'
  <1> DEFINE cost == current.cost + Weight[e]
             to == e.to
  <1>0. /\ phase = "search" /\ todo' = todo \ {e}
        /\ UNCHANGED <<graph, origin, destination, current, phase, cursor, route, totals, settled>>
    BY DEF Relax, routeVars, SearchInv, BeforeAndAfter
  <1>1. /\ e \in Usable /\ e.from = current.hub /\ current.hub \in settled
        /\ dist[current.hub] = current.cost
    BY DEF SearchInv, TodoFromCurrent
  <1>2. /\ e \in Edge /\ to \in Hubs /\ to \in graph.nodes
        /\ Weight[e] = EdgeWeight(e) /\ Weight[e] \in Nat
        /\ current.cost \in Nat /\ cost \in Nat
    BY <1>1, UsableAreEdges, WeightIsNat DEF SearchInv, SearchTypeOK, Entry
  <1>3. Usable' = Usable
    BY <1>0 DEF Usable
  <1>4. \A h \in Hubs : Reached(h) => dist[h] \in Nat
    BY DEF SearchInv, SearchTypeOK, Reached
  <1>5. \A s \in settled : Reached(s) /\ dist[s] \in Nat /\ dist[s] <= current.cost
                           /\ dist[s] <= cost
    BY <1>2, <1>4 DEF SearchInv, SettledFirst, SearchTypeOK
  <1>6. CASE ~Shorter(cost, to)
    <2>1. UNCHANGED <<dist, prev, heap>>
      BY <1>2, <1>6 DEF Relax
    <2>2. \A h : Reached(h)' = Reached(h)
      BY <2>1 DEF Reached
    <2>3. SearchTypeOK'
      BY <1>0, <2>1 DEF SearchInv, SearchTypeOK
    <2>4. SettledRelaxed'
      <3>1. Reached(to) /\ dist[to] <= dist[e.from] + Weight[e]
        BY <1>1, <1>2, <1>4, <1>6 DEF Shorter, Reached
      <3>2. QED
        BY <1>0, <1>3, <2>1, <2>2, <3>1 DEF SearchInv, SettledRelaxed, Started
    <2>5. BeforeAndAfter' /\ OriginReached' /\ TodoFromCurrent' /\ HeapHoldsFrontier'
          /\ WaysCount' /\ NoneNearer' /\ SettledFirst'
      BY <1>0, <1>3, <2>1, <2>2
      DEF SearchInv, BeforeAndAfter, OriginReached, TodoFromCurrent, HeapHoldsFrontier,
          WaysCount, NoneNearer, SettledFirst, Started
    <2>6. QED
      BY <2>3, <2>4, <2>5 DEF SearchInv
  <1>7. CASE Shorter(cost, to)
    <2>1. /\ dist' = [dist EXCEPT ![to] = cost]
          /\ prev' = [prev EXCEPT ![to] = e]
          /\ heap' = heap \cup {[hub |-> to, cost |-> cost]}
      BY <1>2, <1>7 DEF Relax
    <2>2. /\ dist'[to] = cost /\ prev'[to] = e
          /\ \A h \in Hubs \ {to} : dist'[h] = dist[h] /\ prev'[h] = prev[h]
      BY <1>2, <2>1 DEF SearchInv, SearchTypeOK
    <2>3. to \notin settled
      BY <1>2, <1>5, <1>7 DEF Shorter, Reached
    <2>4. to # origin
      <3>1. dist[origin] = 0 /\ 0 # Infinity
        BY <1>0, DijkstraAssumption DEF SearchInv, OriginReached, Started
      <3>2. QED
        BY <1>2, <1>7, <3>1 DEF Shorter
    <2>5. /\ \A h \in Hubs \ {to} : Reached(h)' = Reached(h)
          /\ Reached(to)'
      BY <1>2, <2>2, DijkstraAssumption DEF Reached
    <2>6. Reached(to) => cost < dist[to]
      BY <1>7 DEF Shorter, Reached
    <2>7. SearchTypeOK'
      BY <1>0, <1>2, <2>1 DEF SearchInv, SearchTypeOK, Entry
    <2>8. settled \subseteq Hubs /\ origin \in Hubs
      BY DEF SearchInv, SearchTypeOK
    <2>9. BeforeAndAfter' /\ NoneNearer'
      BY <1>0 DEF SearchInv, BeforeAndAfter, NoneNearer
    <2>10. OriginReached'
      BY <1>0, <1>2, <2>2, <2>4, <2>5, <2>8 DEF SearchInv, OriginReached, Started
    <2>11. SettledFirst'
      <3>1. \A s \in settled : Reached(s)' /\ dist'[s] = dist[s]
        BY <1>5, <2>2, <2>3, <2>5, <2>8
      <3>2. \A item \in heap' : item \in heap \/ item.cost = cost
        BY <2>1
      <3>3. QED
        BY <1>0, <1>5, <3>1, <3>2 DEF SearchInv, SettledFirst
    <2>12. TodoFromCurrent'
      BY <1>0, <1>3, <2>2, <2>3, <2>8 DEF SearchInv, TodoFromCurrent
    <2>13. HeapHoldsFrontier'
      <3>1. ASSUME NEW item \in heap' PROVE Reached(item.hub)' /\ dist'[item.hub] <= item.cost
        <4>1. CASE item \in heap /\ item.hub # to
          BY <1>0, <2>2, <2>5, <4>1 DEF SearchInv, HeapHoldsFrontier, SearchTypeOK, Entry
        <4>2. CASE item \in heap /\ item.hub = to
          <5>1. Reached(to) /\ dist[to] <= item.cost /\ item.cost \in Nat
            BY <1>0, <4>2 DEF SearchInv, HeapHoldsFrontier, SearchTypeOK, Entry
          <5>2. dist[to] \in Nat /\ cost < dist[to]
            BY <1>2, <1>4, <2>6, <5>1
          <5>3. QED
            BY <1>2, <2>2, <2>5, <4>2, <5>1, <5>2
        <4>3. CASE item = [hub |-> to, cost |-> cost]
          BY <1>2, <2>2, <2>5, <4>3
        <4>4. QED
          BY <2>1, <4>1, <4>2, <4>3
      <3>2. ASSUME NEW h \in Hubs \ settled, Reached(h)'
            PROVE  [hub |-> h, cost |-> dist'[h]] \in heap'
        <4>1. CASE h = to
          BY <2>1, <2>2, <4>1
        <4>2. CASE h # to
          BY <1>0, <2>1, <2>2, <2>5, <3>2, <4>2 DEF SearchInv, HeapHoldsFrontier
        <4>3. QED
          BY <4>1, <4>2
      <3>3. QED
        BY <1>0, <3>1, <3>2 DEF HeapHoldsFrontier
    <2>14. SettledRelaxed'
      <3>1. SUFFICES ASSUME NEW d \in Usable, d \notin todo \/ d = e, d.from \in settled
                     PROVE  Reached(d.to)' /\ dist'[d.to] <= dist'[d.from] + Weight[d]
        BY <1>0, <1>3 DEF SettledRelaxed
      <3>2. /\ d \in Edge /\ d.to \in Hubs /\ d.from \in Hubs /\ Weight[d] \in Nat
            /\ dist'[d.from] = dist[d.from] /\ dist[d.from] \in Nat
        BY <1>5, <2>2, <2>3, <3>1, UsableAreEdges, WeightIsNat DEF SearchInv
      <3>3. CASE d = e
        BY <1>1, <1>2, <2>2, <2>5, <3>2, <3>3
      <3>4. CASE d # e
        <4>1. Reached(d.to) /\ dist[d.to] <= dist[d.from] + Weight[d] /\ dist[d.to] \in Nat
          BY <1>0, <1>4, <3>1, <3>2, <3>4 DEF SearchInv, SettledRelaxed, Started
        <4>2. CASE d.to # to
          BY <2>2, <2>5, <3>2, <4>1, <4>2
        <4>3. CASE d.to = to
          BY <1>2, <2>2, <2>5, <2>6, <3>2, <4>1, <4>3
        <4>4. QED
          BY <4>2, <4>3
      <3>5. QED
        BY <3>3, <3>4
    <2>15. WaysCount'
      <3>1. SUFFICES ASSUME NEW h \in Hubs \ {origin}, Reached(h)'
                     PROVE  /\ prev'[h] \in Usable /\ prev'[h].to = h /\ prev'[h].from \in settled
                            /\ dist'[h] = dist'[prev'[h].from] + Weight[prev'[h]]
        BY <1>0, <1>3 DEF WaysCount
      <3>2. CASE h = to
        BY <1>1, <2>2, <2>3, <2>8, <3>2
      <3>3. CASE h # to
        <4>1. /\ prev[h] \in Usable /\ prev[h].to = h /\ prev[h].from \in settled
              /\ dist[h] = dist[prev[h].from] + Weight[prev[h]]
          BY <1>0, <2>5, <3>1, <3>3 DEF SearchInv, WaysCount, Started
        <4>2. QED
          BY <2>2, <2>3, <2>8, <3>3, <4>1
      <3>4. QED
        BY <3>2, <3>3
    <2>16. QED
      BY <2>7, <2>9, <2>10, <2>11, <2>12, <2>13, <2>14, <2>15 DEF SearchInv
  <1>8. QED
    BY <1>6, <1>7

LEMMA ExhaustSearches ==
    ASSUME SearchInv, Exhaust
    PROVE  SearchInv'
  <1>0. /\ phase = "search" /\ todo = {} /\ heap = {} /\ phase' \in {"none", "found"}
        /\ phase' = IF dist[destination] = Infinity THEN "none" ELSE "found"
        /\ UNCHANGED <<graph, origin, destination, dist, prev, heap, current, todo,
                      cursor, route, totals, settled>>
    BY DEF Exhaust, routeVars
  <1>1. Usable' = Usable /\ \A h : Reached(h)' = Reached(h)
    BY <1>0 DEF Usable, Reached
  <1>2. \A h \in Hubs \ settled : ~Reached(h)
    BY <1>0 DEF SearchInv, HeapHoldsFrontier
  <1>3. SearchTypeOK'
    BY <1>0 DEF SearchInv, SearchTypeOK
  <1>4. NoneNearer'
    BY <1>0, <1>1, <1>2 DEF NoneNearer, Reached
  <1>5. QED
    BY <1>0, <1>1, <1>3, <1>4
    DEF SearchInv, BeforeAndAfter, OriginReached, SettledFirst, TodoFromCurrent,
        HeapHoldsFrontier, SettledRelaxed, WaysCount, Started

LEMMA BacktrackSearches ==
    ASSUME SearchInv, Backtrack
    PROVE  SearchInv'
  <1>1. /\ phase = "found" /\ cursor # origin /\ prev[cursor] # NoEdge
        /\ cursor' = prev[cursor].from
        /\ route' = <<prev[cursor]>> \o route
        /\ totals' = [km |-> totals.km + prev[cursor].km,
                      hours |-> totals.hours + prev[cursor].hours]
        /\ UNCHANGED <<graph, origin, destination, dist, prev, heap, current, todo, phase, settled>>
    BY DEF Backtrack, Complete
  <1>2. /\ prev[cursor] \in Edge /\ prev[cursor].from \in Hubs
        /\ prev[cursor].km \in Nat /\ prev[cursor].hours \in Nat
    BY <1>1 DEF SearchInv, SearchTypeOK, Edge
  <1>3. route' \in Seq(Edge)
    <2>1. <<prev[cursor]>> \in Seq(Edge)
      BY <1>2
    <2>2. QED
      BY <1>1, <2>1, ConcatProperties DEF SearchInv, SearchTypeOK
  <1>4. totals' \in [km : Nat, hours : Nat]
    BY <1>1, <1>2 DEF SearchInv, SearchTypeOK
  <1>5. SearchTypeOK'
    BY <1>1, <1>2, <1>3, <1>4 DEF SearchInv, SearchTypeOK
  <1>6. QED
    BY <1>1, <1>5
    DEF SearchInv, BeforeAndAfter, OriginReached, SettledFirst, TodoFromCurrent,
        HeapHoldsFrontier, SettledRelaxed, WaysCount, NoneNearer, Started, Reached, Usable

LEMMA StepsSearch ==
    ASSUME SearchInv, [SearchNext]_searchVars
    PROVE  SearchInv'
  <1>1. CASE UNCHANGED searchVars
    BY <1>1 DEF searchVars, routeVars, SearchInv, SearchTypeOK, BeforeAndAfter, OriginReached, SettledFirst,
                TodoFromCurrent, HeapHoldsFrontier, SettledRelaxed, WaysCount, NoneNearer,
                Started, Reached, Usable
  <1>2. CASE SearchNext
    BY <1>2, CallSearches, PopSearches, RelaxSearches, ExhaustSearches, BacktrackSearches
       DEF SearchNext
  <1>3. QED
    BY <1>1, <1>2

-----------------------------------------------------------------------------
(* The way back                                                             *)

\* The graph has finitely many nodes: the route has a length to be compared with.
GraphFinite == IsFiniteSet(graph.nodes)

\* A hub that was settled has left the heap, so none is settled twice.
SettledOnce == \A s \in settled : [hub |-> s, cost |-> dist[s]] \notin heap

\* Each settled hub was settled after the one that prev leads it back to, also
\* if the edge between them weighs nothing.
Ranked ==
    \E n \in Nat, rank \in [Hubs -> Nat] : \A h \in settled :
        /\ rank[h] < n
        /\ h # origin => prev[h].from \in settled /\ rank[prev[h].from] < rank[h]

TotalCost == Alpha * totals.km + Beta * totals.hours

\* The route so far is the part of the way from the cursor to the destination,
\* and what it costs is what the cursor is nearer than the destination.
RouteSoFar ==
    /\ phase # "found" => route = <<>> /\ totals = [km |-> 0, hours |-> 0]
    /\ route = <<>> => cursor = destination
    /\ route # <<>> => route[1].from = cursor /\ route[Len(route)].to = destination
    /\ \A i \in 1 .. Len(route) :
          /\ route[i].to # origin /\ Reached(route[i].to) /\ prev[route[i].to] = route[i]
          /\ i # Len(route) => route[i].to = route[i + 1].from
    /\ phase = "found" => Reached(cursor) /\ TotalCost + dist[cursor] = dist[destination]

WalkInv == SearchInv /\ GraphFinite /\ SettledOnce /\ Ranked /\ RouteSoFar

LEMMA InitWalks == SearchInit => WalkInv
  <1> SUFFICES ASSUME SearchInit PROVE WalkInv
    OBVIOUS
  <1>1. settled = {} /\ route = <<>> /\ cursor = destination /\ phase # "found"
        /\ totals = [km |-> 0, hours |-> 0]
    BY DEF SearchInit
  <1>2. [h \in Hubs |-> 0] \in [Hubs -> Nat] /\ 0 \in Nat
    OBVIOUS
  <1>3. Ranked
    BY <1>1, <1>2 DEF Ranked
  <1>4. Len(route) = 0
    BY <1>1
  <1>5. QED
    <2>1. SearchInv
      BY InitSearches
    <2>2. GraphFinite
      BY FS_EmptySet DEF SearchInit, NoGraph, GraphFinite
    <2>3. SettledOnce /\ RouteSoFar
      BY <1>1, <1>4 DEF SettledOnce, RouteSoFar
    <2>4. QED
      BY <1>3, <2>1, <2>2, <2>3 DEF WalkInv

\* Nothing is walked before the route was found.
LEMMA NotWalking ==
    ASSUME RouteSoFar, SearchTypeOK', phase # "found", phase' # "found", cursor' = destination',
           UNCHANGED <<route, totals>>
    PROVE  RouteSoFar'
  <1>1. Len(route) = 0 /\ route' = <<>> /\ Len(route') = 0
    BY DEF RouteSoFar
  <1>2. QED
    BY <1>1 DEF RouteSoFar

\* When it is found, the walk starts at the destination.
LEMMA WalkStarts ==
    ASSUME SearchInv', RouteSoFar, phase # "found", phase' = "found",
           UNCHANGED <<origin, destination, dist, prev, cursor, route, totals>>
    PROVE  RouteSoFar'
  <1>1. /\ route = <<>> /\ route' = <<>> /\ Len(route) = 0 /\ Len(route') = 0
        /\ totals' = [km |-> 0, hours |-> 0] /\ cursor' = destination'
    BY DEF RouteSoFar
  <1>2. Reached(destination)' /\ dist'[destination'] \in Nat
    BY DEF SearchInv, NoneNearer, SearchTypeOK, Reached
  <1>3. TotalCost' = 0
    BY <1>1, DijkstraAssumption DEF TotalCost
  <1>4. QED
    BY <1>1, <1>2, <1>3 DEF RouteSoFar

LEMMA PopWalks ==
    ASSUME WalkInv, SearchInv', NEW item \in heap, Pop(item)
    PROVE  WalkInv'
  <1>0. /\ phase = "search" /\ heap' = heap \ {item}
        /\ UNCHANGED <<graph, origin, destination, dist, prev, cursor, route, totals>>
    BY DEF Pop, routeVars
  <1>1. cursor' = destination'
    BY <1>0 DEF WalkInv, RouteSoFar
  <1>2. CASE phase' # "found" /\ settled' = settled
    <2>1. RouteSoFar'
      BY <1>0, <1>1, <1>2, NotWalking DEF WalkInv, SearchInv
    <2>2. QED
      BY <1>0, <1>2, <2>1 DEF WalkInv, GraphFinite, SettledOnce, Ranked
  <1>3. CASE phase' = "found" /\ settled' = settled
    <2>1. RouteSoFar'
      BY <1>0, <1>3, WalkStarts DEF WalkInv
    <2>2. QED
      BY <1>0, <1>3, <2>1 DEF WalkInv, GraphFinite, SettledOnce, Ranked
  <1>4. CASE item.cost <= dist[item.hub] /\ item.hub # destination /\ phase' = phase
             /\ settled' = settled \cup {item.hub}
    <2>1. RouteSoFar'
      BY <1>0, <1>1, <1>4, NotWalking DEF WalkInv, SearchInv
    <2>2. /\ item.hub \in Hubs /\ item.cost \in Nat /\ Reached(item.hub)
          /\ dist[item.hub] \in Nat /\ item.cost = dist[item.hub]
          /\ item = [hub |-> item.hub, cost |-> dist[item.hub]]
      <3>1. item \in Entry /\ Reached(item.hub) /\ dist[item.hub] <= item.cost
        BY <1>0 DEF WalkInv, SearchInv, SearchTypeOK, HeapHoldsFrontier
      <3>2. item.hub \in Hubs /\ item.cost \in Nat /\ item = [hub |-> item.hub, cost |-> item.cost]
        BY <3>1 DEF Entry
      <3>3. dist[item.hub] \in Nat
        BY <3>1, <3>2 DEF WalkInv, SearchInv, SearchTypeOK, Reached
      <3>4. item.cost = dist[item.hub]
        BY <1>4, <3>1, <3>2, <3>3
      <3>5. QED
        BY <3>1, <3>2, <3>3, <3>4
    <2>3. item.hub \notin settled
      BY <2>2 DEF WalkInv, SettledOnce
    <2>4. SettledOnce'
      BY <1>0, <1>4, <2>2 DEF WalkInv, SettledOnce
    <2>5. PICK n \in Nat, rank \in [Hubs -> Nat] : \A h \in settled :
             /\ rank[h] < n
             /\ h # origin => prev[h].from \in settled /\ rank[prev[h].from] < rank[h]
      BY DEF WalkInv, Ranked
    <2> DEFINE next == [rank EXCEPT ![item.hub] = n]
    <2>6. /\ next \in [Hubs -> Nat] /\ n + 1 \in Nat /\ next[item.hub] = n
          /\ \A h \in settled : next[h] = rank[h] /\ rank[h] \in Nat
      BY <2>2, <2>3 DEF WalkInv, SearchInv, SearchTypeOK
    <2>7. item.hub # origin => prev[item.hub].from \in settled
      BY <1>0, <2>2 DEF WalkInv, SearchInv, WaysCount, Started
    <2> HIDE DEF next
    <2>8. ASSUME NEW h \in settled'
          PROVE  /\ next[h] < n + 1
                 /\ h # origin' => prev'[h].from \in settled' /\ next[prev'[h].from] < next[h]
      <3>1. CASE h = item.hub
        BY <1>0, <1>4, <2>5, <2>6, <2>7, <3>1
      <3>2. CASE h # item.hub
        BY <1>0, <1>4, <2>5, <2>6, <2>8, <3>2
      <3>3. QED
        BY <3>1, <3>2
    <2>9. Ranked'
      BY <2>6, <2>8 DEF Ranked
    <2>10. QED
      BY <1>0, <2>1, <2>4, <2>9 DEF WalkInv, GraphFinite
  <1>5. QED
    BY <1>0, <1>2, <1>3, <1>4 DEF Pop

LEMMA RelaxWalks ==
    ASSUME WalkInv, SearchInv', NEW e \in todo, Relax(e)
    PROVE  WalkInv'
  <1>0. /\ phase = "search"
        /\ UNCHANGED <<graph, origin, destination, phase, cursor, route, totals, settled>>
    BY DEF Relax, routeVars, WalkInv, SearchInv, BeforeAndAfter
  <1>1. RouteSoFar'
    BY <1>0, NotWalking DEF WalkInv, RouteSoFar, SearchInv
  <1>2. CASE ~Shorter(current.cost + EdgeWeight(e), e.to)
    BY <1>0, <1>1, <1>2 DEF WalkInv, GraphFinite, Relax, SettledOnce, Ranked
  <1>3. CASE Shorter(current.cost + EdgeWeight(e), e.to)
    <2> DEFINE cost == current.cost + EdgeWeight(e)
    <2>1. /\ dist' = [dist EXCEPT ![e.to] = cost]
          /\ prev' = [prev EXCEPT ![e.to] = e]
          /\ heap' = heap \cup {[hub |-> e.to, cost |-> cost]}
      BY <1>3 DEF Relax
    <2>2. /\ e \in Edge /\ e.to \in Hubs /\ EdgeWeight(e) \in Nat /\ current.cost \in Nat
      <3>1. e \in Usable
        BY DEF WalkInv, SearchInv, TodoFromCurrent
      <3>2. QED
        BY <3>1, UsableAreEdges, WeightIsNat DEF WalkInv, SearchInv, SearchTypeOK, Entry
    <2>3. e.to \notin settled
      <3>1. SUFFICES ASSUME e.to \in settled PROVE FALSE
        OBVIOUS
      <3>2. Reached(e.to) /\ dist[e.to] <= current.cost
        BY <3>1 DEF WalkInv, SearchInv, SettledFirst
      <3>3. dist[e.to] \in Nat
        BY <2>2, <3>2 DEF WalkInv, SearchInv, SearchTypeOK, Reached
      <3>4. cost < dist[e.to]
        BY <1>3, <3>2 DEF Shorter, Reached
      <3>5. QED
        BY <2>2, <3>2, <3>3, <3>4
    <2>4. settled \subseteq Hubs
      BY DEF WalkInv, SearchInv, SearchTypeOK
    <2>5. \A h \in settled : dist'[h] = dist[h] /\ prev'[h] = prev[h] /\ h # e.to
      BY <2>1, <2>2, <2>3, <2>4 DEF WalkInv, SearchInv, SearchTypeOK
    <2>6. SettledOnce'
      BY <1>0, <2>1, <2>5 DEF WalkInv, SettledOnce
    <2>7. Ranked'
      BY <1>0, <2>5 DEF WalkInv, Ranked
    <2>8. QED
      BY <1>0, <1>1, <2>6, <2>7 DEF WalkInv, GraphFinite
  <1>4. QED
    BY <1>2, <1>3

LEMMA BacktrackWalks ==
    ASSUME WalkInv, SearchInv', Backtrack
    PROVE  WalkInv'
  <1> DEFINE e == prev[cursor]
             n == Len(route)
  <1>1. /\ phase = "found" /\ cursor # origin /\ e # NoEdge
        /\ cursor' = e.from
        /\ route' = <<e>> \o route
        /\ totals' = [km |-> totals.km + e.km, hours |-> totals.hours + e.hours]
        /\ UNCHANGED <<graph, origin, destination, dist, prev, heap, current, todo, phase, settled>>
    BY DEF Backtrack, Complete
  <1>2. /\ cursor \in Hubs /\ Reached(cursor) /\ TotalCost + dist[cursor] = dist[destination]
        /\ route \in Seq(Edge) /\ n \in Nat /\ totals.km \in Nat /\ totals.hours \in Nat
        /\ dist[cursor] \in Nat
    BY <1>1 DEF WalkInv, RouteSoFar, SearchInv, SearchTypeOK, Reached
  <1>3. /\ e \in Usable /\ e \in Edge /\ e.to = cursor /\ e.from \in settled
        /\ dist[cursor] = dist[e.from] + Weight[e]
    BY <1>1, <1>2, UsableAreEdges DEF WalkInv, SearchInv, WaysCount, Started
  <1>4. /\ e.from \in Hubs /\ Reached(e.from) /\ dist[e.from] \in Nat
        /\ e.km \in Nat /\ e.hours \in Nat
        /\ Weight[e] \in Nat /\ Weight[e] = Alpha * e.km + Beta * e.hours
    BY <1>3, WeightIsNat DEF EdgeWeight, Edge, WalkInv, SearchInv, SettledFirst, SearchTypeOK, Reached
  <1>5. TotalCost' = TotalCost + Weight[e]
    <2>1. TotalCost' = Alpha * (totals.km + e.km) + Beta * (totals.hours + e.hours)
      BY <1>1 DEF TotalCost
    <2>2. \A x, u \in Nat : /\ Alpha * (x + u) = Alpha * x + Alpha * u
                            /\ Alpha * x \in Nat /\ Alpha * u \in Nat
                            /\ Beta * (x + u) = Beta * x + Beta * u
                            /\ Beta * x \in Nat /\ Beta * u \in Nat
      BY Distributes, DijkstraAssumption
    <2>3. /\ Alpha * (totals.km + e.km) = Alpha * totals.km + Alpha * e.km
          /\ Alpha * totals.km \in Nat /\ Alpha * e.km \in Nat
      BY <1>2, <1>4, <2>2
    <2>4. /\ Beta * (totals.hours + e.hours) = Beta * totals.hours + Beta * e.hours
          /\ Beta * totals.hours \in Nat /\ Beta * e.hours \in Nat
      BY <1>2, <1>4, <2>2
    <2>5. QED
      BY <1>4, <2>1, <2>3, <2>4 DEF TotalCost
  <1>6. TotalCost \in Nat
    <2>1. \A a, b, x, y \in Nat : a * x + b * y \in Nat
      OBVIOUS
    <2>2. QED
      BY <1>2, <2>1, DijkstraAssumption DEF TotalCost
  <1>7. TotalCost' + dist'[cursor'] = dist'[destination']
    BY <1>1, <1>2, <1>3, <1>4, <1>5, <1>6
  <1>8. /\ Len(route') = n + 1 /\ route'[1] = e
        /\ \A i \in 2 .. n + 1 : route'[i] = route[i - 1]
    <2>1. <<e>> \in Seq(Edge) /\ Len(<<e>>) = 1 /\ <<e>>[1] = e
      BY <1>3
    <2> HIDE DEF e
    <2>2. /\ Len(route') = 1 + n
          /\ \A i \in 1 .. 1 + n : route'[i] = IF i <= 1 THEN <<e>>[i] ELSE route[i - 1]
      BY <1>1, <1>2, <2>1, ConcatProperties
    <2>3. QED
      BY <1>2, <2>1, <2>2
  <1>9. route' # <<>>
    BY <1>2, <1>8
  <1> HIDE DEF e, n
  <1>10. route'[1].from = cursor' /\ route'[Len(route')].to = destination
    <2>1. CASE route = <<>>
      <3>1. cursor = destination /\ n = 0
        BY <2>1 DEF WalkInv, RouteSoFar, n
      <3>2. QED
        BY <1>1, <1>3, <1>8, <3>1
    <2>2. CASE route # <<>>
      <3>1. route[n].to = destination /\ n # 0
        BY <1>2, <2>2 DEF WalkInv, RouteSoFar, n
      <3>2. n + 1 \in 2 .. n + 1 /\ n + 1 - 1 = n
        BY <1>2, <3>1
      <3>3. route'[n + 1] = route[n]
        BY <1>2, <1>8, <3>2
      <3>4. QED
        BY <1>1, <1>8, <3>1, <3>3
    <2>3. QED
      BY <2>1, <2>2
  <1>11. ASSUME NEW i \in 1 .. Len(route')
         PROVE  /\ route'[i].to # origin /\ Reached(route'[i].to) /\ prev[route'[i].to] = route'[i]
                /\ i # Len(route') => route'[i].to = route'[i + 1].from
    <2>1. CASE i = 1
      <3>1. route'[1] = e /\ e.to = cursor /\ prev[cursor] = e
        BY <1>3, <1>8 DEF e
      <3>2. ASSUME i # Len(route') PROVE route'[2].from = cursor
        <4>1. 2 \in 2 .. n + 1 /\ 2 - 1 = 1 /\ n # 0
          BY <1>2, <1>8, <2>1, <3>2
        <4>2. route # <<>>
          BY <4>1 DEF n
        <4>3. QED
          BY <1>8, <4>1, <4>2 DEF WalkInv, RouteSoFar
      <3>3. QED
        BY <1>1, <1>2, <2>1, <3>1, <3>2
    <2>2. CASE i # 1
      <3>1. i \in 2 .. n + 1 /\ i - 1 \in 1 .. n
        BY <1>2, <1>8, <2>2
      <3>2. route'[i] = route[i - 1]
        BY <1>8, <3>1
      <3>3. /\ route[i - 1].to # origin /\ Reached(route[i - 1].to)
            /\ prev[route[i - 1].to] = route[i - 1]
            /\ i - 1 # n => route[i - 1].to = route[i - 1 + 1].from
        BY <3>1 DEF WalkInv, RouteSoFar, n
      <3>4. ASSUME i # Len(route') PROVE route'[i].to = route'[i + 1].from
        <4>1. i + 1 \in 2 .. n + 1 /\ i + 1 - 1 = i - 1 + 1 /\ i - 1 # n
          BY <1>2, <1>8, <3>1, <3>4
        <4>2. route'[i + 1] = route[i + 1 - 1]
          BY <1>8, <4>1
        <4>3. QED
          BY <3>2, <3>3, <4>1, <4>2
      <3>5. QED
        BY <3>2, <3>3, <3>4
    <2>3. QED
      BY <2>1, <2>2
  <1>12. RouteSoFar'
    BY <1>1, <1>4, <1>7, <1>9, <1>10, <1>11 DEF RouteSoFar, Reached
  <1>13. SettledOnce' /\ Ranked'
    BY <1>1 DEF WalkInv, GraphFinite, SettledOnce, Ranked
  <1>14. QED
    BY <1>1, <1>12, <1>13 DEF WalkInv, GraphFinite

LEMMA StepsWalk ==
    ASSUME WalkInv, [SearchNext]_searchVars
    PROVE  WalkInv'
  <1>0. SearchInv'
    BY StepsSearch DEF WalkInv
  <1>1. CASE UNCHANGED searchVars
    BY <1>0, <1>1 DEF searchVars, routeVars, WalkInv, GraphFinite, SettledOnce, Ranked, RouteSoFar, TotalCost, Reached
  <1>2. ASSUME NEW g \in Graphs, NEW from \in Hubs, NEW to \in Hubs, Call(g, from, to)
        PROVE  WalkInv'
    <2>1. /\ settled' = {} /\ phase = "idle" /\ phase' # "found" /\ cursor' = destination'
          /\ UNCHANGED <<route, totals>>
      BY <1>2 DEF Call, Known, WalkInv, SearchInv, BeforeAndAfter
    <2>2. RouteSoFar'
      BY <1>0, <2>1, NotWalking DEF WalkInv, SearchInv
    <2>3. Ranked'
      <3>1. [h \in Hubs |-> 0] \in [Hubs -> Nat] /\ 0 \in Nat
        OBVIOUS
      <3>2. QED
        BY <2>1, <3>1 DEF Ranked
    <2>4. GraphFinite'
      BY <1>2, DijkstraAssumption DEF Call, Known, GraphFinite
    <2>5. QED
      BY <1>0, <2>1, <2>2, <2>3, <2>4 DEF WalkInv, SettledOnce
  <1>3. ASSUME Exhaust PROVE WalkInv'
    <2>1. /\ phase = "search"
          /\ UNCHANGED <<graph, origin, destination, dist, prev, heap, cursor, route, totals,
                        settled>>
      BY <1>3 DEF Exhaust, routeVars
    <2>2. RouteSoFar'
      <3>1. CASE phase' = "found"
        BY <1>0, <2>1, <3>1, WalkStarts DEF WalkInv
      <3>2. CASE phase' # "found"
        BY <1>0, <2>1, <3>2, NotWalking DEF WalkInv, RouteSoFar, SearchInv
      <3>3. QED
        BY <3>1, <3>2
    <2>3. QED
      BY <1>0, <2>1, <2>2 DEF WalkInv, GraphFinite, SettledOnce, Ranked
  <1>4. QED
    BY <1>0, <1>1, <1>2, <1>3, PopWalks, RelaxWalks, BacktrackWalks DEF SearchNext

-----------------------------------------------------------------------------
(* From the certificate to all ways                                         *)

\* p is a way of n edges that starts at the origin, At(p, i) is where its first
\* i edges lead, and c[i] is what they cost.
At(p, i) == IF i = 0 THEN origin ELSE p[i].to

Way(n, p) == \A i \in 1 .. n : p[i] \in Usable /\ p[i].from = At(p, i - 1)

Costs(n, p, c) == c[0] = 0 /\ \A i \in 1 .. n : c[i] = c[i - 1] + Weight[p[i]]

LEMMA LeastNatural ==
    ASSUME NEW S \in SUBSET Nat, S # {}
    PROVE  \E m \in S : \A i \in S : m <= i
  <1> DEFINE R == StrictSubsetOrdering(Nat)
             T == {0 .. i : i \in S}
  <1>1. PICK x \in T : \A y \in T : <<y, x>> \notin R
    <2>1. T \subseteq FiniteSubsetsOf(Nat)
      <3>1. \A i \in S : 0 .. i \in SUBSET Nat /\ IsFiniteSet(0 .. i)
        BY FS_Interval
      <3>2. QED
        BY <3>1 DEF FiniteSubsetsOf
    <2>2. T # {}
      OBVIOUS
    <2>3. IsWellFoundedOn(R, FiniteSubsetsOf(Nat))
      BY FS_StrictSubsetOrderingWellFounded
    <2> HIDE DEF R, T
    <2>4. QED
      BY <2>1, <2>2, <2>3, WFMin
  <1>2. PICK m \in S : x = 0 .. m
    OBVIOUS
  <1>3. ASSUME NEW i \in S, i < m PROVE FALSE
    <2>1. /\ 0 .. i \in SUBSET Nat /\ 0 .. m \in SUBSET Nat
          /\ 0 .. i \subseteq 0 .. m /\ m \in 0 .. m /\ m \notin 0 .. i
      BY <1>3
    <2>2. <<0 .. i, 0 .. m>> \in R
      BY <2>1 DEF StrictSubsetOrdering
    <2>3. QED
      BY <1>1, <1>2, <2>2
  <1>4. QED
    BY <1>3

\* A set of numbers that holds 0 and is closed under + 1 up to n holds them all.
LEMMA UpTo ==
    ASSUME NEW n \in Nat, NEW S, 0 \in S, \A i \in 1 .. n : i - 1 \in S => i \in S
    PROVE  \A i \in 0 .. n : i \in S
  <1> DEFINE missing == {i \in 0 .. n : i \notin S}
  <1>1. SUFFICES ASSUME missing # {} PROVE FALSE
    OBVIOUS
  <1>2. PICK m \in missing : \A i \in missing : m <= i
    <2>1. missing \in SUBSET Nat
      OBVIOUS
    <2> HIDE DEF missing
    <2>2. QED
      BY <1>1, <2>1, LeastNatural
  <1>3. m \in 1 .. n /\ m - 1 \in 0 .. n
    BY <1>2
  <1>4. m - 1 \in S
    BY <1>2, <1>3
  <1>5. QED
    BY <1>2, <1>3, <1>4

\* As long as a way passes settled hubs only, dist is no more than its cost.
LEMMA WaysCostNoLess ==
    ASSUME SearchInv, phase \in {"found", "none"},
           NEW n \in Nat, NEW p \in [1 .. n -> Edge], NEW c \in [0 .. n -> Nat],
           Way(n, p), Costs(n, p, c), NEW m \in 0 .. n,
           \A i \in 0 .. n : i < m => At(p, i) \in settled
    PROVE  Reached(At(p, m)) /\ dist[At(p, m)] <= c[m]
  <1> DEFINE S == {i \in 0 .. m : Reached(At(p, i)) /\ dist[At(p, i)] <= c[i]}
  <1>1. 0 \in S
    <2>1. dist[origin] = 0
      BY DEF SearchInv, OriginReached, Started
    <2>2. QED
      BY <2>1, DijkstraAssumption DEF At, Costs, Reached
  <1>2. ASSUME NEW i \in 1 .. m, i - 1 \in S PROVE i \in S
    <2>1. /\ i \in 1 .. n /\ i - 1 \in 0 .. n /\ i - 1 < m
          /\ c[i] \in Nat /\ c[i - 1] \in Nat
      OBVIOUS
    <2>2. /\ p[i] \in Usable /\ p[i] \in Edge /\ p[i].from = At(p, i - 1)
          /\ c[i] = c[i - 1] + Weight[p[i]] /\ At(p, i) = p[i].to
      BY <2>1 DEF Way, Costs, At
    <2>3. At(p, i - 1) \in settled
      BY <2>1
    <2>4. Reached(p[i].to) /\ dist[p[i].to] <= dist[p[i].from] + Weight[p[i]]
      BY <2>2, <2>3 DEF SearchInv, SettledRelaxed, Started, BeforeAndAfter
    <2>5. dist[p[i].from] <= c[i - 1] /\ Reached(p[i].from)
      BY <1>2, <2>2
    <2>6. dist[p[i].from] \in Nat /\ dist[p[i].to] \in Nat /\ Weight[p[i]] \in Nat
      BY <2>2, <2>4, <2>5, UsableAreEdges, WeightIsNat DEF SearchInv, SearchTypeOK, Reached
    <2>7. dist[p[i].to] <= c[i]
      BY <2>1, <2>2, <2>4, <2>5, <2>6, NoMore
    <2>8. QED
      BY <1>2, <2>2, <2>4, <2>7
  <1>3. \A i \in 0 .. m : i \in S
    <2> HIDE DEF S
    <2>1. m \in Nat
      OBVIOUS
    <2>2. QED
      BY <1>1, <1>2, <2>1, UpTo
  <1>4. QED
    BY <1>3

\* What the first edges of a way cost is no more than what all of them cost.
LEMMA CostsGrow ==
    ASSUME NEW n \in Nat, NEW p \in [1 .. n -> Edge], NEW c \in [0 .. n -> Nat],
           Costs(n, p, c), NEW m \in 0 .. n
    PROVE  c[m] <= c[n]
  <1> DEFINE S == {i \in 0 .. n : m <= i => c[m] <= c[i]}
  <1>1. 0 \in S
    OBVIOUS
  <1>2. ASSUME NEW i \in 1 .. n, i - 1 \in S PROVE i \in S
    <2>1. /\ c[i] = c[i - 1] + Weight[p[i]] /\ p[i] \in Edge
          /\ c[i] \in Nat /\ c[i - 1] \in Nat /\ c[m] \in Nat
      BY DEF Costs
    <2>2. Weight[p[i]] \in Nat
      BY <2>1, WeightIsNat
    <2>3. CASE m <= i - 1
      BY <1>2, <2>1, <2>2, <2>3
    <2>4. CASE ~(m <= i - 1)
      BY <2>1, <2>4
    <2>5. QED
      BY <2>3, <2>4
  <1>3. \A i \in 0 .. n : i \in S
    <2> HIDE DEF S
    <2>1. QED
      BY <1>1, <1>2, UpTo
  <1>4. QED
    BY <1>3

\* A way that leaves the settled hubs, as every way to the destination does,
\* does so at a hub that was reached, at no less than its distance.
LEMMA WaysLeave ==
    ASSUME SearchInv, phase \in {"found", "none"},
           NEW n \in Nat, NEW p \in [1 .. n -> Edge], NEW c \in [0 .. n -> Nat],
           Way(n, p), Costs(n, p, c), At(p, n) = destination
    PROVE  \E h \in Hubs \ settled : Reached(h) /\ dist[h] <= c[n]
  <1> DEFINE outside == {i \in 0 .. n : At(p, i) \notin settled}
  <1>1. n \in outside
    BY DEF SearchInv, SettledFirst
  <1>2. PICK m \in outside : \A i \in outside : m <= i
    <2>1. outside \in SUBSET Nat /\ outside # {}
      BY <1>1
    <2> HIDE DEF outside
    <2>2. QED
      BY <2>1, LeastNatural
  <1>3. \A i \in 0 .. n : i < m => At(p, i) \in settled
    BY <1>2
  <1>4. Reached(At(p, m)) /\ dist[At(p, m)] <= c[m]
    BY <1>2, <1>3, WaysCostNoLess
  <1>5. At(p, m) \in Hubs
    BY DEF At, Edge, SearchInv, SearchTypeOK
  <1>6. dist[At(p, m)] \in Nat
    BY <1>4, <1>5 DEF SearchInv, SearchTypeOK, Reached
  <1>7. c[m] <= c[n] /\ c[m] \in Nat /\ c[n] \in Nat
    BY <1>2, CostsGrow
  <1>8. QED
    BY <1>2, <1>4, <1>5, <1>6, <1>7

\* No way from the origin to the destination, of any length, costs less than
\* the route that was found; and if none was found there is none.
BestOfAllWays ==
    \A n \in Nat : \A p \in [1 .. n -> Edge], c \in [0 .. n -> Nat] :
        Way(n, p) /\ Costs(n, p, c) /\ At(p, n) = destination =>
            /\ phase # "none"
            /\ phase = "found" => dist[destination] <= c[n]

LEMMA NoneIsBetter == SearchInv => BestOfAllWays
  <1>1. SUFFICES ASSUME SearchInv, NEW n \in Nat, NEW p \in [1 .. n -> Edge],
                        NEW c \in [0 .. n -> Nat], Way(n, p), Costs(n, p, c),
                        At(p, n) = destination, phase \in {"found", "none"}
                 PROVE  phase = "found" /\ dist[destination] <= c[n]
    BY DEF BestOfAllWays
  <1>2. PICK h \in Hubs \ settled : Reached(h) /\ dist[h] <= c[n]
    BY <1>1, WaysLeave
  <1>3. phase = "found" /\ dist[destination] <= dist[h] /\ Reached(destination)
    BY <1>1, <1>2 DEF SearchInv, NoneNearer
  <1>4. dist[h] \in Nat /\ dist[destination] \in Nat /\ c[n] \in Nat
    BY <1>1, <1>2, <1>3 DEF SearchInv, SearchTypeOK, Reached
  <1>5. QED
    BY <1>2, <1>3, <1>4

LEMMA CertificateLeft == SearchInv => Certificate
  <1>1. SUFFICES ASSUME SearchInv, phase = "found" PROVE Certificate
    BY DEF Certificate
  <1>2. \A e \in Usable : Weight[e] = EdgeWeight(e)
    BY <1>1, UsableAreEdges, WeightIsNat DEF SearchInv
  <1>3. QED
    BY <1>1, <1>2
    DEF SearchInv, Certificate, OriginReached, Started, BeforeAndAfter, SettledRelaxed,
        NoneNearer, WaysCount, Reached

-----------------------------------------------------------------------------
(* The route that is answered                                               *)

\* Cost is the sum of the weights.
LEMMA CostIsSum ==
    ASSUME NEW n \in Nat, NEW p \in [1 .. n -> Edge], Len(p) = n
    PROVE  \E c \in [0 .. n -> Nat] : Costs(n, p, c) /\ Cost(p) = c[n]
  <1> DEFINE Sums(g) == g = [i \in 0 .. n |-> IF i = 0 THEN 0 ELSE g[i - 1] + EdgeWeight(p[i])]
             S == {i \in 0 .. n : \E c \in [0 .. i -> Nat] : Costs(i, p, c)}
  <1>1. \A i \in 1 .. n : Weight[p[i]] = EdgeWeight(p[i]) /\ Weight[p[i]] \in Nat
    BY WeightIsNat
  <1>2. 0 \in S
    <2>1. [j \in 0 .. 0 |-> 0] \in [0 .. 0 -> Nat] /\ Costs(0, p, [j \in 0 .. 0 |-> 0])
      BY DEF Costs
    <2>2. QED
      BY <2>1
  <1>3. ASSUME NEW i \in 1 .. n, i - 1 \in S PROVE i \in S
    <2>1. PICK c \in [0 .. i - 1 -> Nat] : Costs(i - 1, p, c)
      BY <1>3
    <2> DEFINE d == [j \in 0 .. i |-> IF j = i THEN c[i - 1] + Weight[p[i]] ELSE c[j]]
    <2>2. c[i - 1] \in Nat /\ c[i - 1] + Weight[p[i]] \in Nat
      BY <1>1
    <2>3. d \in [0 .. i -> Nat]
      BY <2>2
    <2>4. /\ d[i] = c[i - 1] + Weight[p[i]]
          /\ \A j \in 0 .. i - 1 : d[j] = c[j]
      OBVIOUS
    <2> HIDE DEF d
    <2>5. d[0] = 0 /\ d[i] = d[i - 1] + Weight[p[i]]
      BY <2>1, <2>4 DEF Costs
    <2>6. \A j \in 1 .. i - 1 : d[j] = d[j - 1] + Weight[p[j]]
      <3>1. SUFFICES ASSUME NEW j \in 1 .. i - 1 PROVE d[j] = d[j - 1] + Weight[p[j]]
        OBVIOUS
      <3>2. j \in 0 .. i - 1 /\ j - 1 \in 0 .. i - 1
        OBVIOUS
      <3>3. QED
        BY <2>1, <2>4, <3>2 DEF Costs
    <2>7. Costs(i, p, d)
      BY <2>5, <2>6 DEF Costs
    <2>8. QED
      BY <2>3, <2>7
  <1>4. n \in S
    <2> HIDE DEF S
    <2>1. QED
      BY <1>2, <1>3, UpTo
  <1>5. PICK c \in [0 .. n -> Nat] : Costs(n, p, c)
    BY <1>4
  <1>6. Sums(c)
    <2>1. \A i \in 0 .. n : c[i] = IF i = 0 THEN 0 ELSE c[i - 1] + EdgeWeight(p[i])
      <3>1. c[0] = 0
        BY <1>5 DEF Costs
      <3>2. ASSUME NEW i \in 1 .. n PROVE c[i] = c[i - 1] + EdgeWeight(p[i])
        <4>1. c[i] = c[i - 1] + Weight[p[i]]
          BY <1>5 DEF Costs
        <4>2. Weight[p[i]] = EdgeWeight(p[i])
          BY <1>1
        <4>3. QED
          BY <4>1, <4>2
      <3>3. QED
        BY <3>1, <3>2
    <2>2. QED
      BY <2>1
  <1> DEFINE f == CHOOSE g : Sums(g)
  <1>7. Cost(p) = f[n]
    BY DEF Cost
  <1>8. Sums(f)
    <2> HIDE DEF Sums
    <2>1. QED
      BY <1>6
  <1> HIDE DEF f
  <1>9. f = [i \in 0 .. n |-> f[i]]
    BY <1>8
  <1>10. \A i \in 0 .. n : f[i] = IF i = 0 THEN 0 ELSE f[i - 1] + EdgeWeight(p[i])
    BY <1>8
  <1>11. f[0] = 0
    BY <1>10
  <1>12. ASSUME NEW i \in 1 .. n PROVE f[i] = f[i - 1] + Weight[p[i]]
    <2>1. i \in 0 .. n /\ i # 0
      OBVIOUS
    <2>2. f[i] = f[i - 1] + EdgeWeight(p[i])
      BY <1>10, <2>1
    <2>3. Weight[p[i]] = EdgeWeight(p[i])
      BY <1>1
    <2>4. QED
      BY <2>2, <2>3
  <1>13. \A i \in 0 .. n : f[i] \in Nat
    <2> DEFINE T == {i \in 0 .. n : f[i] \in Nat}
    <2>1. 0 \in T
      BY <1>11
    <2>2. ASSUME NEW i \in 1 .. n, i - 1 \in T PROVE i \in T
      <3>1. f[i - 1] \in Nat /\ Weight[p[i]] \in Nat
        BY <1>1, <2>2
      <3>2. f[i] \in Nat
        BY <1>12, <3>1
      <3>3. QED
        BY <3>2
    <2> HIDE DEF T
    <2>3. \A i \in 0 .. n : i \in T
      BY <2>1, <2>2, UpTo
    <2>4. QED
      BY <2>3 DEF T
  <1>14. f \in [0 .. n -> Nat]
    BY <1>9, <1>13
  <1>15. Costs(n, p, f)
    BY <1>11, <1>12 DEF Costs
  <1>16. QED
    BY <1>7, <1>14, <1>15

\* The ways that the search is compared with are ways.
LEMMA WaysAreWays ==
    ASSUME SearchTypeOK, NEW p \in Ways
    PROVE  \E n \in Nat : /\ p \in [1 .. n -> Edge] /\ Len(p) = n
                          /\ Way(n, p) /\ At(p, n) = destination
  <1>1. PICK n \in 0 .. Cardinality(graph.nodes) - 1 : p \in [1 .. n -> Usable]
    BY DEF Ways
  <1>2. n \in Nat /\ p \in Seq(Usable) /\ Len(p) = n
    BY <1>1
  <1>3. IsWay(p)
    BY DEF Ways
  <1>4. p \in [1 .. n -> Edge]
    BY <1>1, UsableAreEdges
  <1>5. Way(n, p)
    <2>1. SUFFICES ASSUME NEW i \in 1 .. n PROVE p[i] \in Usable /\ p[i].from = At(p, i - 1)
      BY DEF Way
    <2>2. p[i] \in Usable /\ p # <<>>
      BY <1>1, <1>2
    <2>3. CASE i = 1
      BY <1>3, <2>2, <2>3 DEF IsWay, At
    <2>4. CASE i # 1
      <3>1. i - 1 \in 1 .. n - 1 /\ i - 1 + 1 = i
        BY <1>2, <2>4
      <3>2. p[i - 1].to = p[i - 1 + 1].from
        BY <1>2, <1>3, <3>1 DEF IsWay
      <3>3. QED
        BY <2>2, <3>1, <3>2 DEF At
    <2>5. QED
      BY <2>3, <2>4
  <1>6. At(p, n) = destination
    <2>1. CASE p = <<>>
      BY <1>2, <1>3, <2>1 DEF IsWay, At
    <2>2. CASE p # <<>>
      BY <1>2, <1>3, <2>2 DEF IsWay, At
    <2>3. QED
      BY <2>1, <2>2
  <1>7. QED
    BY <1>2, <1>4, <1>5, <1>6

\* A complete route begins at the origin and each of its edges is that by which
\* its end was reached.
LEMMA CompleteRoutes ==
    ASSUME WalkInv, Complete
    PROVE  /\ cursor = origin
           /\ Len(route) \in Nat /\ route \in [1 .. Len(route) -> Edge]
           /\ Way(Len(route), route) /\ At(route, Len(route)) = destination
           /\ \A i \in 1 .. Len(route) :
                 /\ route[i].to # origin /\ prev[route[i].to] = route[i]
                 /\ route[i].from \in settled
                 /\ dist[route[i].to] = dist[route[i].from] + Weight[route[i]]
  <1> DEFINE n == Len(route)
  <1>1. phase = "found" /\ (cursor = origin \/ prev[cursor] = NoEdge)
    BY DEF Complete
  <1>2. /\ cursor \in Hubs /\ Reached(cursor) /\ route \in Seq(Edge)
        /\ n \in Nat /\ route \in [1 .. n -> Edge]
    BY <1>1, LenProperties DEF WalkInv, RouteSoFar, SearchInv, SearchTypeOK
  <1>3. cursor = origin
    <2>1. SUFFICES ASSUME cursor # origin PROVE FALSE
      OBVIOUS
    <2>2. prev[cursor] \in Edge
      BY <1>1, <1>2, <2>1, UsableAreEdges DEF WalkInv, SearchInv, WaysCount, Started
    <2>3. QED
      BY <1>1, <2>1, <2>2, DijkstraAssumption
  <1>4. ASSUME NEW i \in 1 .. n
        PROVE  /\ route[i].to # origin /\ prev[route[i].to] = route[i]
               /\ route[i] \in Usable /\ route[i].from \in settled
               /\ dist[route[i].to] = dist[route[i].from] + Weight[route[i]]
    <2>1. route[i] \in Edge /\ route[i].to \in Hubs
      BY <1>2 DEF Edge
    <2>2. route[i].to # origin /\ Reached(route[i].to) /\ prev[route[i].to] = route[i]
      BY DEF WalkInv, RouteSoFar
    <2>3. QED
      BY <1>1, <2>1, <2>2 DEF WalkInv, SearchInv, WaysCount, Started
  <1>5. ASSUME NEW i \in 1 .. n PROVE route[i].from = At(route, i - 1)
    <2>1. route # <<>>
      BY <1>2
    <2>2. CASE i = 1
      BY <1>3, <2>1, <2>2 DEF WalkInv, RouteSoFar, At
    <2>3. CASE i # 1
      <3>1. i - 1 \in 1 .. n /\ i - 1 # n /\ i - 1 + 1 = i
        BY <1>2, <2>3
      <3>2. route[i - 1].to = route[i - 1 + 1].from
        BY <3>1 DEF WalkInv, RouteSoFar
      <3>3. QED
        BY <3>1, <3>2 DEF At
    <2>4. QED
      BY <2>2, <2>3
  <1>6. At(route, n) = destination
    <2>1. CASE route = <<>>
      BY <1>3, <2>1 DEF WalkInv, RouteSoFar, At
    <2>2. CASE route # <<>>
      <3>1. n # 0
        BY <1>2, <2>2
      <3>2. QED
        BY <2>2, <3>1 DEF WalkInv, RouteSoFar, At
    <2>3. QED
      BY <2>1, <2>2
  <1>7. QED
    BY <1>2, <1>3, <1>4, <1>5, <1>6 DEF Way

\* The hubs of a route but the last were settled one after the other.
LEMMA RoutesPassHubsOnce ==
    ASSUME WalkInv, Complete, NEW a \in 0 .. Len(route), NEW b \in 0 .. Len(route), a < b
    PROVE  At(route, a) # At(route, b)
  <1> DEFINE n == Len(route)
  <1>0. n \in Nat
    BY CompleteRoutes
  <1>1. \A i \in 1 .. n : /\ route[i].to # origin /\ prev[route[i].to] = route[i]
                          /\ route[i].from \in settled
                          /\ route[i].from = At(route, i - 1)
    BY CompleteRoutes DEF Way
  <1>2. \A i \in 0 .. n - 1 : At(route, i) \in settled
    <2>1. SUFFICES ASSUME NEW i \in 0 .. n - 1 PROVE At(route, i) \in settled
      OBVIOUS
    <2>2. i + 1 \in 1 .. n /\ i + 1 - 1 = i
      BY <1>0
    <2>3. QED
      BY <1>1, <2>2
  <1>3. CASE b = n
    <2>1. At(route, b) \notin settled
      BY <1>3, CompleteRoutes DEF WalkInv, SearchInv, SettledFirst
    <2>2. a \in 0 .. n - 1
      BY <1>0, <1>3
    <2>3. QED
      BY <1>2, <2>1, <2>2
  <1>4. CASE b # n
    <2>1. PICK m \in Nat, rank \in [Hubs -> Nat] : \A h \in settled :
             /\ rank[h] < m
             /\ h # origin => prev[h].from \in settled /\ rank[prev[h].from] < rank[h]
      BY DEF WalkInv, Ranked
    <2> DEFINE S == {i \in 0 .. n : a < i /\ i < n => rank[At(route, a)] < rank[At(route, i)]}
    <2>2. 0 \in S
      BY <1>0
    <2>3. ASSUME NEW i \in 1 .. n, i - 1 \in S PROVE i \in S
      <3>1. SUFFICES ASSUME a < i, i < n PROVE rank[At(route, a)] < rank[At(route, i)]
        OBVIOUS
      <3>2. /\ i - 1 \in 0 .. n - 1 /\ i \in 0 .. n - 1 /\ a \in 0 .. n - 1 /\ i - 1 < n
            /\ a < i - 1 \/ a = i - 1
        BY <1>0, <3>1
      <3>3. /\ At(route, i - 1) \in settled /\ At(route, i) \in settled /\ At(route, a) \in settled
        BY <1>2, <3>2
      <3>4. settled \subseteq Hubs
        BY DEF WalkInv, SearchInv, SearchTypeOK
      <3>5. rank[At(route, i - 1)] \in Nat /\ rank[At(route, i)] \in Nat /\ rank[At(route, a)] \in Nat
        BY <3>3, <3>4
      <3>6. rank[At(route, i - 1)] < rank[At(route, i)]
        <4>1. At(route, i) = route[i].to /\ prev[route[i].to].from = At(route, i - 1)
              /\ route[i].to # origin
          BY <1>1 DEF At
        <4>2. QED
          BY <2>1, <3>3, <4>1
      <3>7. CASE a = i - 1
        BY <3>6, <3>7
      <3>8. CASE a < i - 1
        BY <2>3, <3>2, <3>5, <3>6, <3>8
      <3>9. QED
        BY <3>2, <3>7, <3>8
    <2> HIDE DEF S
    <2>4. \A i \in 0 .. n : i \in S
      BY <1>0, <2>2, <2>3, UpTo
    <2>5. rank[At(route, a)] < rank[At(route, b)]
      <3>1. b \in S /\ b < n
        BY <1>0, <1>4, <2>4
      <3>2. QED
        BY <3>1 DEF S
    <2>6. rank[At(route, a)] \in Nat
      <3>1. a \in 0 .. n - 1
        BY <1>0, <1>4
      <3>2. QED
        BY <1>2, <3>1 DEF WalkInv, SearchInv, SearchTypeOK
    <2>7. QED
      BY <2>5, <2>6
  <1>5. QED
    BY <1>3, <1>4

\* So a route is no longer than the nodes allow.
LEMMA RouteIsWay ==
    ASSUME WalkInv, Complete
    PROVE  route \in Ways
  <1> DEFINE n == Len(route)
             visit == [i \in 0 .. n |-> At(route, i)]
  <1>1. /\ n \in Nat /\ route \in [1 .. n -> Edge]
        /\ Way(n, route) /\ At(route, n) = destination
    BY CompleteRoutes
  <1>2. \A i \in 0 .. n : At(route, i) \in graph.nodes
    <2>1. origin \in graph.nodes
      BY DijkstraAssumption
      DEF Complete, WalkInv, SearchInv, OriginReached, Started, Reached, SearchTypeOK
    <2>2. \A i \in 1 .. n : route[i].to \in graph.nodes
      BY <1>1 DEF Way, Usable
    <2>3. QED
      BY <1>1, <2>1, <2>2 DEF At
  <1>3. visit \in Injection(0 .. n, graph.nodes)
    <2>1. visit \in [0 .. n -> graph.nodes]
      BY <1>2
    <2>2. \A a, b \in 0 .. n : visit[a] = visit[b] => a = b
      <3>1. SUFFICES ASSUME NEW a \in 0 .. n, NEW b \in 0 .. n, visit[a] = visit[b], a # b
                     PROVE  FALSE
        OBVIOUS
      <3>2. At(route, a) = At(route, b) /\ (a < b \/ b < a)
        BY <1>1, <3>1
      <3>3. QED
        BY <3>2, RoutesPassHubsOnce
    <2> HIDE DEF visit
    <2>3. QED
      BY <2>1, <2>2 DEF Injection, IsInjective
  <1> HIDE DEF visit
  <1>4. IsFiniteSet(graph.nodes)
    BY DEF WalkInv, GraphFinite
  <1>5. Cardinality(0 .. n) <= Cardinality(graph.nodes)
    BY <1>3, <1>4, FS_Injection
  <1>6. Cardinality(0 .. n) = n + 1 /\ Cardinality(graph.nodes) \in Nat
    BY <1>1, <1>4, FS_Interval, FS_CardinalityType
  <1>7. n \in 0 .. Cardinality(graph.nodes) - 1
    BY <1>1, <1>5, <1>6
  <1>8. route \in [1 .. n -> Usable]
    BY <1>1 DEF Way
  <1>9. IsWay(route)
    <2>1. ASSUME NEW i \in 1 .. n - 1 PROVE route[i].to = route[i + 1].from
      <3>1. i \in 1 .. n /\ i + 1 \in 1 .. n /\ i + 1 - 1 = i /\ i # 0
        BY <1>1
      <3>2. route[i + 1].from = At(route, i + 1 - 1)
        BY <1>1, <3>1 DEF Way
      <3>3. QED
        BY <3>1, <3>2 DEF At
    <2>2. route = <<>> => n = 0
      OBVIOUS
    <2>3. route # <<>> => n # 0
      BY DEF WalkInv, SearchInv, SearchTypeOK
    <2>4. ASSUME n # 0 PROVE route[1].from = origin /\ route[n].to = destination
      BY <1>1, <2>4 DEF Way, At
    <2>5. n = 0 => origin = destination
      BY <1>1 DEF At
    <2>6. QED
      BY <2>1, <2>2, <2>3, <2>4, <2>5 DEF IsWay
  <1>10. QED
    BY <1>7, <1>8, <1>9 DEF Ways

\* The edges of the route cost what dist says of its end.
LEMMA RouteCosts ==
    ASSUME WalkInv, Complete
    PROVE  Cost(route) = dist[destination]
  <1> DEFINE n == Len(route)
  <1>1. /\ n \in Nat /\ route \in [1 .. n -> Edge]
        /\ Way(n, route) /\ At(route, n) = destination
        /\ \A i \in 1 .. n : dist[route[i].to] = dist[route[i].from] + Weight[route[i]]
    BY CompleteRoutes
  <1>2. PICK c \in [0 .. n -> Nat] : Costs(n, route, c) /\ Cost(route) = c[n]
    BY <1>1, CostIsSum
  <1> DEFINE S == {i \in 0 .. n : c[i] = dist[At(route, i)]}
  <1>3. 0 \in S
    BY <1>1, <1>2 DEF Costs, At, Complete, WalkInv, SearchInv, OriginReached, Started
  <1>4. ASSUME NEW i \in 1 .. n, i - 1 \in S PROVE i \in S
    <2>1. route[i].from = At(route, i - 1) /\ At(route, i) = route[i].to
      BY <1>1 DEF Way, At
    <2>2. c[i] = c[i - 1] + Weight[route[i]] /\ c[i - 1] = dist[At(route, i - 1)]
      BY <1>2, <1>4 DEF Costs
    <2>3. c[i] = dist[At(route, i)]
      BY <1>1, <2>1, <2>2
    <2>4. QED
      BY <2>3
  <1> HIDE DEF S
  <1>5. n \in S
    BY <1>1, <1>3, <1>4, UpTo
  <1>6. QED
    BY <1>1, <1>2, <1>5 DEF S

LEMMA ShortestRoute == WalkInv => RouteIsShortest
  <1>1. SUFFICES ASSUME WalkInv PROVE RouteIsShortest
    OBVIOUS
  <1>2. ASSUME NEW p \in Ways
        PROVE  phase # "none" /\ (phase = "found" => dist[destination] <= Cost(p))
    <2>1. PICK n \in Nat : /\ p \in [1 .. n -> Edge] /\ Len(p) = n
                           /\ Way(n, p) /\ At(p, n) = destination
      BY <1>1, WaysAreWays DEF WalkInv, SearchInv
    <2>2. PICK c \in [0 .. n -> Nat] : Costs(n, p, c) /\ Cost(p) = c[n]
      BY <2>1, CostIsSum
    <2>3. QED
      BY <1>1, <2>1, <2>2, NoneIsBetter DEF WalkInv, BestOfAllWays
  <1>3. ASSUME Complete
        PROVE  /\ route \in Ways /\ Cost(route) = dist[destination]
               /\ Alpha * totals.km + Beta * totals.hours = dist[destination]
    <2>1. route \in Ways /\ Cost(route) = dist[destination] /\ cursor = origin
      BY <1>1, <1>3, RouteIsWay, RouteCosts, CompleteRoutes
    <2>2. TotalCost + 0 = dist[destination] /\ TotalCost \in Nat
      <3>1. dist[origin] = 0 /\ TotalCost + dist[cursor] = dist[destination]
        BY <1>1, <1>3
        DEF Complete, WalkInv, RouteSoFar, SearchInv, OriginReached, Started
      <3>2. totals.km \in Nat /\ totals.hours \in Nat
        BY <1>1 DEF WalkInv, SearchInv, SearchTypeOK
      <3>3. Alpha * totals.km \in Nat /\ Beta * totals.hours \in Nat
        BY <3>2, Distributes, DijkstraAssumption
      <3>4. QED
        BY <2>1, <3>1, <3>3 DEF TotalCost
    <2>3. TotalCost = dist[destination]
      BY <2>2
    <2>4. QED
      BY <2>1, <2>3 DEF TotalCost
  <1>4. QED
    BY <1>2, <1>3 DEF RouteIsShortest, Complete

-----------------------------------------------------------------------------
(* Theorems                                                                 *)

\* The inductive invariant of the search.
THEOREM SearchInvariant == SearchSpec => []SearchInv
  <1>1. SearchInv /\ [SearchNext]_searchVars => SearchInv'
    BY StepsSearch
  <1>2. QED
    BY InitSearches, <1>1, PTL DEF SearchSpec

\* Every variable of the search has its type.
THEOREM SearchTypeCorrect == SearchSpec => []SearchTypeOK
  BY SearchInvariant, PTL DEF SearchInv

\* When the search ends with a route it leaves the certificate behind.
THEOREM RouteIsCertified == SearchSpec => []Certificate
  BY SearchInvariant, CertificateLeft, PTL

\* No way of any length is better than the route that was found.
THEOREM RouteIsBest == SearchSpec => []BestOfAllWays
  BY SearchInvariant, NoneIsBetter, PTL

\* The inductive invariant of the search with the reading of the route: hubs
\* are settled one after the other, and the way back goes from each to one that
\* was settled before it.
THEOREM WalkInvariant == SearchSpec => []WalkInv
  <1>1. WalkInv /\ [SearchNext]_searchVars => WalkInv'
    BY StepsWalk
  <1>2. QED
    BY InitWalks, <1>1, PTL DEF SearchSpec

\* In every graph, the answer is a way from the origin to the destination that
\* is no longer than the nodes allow, no such way costs less, and its totals
\* are those of its edges; without an answer there is no way.
THEOREM SearchAlwaysCorrect == SearchSpec => []SearchIsCorrect
  <1>1. WalkInv => SearchIsCorrect
    BY ShortestRoute, CertificateLeft DEF WalkInv, SearchIsCorrect
  <1>2. QED
    BY WalkInvariant, <1>1, PTL
=============================================================================
