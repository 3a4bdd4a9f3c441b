------------------------------ MODULE Routing ------------------------------
(***************************************************************************)
(* routing-service: the tables of hubs and edges, and the Redis cache of   *)
(* routes between hubs.  A request for a route looks into the cache, and   *)
(* on a miss reads the nodes, reads the active edges, searches and stores  *)
(* the route; an update of an edge writes the row and then removes every   *)
(* cached route, KEYS first and DEL second.  Every one of these is a       *)
(* command of its own that may fail, and failures of Redis are only        *)
(* logged.  Creating a node or an edge leaves the cache alone.             *)
(*                                                                         *)
(* The cache maps a key to the request whose route it holds: what the      *)
(* route is follows from what that request read (module Dijkstra), so of   *)
(* an edge only its ends and its flag are kept here, and an update may     *)
(* leave both alone.  The key also has a service type, which is part of no *)
(* search: one is modelled.  An entry may expire at any time.              *)
(***************************************************************************)
EXTENDS Naturals, FiniteSets

CONSTANTS
    RouteHubs,      \* hub ids; a hub has one node
    EdgeIds,
    SeedNodes, SeedEdges,   \* what the migration inserts
    Finds,          \* GET /routing/route
    NodeCreates, EdgeCreates, EdgeUpdates,  \* POST and PATCH
    Asked,          \* bound: the origins and destinations that are asked for
    Ends,           \* bound: the ends that a new edge is given
    NoRow,          \* no edge of that id
    NoFind,         \* nothing is cached
    NoKey           \* a request that has not asked yet

EdgeRow == [from : RouteHubs, to : RouteHubs, active : BOOLEAN]
RouteRequests == Finds \cup NodeCreates \cup EdgeCreates \cup EdgeUpdates

ASSUME RoutingAssumption ==
    /\ Asked \cup Ends \subseteq RouteHubs \X RouteHubs
    /\ SeedNodes \subseteq RouteHubs
    /\ SeedEdges \in [EdgeIds -> EdgeRow \cup {NoRow}]
    /\ \A e \in EdgeIds : SeedEdges[e] # NoRow =>
          {SeedEdges[e].from, SeedEdges[e].to} \subseteq SeedNodes
    /\ NoRow \notin EdgeRow
    /\ NoFind \notin Finds
    /\ NoKey \notin Asked
    /\ Finds \cap (NodeCreates \cup EdgeCreates \cup EdgeUpdates) = {}
    /\ EdgeUpdates \cap (NodeCreates \cup EdgeCreates) = {}

VARIABLES
    nodes,      \* table route_nodes, by hub_id, which is UNIQUE
    edges,      \* table route_edges
    cache,      \* cache[k] : the request whose route is stored, with the prefix route:
    stage,      \* stage[q] : the next step of request q, or how it ended
    key,        \* key[f] : origin and destination
    read,       \* read[f] : the nodes that f has read
    listed,     \* listed[u] : the keys that KEYS returned to u
    unseen,     \* history: the updates that came after f read the edges
    overlap     \* history: the requests that had read the edges and not yet
                \* stored their route when u wrote its row

routingVars == <<nodes, edges, cache, stage, key, read, listed, unseen, overlap>>

RoutingInit ==
    /\ nodes = SeedNodes
    /\ edges = SeedEdges
    /\ cache = [k \in Asked |-> NoFind]
    /\ stage = [q \in RouteRequests |-> "start"]
    /\ key = [f \in Finds |-> NoKey]
    /\ read = [f \in Finds |-> {}]
    /\ listed = [u \in EdgeUpdates |-> {}]
    /\ unseen = [f \in Finds |-> {}]
    /\ overlap = [u \in EdgeUpdates |-> {}]

Move(q, next) == stage' = [stage EXCEPT ![q] = next]

\* The variables of a request are gone when it ends.
End(f) ==
    /\ Move(f, "answered")
    /\ key' = [key EXCEPT ![f] = NoKey]
    /\ read' = [read EXCEPT ![f] = {}]

\* A failing statement ends a request with 500, without a change.
Break(q) ==
    /\ \/ stage[q] = "start" /\ Move(q, "answered") /\ UNCHANGED <<key, read>>
       \/ stage[q] \in {"nodes", "edges"} /\ End(q)
    /\ UNCHANGED <<nodes, edges, cache, listed, unseen, overlap>>

-----------------------------------------------------------------------------
(* GET /routing/route                                                       *)

\* A hit is the answer.  An error of Redis is a miss.
Lookup(f, k) ==
    /\ stage[f] = "start"
    /\ \/ cache[k] # NoFind /\ Move(f, "answered") /\ UNCHANGED key
       \/ Move(f, "nodes") /\ key' = [key EXCEPT ![f] = k]
    /\ UNCHANGED <<nodes, edges, cache, read, listed, unseen, overlap>>

GetAllNodes(f) ==
    /\ stage[f] = "nodes"
    /\ read' = [read EXCEPT ![f] = nodes]
    /\ Move(f, "edges")
    /\ UNCHANGED <<nodes, edges, cache, key, listed, unseen, overlap>>

\* The search uses the active edges between hubs that were read: reached[n] is
\* where at most n of them lead.
Reaches(hubs, k) ==
    LET ways == {edges[e] : e \in {x \in EdgeIds : edges[x] # NoRow /\ edges[x].active}}
        reached[n \in Nat] ==
            IF n = 0 THEN {k[1]}
            ELSE reached[n - 1] \cup
                 ({w.to : w \in {x \in ways : x.from \in reached[n - 1]}} \cap hubs)
    IN  k[2] \in reached[Cardinality(hubs)]

\* 400 for an unknown hub, 404 without a route, and then nothing is stored.
GetActiveGraph(f) ==
    /\ stage[f] = "edges"
    /\ IF {key[f][1], key[f][2]} \subseteq read[f] /\ Reaches(read[f], key[f])
       THEN Move(f, "store") /\ UNCHANGED <<key, read>>
       ELSE End(f)
    /\ UNCHANGED <<nodes, edges, cache, listed, unseen, overlap>>

\* The answer is sent whether or not the route could be stored.
SetRoute(f) ==
    /\ stage[f] = "store"
    /\ \/ cache' = [cache EXCEPT ![key[f]] = f]
       \/ UNCHANGED cache
    /\ End(f)
    /\ UNCHANGED <<nodes, edges, listed, unseen, overlap>>

Expire(k) ==
    /\ cache[k] # NoFind
    /\ cache' = [cache EXCEPT ![k] = NoFind]
    /\ UNCHANGED <<nodes, edges, stage, key, read, listed, unseen, overlap>>

-----------------------------------------------------------------------------
(* Administration                                                           *)

\* A hub that has a node is refused with 409.
CreateNode(c, h) ==
    /\ stage[c] = "start"
    /\ nodes' = nodes \cup {h}
    /\ Move(c, "answered")
    /\ UNCHANGED <<edges, cache, key, read, listed, unseen, overlap>>

\* Nodes are never removed, so the two checks that they exist and the INSERT
\* are one step.  The flag is TRUE unless the request says otherwise.
CreateEdge(c, e, ends, active) ==
    /\ stage[c] = "start"
    /\ edges[e] = NoRow
    /\ IF {ends[1], ends[2]} \subseteq nodes
       THEN edges' = [edges EXCEPT
                         ![e] = [from |-> ends[1], to |-> ends[2], active |-> active]]
       ELSE UNCHANGED edges
    /\ Move(c, "answered")
    /\ UNCHANGED <<nodes, cache, key, read, listed, unseen, overlap>>

\* The routes in the making when u writes its row, and those already made.
Computed == {f \in Finds : stage[f] \in {"store", "answered"}}

\* Mutant: the cache is cleared for an edge that stays active only.
UpdateEdge_ActiveOnly(u, e, active) ==
    /\ stage[u] = "start"
    /\ edges[e] # NoRow
    /\ edges' = [edges EXCEPT ![e].active = active]
    /\ unseen' = [f \in Finds |-> IF f \in Computed THEN unseen[f] \cup {u} ELSE unseen[f]]
    /\ overlap' = [overlap EXCEPT ![u] = {f \in Finds : stage[f] = "store"}]
    /\ Move(u, IF active THEN "keys" ELSE "answered")
    /\ UNCHANGED <<nodes, cache, key, read, listed>>

\* The row keeps its ends; a column that the request does not name keeps its
\* value.  If the answer of the statement is lost the handler ends with 500
\* and does not come to the cache.
UpdateEdge(u, e, active) ==
    /\ stage[u] = "start"
    /\ IF edges[e] = NoRow
       THEN /\ Move(u, "answered")
            /\ UNCHANGED <<edges, unseen, overlap>>
       ELSE /\ edges' = [edges EXCEPT ![e].active = active]
            /\ unseen' = [f \in Finds |->
                  IF f \in Computed THEN unseen[f] \cup {u} ELSE unseen[f]]
            /\ overlap' = [overlap EXCEPT ![u] = {f \in Finds : stage[f] = "store"}]
            /\ \E next \in {"keys", "lost"} : Move(u, next)
    /\ UNCHANGED <<nodes, cache, key, read, listed>>

\* KEYS route:*
Keys(u) ==
    /\ stage[u] = "keys"
    /\ LET found == {k \in Asked : cache[k] # NoFind}
       IN  /\ listed' = [listed EXCEPT ![u] = found]
           /\ Move(u, IF found = {} THEN "cleared" ELSE "del")
    /\ UNCHANGED <<nodes, edges, cache, key, read, unseen, overlap>>

Del(u) ==
    /\ stage[u] = "del"
    /\ cache' = [k \in Asked |-> IF k \in listed[u] THEN NoFind ELSE cache[k]]
    /\ Move(u, "cleared")
    /\ listed' = [listed EXCEPT ![u] = {}]
    /\ UNCHANGED <<nodes, edges, key, read, unseen, overlap>>

\* Redis fails, or two seconds are over: logged, and the answer is 200.
LoseInvalidation(u) ==
    /\ stage[u] \in {"keys", "del"}
    /\ Move(u, "lost")
    /\ listed' = [listed EXCEPT ![u] = {}]
    /\ UNCHANGED <<nodes, edges, cache, key, read, unseen, overlap>>

FindStep(f) ==
    \/ \E k \in Asked : Lookup(f, k)
    \/ GetAllNodes(f)
    \/ GetActiveGraph(f)
    \/ SetRoute(f)

NodeStep(c) == \E h \in RouteHubs : CreateNode(c, h)

EdgeCreateStep(c) ==
    \E e \in EdgeIds, ends \in Ends, active \in BOOLEAN : CreateEdge(c, e, ends, active)

EdgeUpdateStep(u) ==
    \/ \E e \in EdgeIds, active \in BOOLEAN : UpdateEdge(u, e, active)
    \/ Keys(u)
    \/ Del(u)
    \/ LoseInvalidation(u)

RoutingNext ==
    \/ \E q \in RouteRequests : Break(q)
    \/ \E f \in Finds : FindStep(f)
    \/ \E k \in Asked : Expire(k)
    \/ \E c \in NodeCreates : NodeStep(c)
    \/ \E c \in EdgeCreates : EdgeCreateStep(c)
    \/ \E u \in EdgeUpdates : EdgeUpdateStep(u)

RoutingSpec == RoutingInit /\ [][RoutingNext]_routingVars
-----------------------------------------------------------------------------
(* Properties                                                               *)

RoutingTypeOK ==
    /\ nodes \subseteq RouteHubs
    /\ edges \in [EdgeIds -> EdgeRow \cup {NoRow}]
    /\ cache \in [Asked -> Finds \cup {NoFind}]
    /\ stage \in [RouteRequests ->
          {"start", "nodes", "edges", "store", "keys", "del", "cleared", "lost", "answered"}]
    /\ key \in [Finds -> Asked \cup {NoKey}]
    /\ read \in [Finds -> SUBSET RouteHubs]
    /\ listed \in [EdgeUpdates -> SUBSET Asked]
    /\ unseen \in [Finds -> SUBSET EdgeUpdates]
    /\ overlap \in [EdgeUpdates -> SUBSET Finds]

\* Why a cached route may not know of update u: its invalidation is not over,
\* it was lost, or the route was being made when u wrote its row.
Excused(u, f) == stage[u] \in {"keys", "del", "lost"} \/ f \in overlap[u]

\* Requirement 3.4 as far as the code keeps it: once an update's invalidation
\* has gone through, the cache holds a route that was computed from the edges
\* before the update only if its computation overlapped the update.
StaleOnlyByOverlap ==
    \A k \in Asked : cache[k] # NoFind =>
        \A u \in unseen[cache[k]] : Excused(u, cache[k])
=============================================================================
