---------------------------- MODULE RoutingProofs ----------------------------
(***************************************************************************)
(* What the cache of routes may hold after an edge was updated, for any    *)
(* number of hubs, edges and requests; and what a courier's tour is, for   *)
(* any list of parcels and any distances.  DijkstraProofs has the lemmas   *)
(* about least numbers and about counting up to n.                         *)
(***************************************************************************)
EXTENDS Routing, CourierRoute, DijkstraProofs, TLAPS

\* An update that a request has not seen came after its edges were read.
UnseenAfterRead ==
    \A f \in Finds : \A u \in unseen[f] :
        stage[f] \in {"store", "answered"} /\ stage[u] \in {"keys", "del", "cleared", "lost"}

\* A route still to be stored was in the making when the update came.
UnstoredOverlaps ==
    \A f \in Finds : \A u \in unseen[f] : stage[f] = "store" => f \in overlap[u]

\* What is cached was stored by a request that is over.
CachedAreOver ==
    \A k \in Asked : cache[k] # NoFind => stage[cache[k]] = "answered"

\* Between KEYS and DEL no route is stored that the DEL would have to remove
\* and does not know.
ListedAreEnough ==
    \A k \in Asked : cache[k] # NoFind =>
        \A u \in unseen[cache[k]] :
            stage[u] = "del" /\ cache[k] \notin overlap[u] => k \in listed[u]

CacheInv ==
    /\ RoutingTypeOK
    /\ UnseenAfterRead
    /\ UnstoredOverlaps
    /\ CachedAreOver
    /\ ListedAreEnough
    /\ StaleOnlyByOverlap
-----------------------------------------------------------------------------
LEMMA InitCaches == RoutingInit => CacheInv
  <1> SUFFICES ASSUME RoutingInit PROVE CacheInv
    OBVIOUS
  <1>1. RoutingTypeOK
    BY RoutingAssumption DEF RoutingInit, RoutingTypeOK
  <1>2. QED
    BY <1>1 DEF RoutingInit, CacheInv, UnseenAfterRead, UnstoredOverlaps, CachedAreOver,
                ListedAreEnough, StaleOnlyByOverlap

\* What the requests of each kind leave alone follows from their being apart.
LEMMA KindsApart ==
    /\ \A f \in Finds : f \in RouteRequests /\ f \notin EdgeUpdates
                        /\ f \notin NodeCreates /\ f \notin EdgeCreates
    /\ \A u \in EdgeUpdates : u \in RouteRequests /\ u \notin NodeCreates
                              /\ u \notin EdgeCreates
    /\ NodeCreates \cup EdgeCreates \subseteq RouteRequests
  BY RoutingAssumption DEF RouteRequests

\* A step that changes the stage of one request only, and neither stores a
\* route nor updates an edge.
LEMMA QuietMoves ==
    ASSUME CacheInv, RoutingTypeOK', NEW q \in RouteRequests, NEW next, Move(q, next),
           stage[q] \in {"start", "nodes", "edges"},
           UNCHANGED <<cache, listed, unseen, overlap>>
    PROVE  CacheInv'
  <1>1. \A p \in RouteRequests \ {q} : stage'[p] = stage[p]
    BY DEF Move, CacheInv, RoutingTypeOK
  <1>2. \A f \in Finds : \A u \in unseen[f] :
            f # q /\ u # q /\ u \in EdgeUpdates
    BY DEF CacheInv, UnseenAfterRead, RoutingTypeOK
  <1>3. \A k \in Asked : cache[k] # NoFind => cache[k] \in Finds /\ cache[k] # q
    BY DEF CacheInv, CachedAreOver, RoutingTypeOK
  <1>4. QED
    BY <1>1, <1>2, <1>3, KindsApart
    DEF CacheInv, UnseenAfterRead, UnstoredOverlaps, CachedAreOver, ListedAreEnough,
        StaleOnlyByOverlap, Excused

\* A step that only removes routes from the cache.
LEMMA Removals ==
    ASSUME CacheInv, RoutingTypeOK',
           \A k \in Asked : cache'[k] \in {cache[k], NoFind},
           UNCHANGED <<stage, listed, unseen, overlap>>
    PROVE  CacheInv'
  BY DEF CacheInv, UnseenAfterRead, UnstoredOverlaps, CachedAreOver, ListedAreEnough,
         StaleOnlyByOverlap, Excused

\* Storing: the updates that the route does not know overlapped it.
LEMMA StoresCache ==
    ASSUME CacheInv, RoutingTypeOK', NEW f \in Finds, SetRoute(f)
    PROVE  CacheInv'
  <1>0. /\ stage[f] = "store" /\ stage' = [stage EXCEPT ![f] = "answered"]
        /\ UNCHANGED <<listed, unseen, overlap>>
        /\ cache' = [cache EXCEPT ![key[f]] = f] \/ cache' = cache
    BY DEF SetRoute, End, Move
  <1>1. /\ stage'[f] = "answered"
        /\ \A p \in RouteRequests \ {f} : stage'[p] = stage[p]
    BY <1>0, KindsApart DEF CacheInv, RoutingTypeOK
  <1>2. \A k \in Asked : cache'[k] \in {cache[k], f}
    BY <1>0 DEF CacheInv, RoutingTypeOK
  <1>3. \A u \in unseen[f] : f \in overlap[u]
    BY <1>0 DEF CacheInv, UnstoredOverlaps
  <1>4. \A g \in Finds : \A u \in unseen[g] : u \in EdgeUpdates /\ u # f
    BY KindsApart DEF CacheInv, RoutingTypeOK
  <1>5. \A k \in Asked : cache'[k] # NoFind => cache'[k] \in Finds
    BY DEF RoutingTypeOK
  <1>6. UnseenAfterRead' /\ UnstoredOverlaps'
    BY <1>0, <1>1, <1>4, KindsApart DEF CacheInv, UnseenAfterRead, UnstoredOverlaps
  <1>7. CachedAreOver'
    BY <1>1, <1>2, KindsApart DEF CacheInv, CachedAreOver, RoutingTypeOK
  <1>8. ListedAreEnough'
    BY <1>0, <1>1, <1>2, <1>3, <1>4, <1>5, KindsApart DEF CacheInv, ListedAreEnough
  <1>9. StaleOnlyByOverlap'
    BY <1>0, <1>1, <1>2, <1>3, <1>4, <1>5, KindsApart
    DEF CacheInv, StaleOnlyByOverlap, Excused
  <1>10. QED
    BY <1>6, <1>7, <1>8, <1>9 DEF CacheInv

\* Writing an edge: nobody has seen the update, and its invalidation is to come
\* or lost.
LEMMA UpdatesCache ==
    ASSUME CacheInv, RoutingTypeOK', NEW u \in EdgeUpdates, NEW e \in EdgeIds,
           NEW active \in BOOLEAN, UpdateEdge(u, e, active)
    PROVE  CacheInv'
  <1>1. CASE edges[e] = NoRow
    BY <1>1, QuietMoves, KindsApart DEF UpdateEdge
  <1>2. CASE edges[e] # NoRow
    <2>0. /\ stage[u] = "start" /\ UNCHANGED <<cache, listed>>
          /\ unseen' = [f \in Finds |-> IF f \in Computed THEN unseen[f] \cup {u} ELSE unseen[f]]
          /\ overlap' = [overlap EXCEPT ![u] = {f \in Finds : stage[f] = "store"}]
          /\ \E next \in {"keys", "lost"} : stage' = [stage EXCEPT ![u] = next]
      BY <1>2 DEF UpdateEdge, Move
    <2>1. /\ stage'[u] \in {"keys", "lost"}
          /\ \A p \in RouteRequests \ {u} : stage'[p] = stage[p]
      BY <2>0, KindsApart DEF CacheInv, RoutingTypeOK
    <2>2. /\ overlap'[u] = {f \in Finds : stage[f] = "store"}
          /\ \A v \in EdgeUpdates \ {u} : overlap'[v] = overlap[v]
      BY <2>0 DEF CacheInv, RoutingTypeOK
    <2>3. \A f \in Finds : \A v \in unseen[f] : v \in EdgeUpdates /\ v # u
      BY <2>0 DEF CacheInv, UnseenAfterRead, RoutingTypeOK
    <2>4. \A f \in Finds : \A v \in unseen'[f] :
              \/ v = u /\ stage[f] \in {"store", "answered"}
              \/ v # u /\ v \in unseen[f]
      BY <2>0, <2>3 DEF Computed
    <2>5. UnseenAfterRead' /\ UnstoredOverlaps'
      BY <2>1, <2>2, <2>3, <2>4, KindsApart DEF CacheInv, UnseenAfterRead, UnstoredOverlaps
    <2>6. \A k \in Asked : cache'[k] = cache[k] /\ (cache[k] # NoFind => cache[k] \in Finds)
      BY <2>0 DEF CacheInv, RoutingTypeOK
    <2>7. CachedAreOver'
      BY <2>1, <2>6, KindsApart DEF CacheInv, CachedAreOver
    <2>8. ListedAreEnough'
      BY <2>0, <2>1, <2>2, <2>3, <2>4, <2>6, KindsApart DEF CacheInv, ListedAreEnough
    <2>9. StaleOnlyByOverlap'
      BY <2>1, <2>2, <2>3, <2>4, <2>6, KindsApart DEF CacheInv, StaleOnlyByOverlap, Excused
    <2>10. QED
      BY <2>5, <2>7, <2>8, <2>9 DEF CacheInv
  <1>3. QED
    BY <1>1, <1>2

\* The invalidation: DEL removes what KEYS returned.
LEMMA InvalidationClears ==
    ASSUME CacheInv, RoutingTypeOK', NEW u \in EdgeUpdates,
           Keys(u) \/ Del(u) \/ LoseInvalidation(u)
    PROVE  CacheInv'
  <1>0. /\ stage[u] \in {"keys", "del"} /\ UNCHANGED <<unseen, overlap>>
        /\ stage'[u] \in {"del", "cleared", "lost"}
        /\ \A p \in RouteRequests \ {u} : stage'[p] = stage[p]
        /\ \A v \in EdgeUpdates \ {u} : listed'[v] = listed[v]
        /\ \A k \in Asked : cache'[k] \in {cache[k], NoFind}
    BY KindsApart DEF Keys, Del, LoseInvalidation, Move, CacheInv, RoutingTypeOK
  <1>1. \A f \in Finds : \A v \in unseen[f] : v \in EdgeUpdates
    BY DEF CacheInv, RoutingTypeOK
  <1>2. \A k \in Asked : cache[k] # NoFind => cache[k] \in Finds
    BY DEF CacheInv, RoutingTypeOK
  <1>3. UnseenAfterRead' /\ UnstoredOverlaps'
    BY <1>0, <1>1, KindsApart DEF CacheInv, UnseenAfterRead, UnstoredOverlaps
  <1>4. CachedAreOver'
    BY <1>0, <1>2, KindsApart DEF CacheInv, CachedAreOver
  <1>5. stage'[u] = "del" => \A k \in Asked : cache'[k] # NoFind => k \in listed'[u]
    <2>1. CASE Keys(u)
      <3>1. /\ listed'[u] = {k \in Asked : cache[k] # NoFind}
            /\ cache' = cache
        BY <2>1 DEF Keys, CacheInv, RoutingTypeOK
      <3>2. QED
        BY <3>1
    <2>2. CASE Del(u) \/ LoseInvalidation(u)
      BY <2>2, KindsApart DEF Del, LoseInvalidation, Move, CacheInv, RoutingTypeOK
    <2>3. QED
      BY <2>1, <2>2
  <1>6. stage'[u] = "cleared" =>
            \A k \in Asked : cache'[k] # NoFind =>
                (u \in unseen[cache[k]] => cache[k] \in overlap[u])
    <2>1. CASE Keys(u)
      <3>1. stage'[u] = "cleared" => {k \in Asked : cache[k] # NoFind} = {}
        BY <2>1, KindsApart DEF Keys, Move, CacheInv, RoutingTypeOK
      <3>2. QED
        BY <2>1, <3>1 DEF Keys
    <2>2. CASE Del(u)
      BY <2>2, <1>2 DEF Del, CacheInv, ListedAreEnough, RoutingTypeOK
    <2>3. CASE LoseInvalidation(u)
      BY <2>3, KindsApart DEF LoseInvalidation, Move, CacheInv, RoutingTypeOK
    <2>4. QED
      BY <2>1, <2>2, <2>3
  <1>7. ListedAreEnough'
    BY <1>0, <1>1, <1>2, <1>5, KindsApart DEF CacheInv, ListedAreEnough
  <1>8. StaleOnlyByOverlap'
    BY <1>0, <1>1, <1>2, <1>6, KindsApart DEF CacheInv, StaleOnlyByOverlap, Excused
  <1>9. QED
    BY <1>3, <1>4, <1>7, <1>8 DEF CacheInv

-----------------------------------------------------------------------------
(* Type correctness                                                         *)

LEMMA StepsKeepRoutingTypes ==
    ASSUME CacheInv, RoutingNext
    PROVE  RoutingTypeOK'
  <1> USE DEF CacheInv
  <1>1. ASSUME NEW q \in RouteRequests, Break(q) PROVE RoutingTypeOK'
    BY <1>1 DEF Break, End, Move, RoutingTypeOK
  <1>2. ASSUME NEW f \in Finds, FindStep(f) PROVE RoutingTypeOK'
    <2>1. ASSUME NEW k \in Asked, Lookup(f, k) PROVE RoutingTypeOK'
      BY <2>1 DEF Lookup, Move, RoutingTypeOK
    <2>2. CASE GetAllNodes(f)
      BY <2>2 DEF GetAllNodes, Move, RoutingTypeOK
    <2>3. CASE GetActiveGraph(f)
      BY <2>3 DEF GetActiveGraph, End, Move, RoutingTypeOK
    <2>4. CASE SetRoute(f)
      BY <2>4 DEF SetRoute, End, Move, RoutingTypeOK
    <2>5. QED
      BY <1>2, <2>1, <2>2, <2>3, <2>4 DEF FindStep
  <1>3. ASSUME NEW k \in Asked, Expire(k) PROVE RoutingTypeOK'
    BY <1>3 DEF Expire, RoutingTypeOK
  <1>4. ASSUME NEW c \in NodeCreates, NodeStep(c) PROVE RoutingTypeOK'
    BY <1>4 DEF NodeStep, CreateNode, Move, RoutingTypeOK
  <1>5. ASSUME NEW c \in EdgeCreates, NEW e \in EdgeIds, NEW ends \in Ends,
               NEW active \in BOOLEAN, CreateEdge(c, e, ends, active)
        PROVE  RoutingTypeOK'
    <2>1. [from |-> ends[1], to |-> ends[2], active |-> active] \in EdgeRow
      BY RoutingAssumption DEF EdgeRow
    <2>2. edges' \in [EdgeIds -> EdgeRow \cup {NoRow}]
      BY <1>5, <2>1 DEF CreateEdge, RoutingTypeOK
    <2>3. QED
      BY <1>5, <2>2 DEF CreateEdge, Move, RoutingTypeOK
  <1>6. ASSUME NEW u \in EdgeUpdates, EdgeUpdateStep(u) PROVE RoutingTypeOK'
    <2>1. ASSUME NEW e \in EdgeIds, NEW active \in BOOLEAN, UpdateEdge(u, e, active)
          PROVE  RoutingTypeOK'
      <3>1. edges' \in [EdgeIds -> EdgeRow \cup {NoRow}]
        <4>1. CASE edges[e] = NoRow
          BY <2>1, <4>1 DEF UpdateEdge, RoutingTypeOK
        <4>2. CASE edges[e] # NoRow
          <5>1. edges[e] \in EdgeRow
            BY <4>2 DEF RoutingTypeOK
          <5>2. [edges[e] EXCEPT !.active = active] \in EdgeRow
            BY <5>1 DEF EdgeRow
          <5>3. edges' = [edges EXCEPT ![e] = [edges[e] EXCEPT !.active = active]]
            BY <2>1, <4>2 DEF UpdateEdge
          <5>4. QED
            BY <5>2, <5>3 DEF RoutingTypeOK
        <4>3. QED
          BY <4>1, <4>2
      <3>2. QED
        BY <2>1, <3>1 DEF UpdateEdge, Move, RoutingTypeOK
    <2>2. CASE Keys(u)
      BY <2>2 DEF Keys, Move, RoutingTypeOK
    <2>3. CASE Del(u)
      BY <2>3 DEF Del, Move, RoutingTypeOK
    <2>4. CASE LoseInvalidation(u)
      BY <2>4 DEF LoseInvalidation, Move, RoutingTypeOK
    <2>5. QED
      BY <1>6, <2>1, <2>2, <2>3, <2>4 DEF EdgeUpdateStep
  <1>7. QED
    BY <1>1, <1>2, <1>3, <1>4, <1>5, <1>6 DEF RoutingNext, EdgeCreateStep

LEMMA StepsKeepCaches ==
    ASSUME CacheInv, [RoutingNext]_routingVars
    PROVE  CacheInv'
  <1>1. CASE UNCHANGED routingVars
    BY <1>1 DEF routingVars, CacheInv, RoutingTypeOK, UnseenAfterRead, UnstoredOverlaps,
                CachedAreOver, ListedAreEnough, StaleOnlyByOverlap, Excused
  <1>2. CASE RoutingNext
    <2>0. RoutingTypeOK'
      BY <1>2, StepsKeepRoutingTypes
    <2>1. ASSUME NEW q \in RouteRequests, Break(q) PROVE CacheInv'
      BY <2>0, <2>1, QuietMoves DEF Break, End
    <2>2. ASSUME NEW f \in Finds, FindStep(f) PROVE CacheInv'
      <3>1. ASSUME NEW k \in Asked, Lookup(f, k) PROVE CacheInv'
        BY <2>0, <3>1, QuietMoves, KindsApart DEF Lookup
      <3>2. CASE GetAllNodes(f)
        BY <2>0, <3>2, QuietMoves, KindsApart DEF GetAllNodes
      <3>3. CASE GetActiveGraph(f)
        BY <2>0, <3>3, QuietMoves, KindsApart DEF GetActiveGraph, End
      <3>4. CASE SetRoute(f)
        BY <2>0, <3>4, StoresCache
      <3>5. QED
        BY <2>2, <3>1, <3>2, <3>3, <3>4 DEF FindStep
    <2>3. ASSUME NEW k \in Asked, Expire(k) PROVE CacheInv'
      <3>1. \A x \in Asked : cache'[x] \in {cache[x], NoFind}
        BY <2>3 DEF Expire, CacheInv, RoutingTypeOK
      <3>2. QED
        BY <2>0, <2>3, <3>1, Removals DEF Expire
    <2>4. ASSUME NEW c \in NodeCreates, NodeStep(c) PROVE CacheInv'
      BY <2>0, <2>4, QuietMoves, KindsApart DEF NodeStep, CreateNode
    <2>5. ASSUME NEW c \in EdgeCreates, EdgeCreateStep(c) PROVE CacheInv'
      BY <2>0, <2>5, QuietMoves, KindsApart DEF EdgeCreateStep, CreateEdge
    <2>6. ASSUME NEW u \in EdgeUpdates, EdgeUpdateStep(u) PROVE CacheInv'
      BY <2>0, <2>6, UpdatesCache, InvalidationClears DEF EdgeUpdateStep
    <2>7. QED
      BY <1>2, <2>1, <2>2, <2>3, <2>4, <2>5, <2>6 DEF RoutingNext
  <1>3. QED
    BY <1>1, <1>2

-----------------------------------------------------------------------------
(* Theorems                                                                 *)

\* The inductive invariant: what the cache, the searches under way and the
\* invalidations under way know of one another.
THEOREM RoutingCaches == RoutingSpec => []CacheInv
  <1>1. CacheInv /\ [RoutingNext]_routingVars => CacheInv'
    BY StepsKeepCaches
  <1>2. QED
    BY InitCaches, <1>1, PTL DEF RoutingSpec

\* The tables, the cache and the requests of routing-service keep their types.
THEOREM RoutingTypeCorrect == RoutingSpec => []RoutingTypeOK
  BY RoutingCaches, PTL DEF CacheInv

\* Once the invalidation of an edge update has gone through, only a search that
\* had read the edges before the update may have left an older route behind.
THEOREM StaleOnlyIfOverlapping == RoutingSpec => []StaleOnlyByOverlap
  BY RoutingCaches, PTL DEF CacheInv
-----------------------------------------------------------------------------
(* The tours of couriers                                                    *)

LEMMA DistancesAreNat == \A p, q \in Places : Distance[<<p, q>>] \in Nat
  BY CourierRouteAssumption

\* Among parcels that are left there is a first of the nearest.
LEMMA NearestExists ==
    ASSUME NEW list \in Seq(Places), NEW place \in Places, NEW left \in SUBSET (1 .. Len(list)),
           left # {}
    PROVE  /\ Nearest(place, left, list) \in left
           /\ \A j \in left : Distance[<<place, list[Nearest(place, left, list)]>>]
                              <= Distance[<<place, list[j]>>]
  <1> DEFINE D == [i \in left |-> Distance[<<place, list[i]>>]]
             ds == {D[i] : i \in left}
  <1>1. D \in [left -> Nat]
    BY DistancesAreNat, ElementOfSeq
  <1>2. \A i \in left : D[i] = Distance[<<place, list[i]>>]
    OBVIOUS
  <1> HIDE DEF D
  <1>3. PICK d \in ds : \A e \in ds : d <= e
    <2>1. ds \in SUBSET Nat /\ ds # {}
      BY <1>1
    <2> HIDE DEF ds
    <2>2. QED
      BY <2>1, LeastNatural
  <1> DEFINE near == {i \in left : D[i] = d}
  <1>4. PICK i \in near : \A j \in near : i <= j
    <2>1. PICK i \in left : D[i] = d
      BY <1>3
    <2>2. near \in SUBSET Nat
      <3>1. left \in SUBSET Nat
        BY LenProperties
      <3>2. QED
        BY <3>1
    <2>3. near # {}
      BY <2>1
    <2> HIDE DEF near
    <2>4. QED
      BY <2>2, <2>3, LeastNatural
  <1> DEFINE First(k) == \A j \in left : D[k] < D[j] \/ (D[k] = D[j] /\ k <= j)
  <1>5. i \in left /\ First(i)
    <2>1. SUFFICES ASSUME NEW j \in left PROVE D[i] < D[j] \/ (D[i] = D[j] /\ i <= j)
      BY <1>4
    <2>2. D[i] = d /\ D[i] \in Nat /\ D[j] \in Nat /\ D[i] <= D[j]
      BY <1>1, <1>3, <1>4
    <2>3. D[j] = d => i <= j
      BY <1>4
    <2>4. QED
      BY <2>2, <2>3
  <1>6. Nearest(place, left, list) = CHOOSE k \in left : First(k)
    BY <1>2 DEF Nearest
  <1> DEFINE n == Nearest(place, left, list)
  <1>7. n \in left /\ First(n)
    <2> HIDE DEF First
    <2>1. QED
      BY <1>5, <1>6
  <1> HIDE DEF n
  <1>8. ASSUME NEW j \in left PROVE Distance[<<place, list[n]>>] <= Distance[<<place, list[j]>>]
    <2>1. D[n] \in Nat /\ D[j] \in Nat /\ D[n] <= D[j]
      BY <1>1, <1>7
    <2>2. QED
      BY <1>2, <1>7, <2>1
  <1>9. QED
    BY <1>7, <1>8 DEF n

LEMMA CountUpTo ==
    ASSUME NEW n \in Nat
    PROVE  IsFiniteSet(1 .. n) /\ Cardinality(1 .. n) = n
  <1>1. /\ IsFiniteSet(1 .. n)
        /\ Cardinality(1 .. n) = IF 1 > n THEN 0 ELSE n - 1 + 1
    BY FS_Interval
  <1>2. QED
    BY <1>1

\* Where the tour is after i stops, and how far it has come.
Place(list, start, stops, i) == IF i = 0 THEN start ELSE list[stops[i].parcel]
Driven(stops, i) == IF i = 0 THEN 0 ELSE stops[i].km

\* A tour of n stops: what is left is what no stop is for, every stop says how
\* far it is, and was the nearest of those that were left.
Under(n, list, start, tour) ==
    /\ tour.left \in SUBSET (1 .. Len(list))
    /\ tour.stops \in Seq(Stop) /\ Len(tour.stops) = n
    /\ tour.place = Place(list, start, tour.stops, n) /\ tour.place \in Places
    /\ tour.km = Driven(tour.stops, n) /\ tour.km \in Nat
    /\ Cardinality(tour.left) = Len(list) - n
    /\ \A i \in 1 .. n : tour.stops[i].parcel \in 1 .. Len(list)
                         /\ tour.stops[i].parcel \notin tour.left
    /\ \A i \in 1 .. Len(list) :
          i \notin tour.left => \E j \in 1 .. n : tour.stops[j].parcel = i
    /\ \A i, j \in 1 .. n : tour.stops[i].parcel = tour.stops[j].parcel => i = j
    /\ \A i \in 1 .. n :
          Driven(tour.stops, i) = Driven(tour.stops, i - 1) +
              Distance[<<Place(list, start, tour.stops, i - 1), Place(list, start, tour.stops, i)>>]
    /\ \A i \in 1 .. n :
          /\ \A j \in i .. n :
                Distance[<<Place(list, start, tour.stops, i - 1), Place(list, start, tour.stops, i)>>]
                <= Distance[<<Place(list, start, tour.stops, i - 1), Place(list, start, tour.stops, j)>>]
          /\ \A k \in tour.left :
                Distance[<<Place(list, start, tour.stops, i - 1), Place(list, start, tour.stops, i)>>]
                <= Distance[<<Place(list, start, tour.stops, i - 1), list[k]>>]

SetOff(list, start) == [left |-> DOMAIN list, stops |-> <<>>, place |-> start, km |-> 0]

LEMMA SetsOff ==
    ASSUME NEW list \in Seq(Places), NEW start \in Places
    PROVE  Under(0, list, start, SetOff(list, start))
  <1> DEFINE tour == SetOff(list, start)
  <1>0. DOMAIN list = 1 .. Len(list) /\ Len(list) \in Nat
    BY LenProperties
  <1>1. /\ tour.left = 1 .. Len(list) /\ tour.stops = <<>> /\ tour.place = start /\ tour.km = 0
        /\ Len(list) \in Nat
    <2>1. tour = [left |-> DOMAIN list, stops |-> <<>>, place |-> start, km |-> 0]
      BY DEF SetOff
    <2> HIDE DEF tour
    <2>2. tour.left = DOMAIN list /\ tour.stops = <<>> /\ tour.place = start /\ tour.km = 0
      BY <2>1
    <2>3. QED
      BY <1>0, <2>2
  <1>2. Cardinality(1 .. Len(list)) = Len(list)
    BY <1>1, CountUpTo
  <1>3. <<>> \in Seq(Stop) /\ Len(<<>>) = 0
    OBVIOUS
  <1> HIDE DEF tour
  <1>4. Under(0, list, start, tour)
    <2>1. /\ tour.left \in SUBSET (1 .. Len(list))
          /\ tour.stops \in Seq(Stop) /\ Len(tour.stops) = 0
          /\ tour.place = Place(list, start, tour.stops, 0) /\ tour.place \in Places
          /\ tour.km = Driven(tour.stops, 0) /\ tour.km \in Nat
      BY <1>1, <1>3 DEF Place, Driven
    <2>2. Cardinality(tour.left) = Len(list) - 0
      BY <1>1, <1>2
    <2>3. \A i \in 1 .. 0 : FALSE
      OBVIOUS
    <2>4. \A i \in 1 .. Len(list) : i \in tour.left
      BY <1>1
    <2>5. QED
      BY <2>1, <2>2, <2>3, <2>4 DEF Under
  <1>5. QED
    BY <1>4 DEF tour

\* A stop more.
LEMMA Visits ==
    ASSUME NEW list \in Seq(Places), NEW start \in Places, NEW n \in Nat, n < Len(list),
           NEW tour, Under(n, list, start, tour)
    PROVE  Under(n + 1, list, start, Visit(tour, list))
  <1> DEFINE c == Nearest(tour.place, tour.left, list)
             leg == Distance[<<tour.place, list[c]>>]
             stop == [parcel |-> c, km |-> tour.km + leg]
             next == Visit(tour, list)
             old == tour.stops
             new == next.stops
  <1>1. /\ tour.left \in SUBSET (1 .. Len(list)) /\ Len(list) \in Nat
        /\ old \in Seq(Stop) /\ Len(old) = n
        /\ tour.place = Place(list, start, old, n) /\ tour.place \in Places
        /\ tour.km = Driven(old, n) /\ tour.km \in Nat
        /\ Cardinality(tour.left) = Len(list) - n
    BY LenProperties DEF Under
  <1>2. IsFiniteSet(tour.left)
    <2>1. IsFiniteSet(1 .. Len(list))
      BY <1>1, CountUpTo
    <2>2. QED
      BY <1>1, <2>1, FS_Subset
  <1>3. tour.left # {}
    <2>1. SUFFICES ASSUME tour.left = {} PROVE FALSE
      OBVIOUS
    <2>2. Cardinality(tour.left) = 0
      BY <2>1, FS_EmptySet
    <2>3. QED
      BY <1>1, <2>2
  <1>4. /\ c \in tour.left /\ c \in 1 .. Len(list)
        /\ \A j \in tour.left : leg <= Distance[<<tour.place, list[j]>>]
    BY <1>1, <1>3, NearestExists
  <1>5. list[c] \in Places /\ leg \in Nat
    BY <1>1, <1>4, ElementOfSeq, DistancesAreNat
  <1>6. /\ next.left = tour.left \ {c} /\ next.stops = Append(old, stop)
        /\ next.place = list[c] /\ next.km = tour.km + leg
    BY DEF Visit
  <1>7. stop \in Stop /\ stop.parcel = c /\ stop.km = tour.km + leg
    BY <1>1, <1>4, <1>5 DEF Stop
  <1> HIDE DEF c, leg, stop, next
  <1>8. /\ new \in Seq(Stop) /\ Len(new) = n + 1 /\ new[n + 1] = stop
        /\ \A i \in 1 .. n : new[i] = old[i]
    BY <1>1, <1>6, <1>7, AppendProperties
  <1>9. Cardinality(next.left) = Len(list) - (n + 1)
    <2>1. Cardinality(tour.left \ {c}) = Cardinality(tour.left) - 1
      BY <1>2, <1>4, FS_RemoveElement
    <2>2. QED
      BY <1>1, <1>6, <2>1
  <1>10. \A i \in 0 .. n : Place(list, start, new, i) = Place(list, start, old, i)
                           /\ Driven(new, i) = Driven(old, i)
    BY <1>8 DEF Place, Driven
  <1>11. Place(list, start, new, n + 1) = list[c] /\ Driven(new, n + 1) = tour.km + leg
    BY <1>7, <1>8 DEF Place, Driven
  <1>12. \A i \in 1 .. n + 1 : new[i].parcel \in 1 .. Len(list) /\ new[i].parcel \notin next.left
    <2>1. SUFFICES ASSUME NEW i \in 1 .. n + 1
                   PROVE  new[i].parcel \in 1 .. Len(list) /\ new[i].parcel \notin next.left
      OBVIOUS
    <2>2. CASE i = n + 1
      BY <1>4, <1>6, <1>7, <1>8, <2>2
    <2>3. CASE i # n + 1
      <3>1. i \in 1 .. n
        BY <2>3
      <3>2. new[i] = old[i] /\ old[i].parcel \in 1 .. Len(list) /\ old[i].parcel \notin tour.left
        BY <1>8, <3>1 DEF Under
      <3>3. QED
        BY <1>6, <3>2
    <2>4. QED
      BY <2>2, <2>3
  <1>13. ASSUME NEW i \in 1 .. Len(list), i \notin next.left
         PROVE  \E j \in 1 .. n + 1 : new[j].parcel = i
    <2>1. CASE i = c
      BY <1>7, <1>8, <2>1
    <2>2. CASE i # c
      <3>1. PICK j \in 1 .. n : old[j].parcel = i
        BY <1>6, <1>13, <2>2 DEF Under
      <3>2. j \in 1 .. n + 1 /\ new[j].parcel = i
        BY <1>8, <3>1
      <3>3. QED
        BY <3>2
    <2>3. QED
      BY <2>1, <2>2
  <1>14. ASSUME NEW i \in 1 .. n + 1, NEW j \in 1 .. n + 1, new[i].parcel = new[j].parcel
         PROVE  i = j
    <2>1. \A k \in 1 .. n : new[k].parcel # c
      <3>1. SUFFICES ASSUME NEW k \in 1 .. n PROVE new[k].parcel # c
        OBVIOUS
      <3>2. old[k].parcel \notin tour.left
        BY DEF Under
      <3>3. new[k] = old[k]
        BY <1>8
      <3>4. QED
        BY <1>4, <3>2, <3>3
    <2>2. new[n + 1].parcel = c
      BY <1>7, <1>8
    <2>3. CASE i = n + 1 \/ j = n + 1
      BY <1>14, <2>1, <2>2, <2>3
    <2>4. CASE i # n + 1 /\ j # n + 1
      <3>1. i \in 1 .. n /\ j \in 1 .. n
        BY <2>4
      <3>2. old[i].parcel = old[j].parcel
        BY <1>8, <1>14, <3>1
      <3>3. QED
        BY <3>1, <3>2 DEF Under
    <2>5. QED
      BY <2>3, <2>4
  <1>15. ASSUME NEW i \in 1 .. n + 1
         PROVE  Driven(new, i) = Driven(new, i - 1) +
                    Distance[<<Place(list, start, new, i - 1), Place(list, start, new, i)>>]
    <2>1. CASE i = n + 1
      <3>1. i - 1 = n /\ n \in 0 .. n
        BY <2>1
      <3>2. QED
        BY <1>1, <1>10, <1>11, <2>1, <3>1 DEF leg
    <2>2. CASE i # n + 1
      <3>1. i \in 1 .. n /\ i \in 0 .. n /\ i - 1 \in 0 .. n
        BY <2>2
      <3>2. Driven(old, i) = Driven(old, i - 1) +
                    Distance[<<Place(list, start, old, i - 1), Place(list, start, old, i)>>]
        BY <3>1 DEF Under
      <3>3. QED
        BY <1>10, <3>1, <3>2
    <2>3. QED
      BY <2>1, <2>2
  <1>16. ASSUME NEW i \in 1 .. n + 1
         PROVE  /\ \A j \in i .. n + 1 :
                      Distance[<<Place(list, start, new, i - 1), Place(list, start, new, i)>>]
                      <= Distance[<<Place(list, start, new, i - 1), Place(list, start, new, j)>>]
                /\ \A k \in next.left :
                      Distance[<<Place(list, start, new, i - 1), Place(list, start, new, i)>>]
                      <= Distance[<<Place(list, start, new, i - 1), list[k]>>]
    <2>1. CASE i = n + 1
      <3>1. /\ Place(list, start, new, i - 1) = tour.place
            /\ Place(list, start, new, i) = list[c]
            /\ \A j \in i .. n + 1 : j = i
        <4>1. i - 1 = n /\ n \in 0 .. n
          BY <2>1
        <4>2. QED
          BY <1>1, <1>10, <1>11, <2>1, <4>1
      <3>2. \A k \in next.left : leg <= Distance[<<tour.place, list[k]>>]
        BY <1>4, <1>6
      <3>3. leg <= leg
        BY <1>5
      <3>4. leg = Distance[<<Place(list, start, new, i - 1), Place(list, start, new, i)>>]
        BY <3>1 DEF leg
      <3>5. QED
        BY <3>1, <3>2, <3>3, <3>4
    <2>2. CASE i # n + 1
      <3>1. i \in 1 .. n /\ i \in 0 .. n /\ i - 1 \in 0 .. n
        BY <2>2
      <3> DEFINE here == Place(list, start, old, i - 1)
                 there == Place(list, start, old, i)
      <3>2. /\ \A j \in i .. n : Distance[<<here, there>>]
                                 <= Distance[<<here, Place(list, start, old, j)>>]
            /\ \A k \in tour.left : Distance[<<here, there>>] <= Distance[<<here, list[k]>>]
        BY <3>1 DEF Under
      <3>3. Place(list, start, new, i - 1) = here /\ Place(list, start, new, i) = there
        BY <1>10, <3>1
      <3> HIDE DEF here, there
      <3>4. ASSUME NEW j \in i .. n + 1
            PROVE  Distance[<<here, there>>] <= Distance[<<here, Place(list, start, new, j)>>]
        <4>1. CASE j = n + 1
          BY <1>4, <1>11, <3>2, <4>1
        <4>2. CASE j # n + 1
          <5>1. j \in i .. n /\ j \in 0 .. n
            BY <3>1, <4>2
          <5>2. QED
            BY <1>10, <3>2, <5>1
        <4>3. QED
          BY <4>1, <4>2
      <3>5. ASSUME NEW k \in next.left
            PROVE  Distance[<<here, there>>] <= Distance[<<here, list[k]>>]
        BY <1>6, <3>2
      <3>6. QED
        BY <3>3, <3>4, <3>5
    <2>3. QED
      BY <2>1, <2>2
  <1>17. /\ next.left \in SUBSET (1 .. Len(list))
         /\ next.place = Place(list, start, new, n + 1) /\ next.place \in Places
         /\ next.km = Driven(new, n + 1) /\ next.km \in Nat
    BY <1>1, <1>5, <1>6, <1>11
  <1>18. Under(n + 1, list, start, next)
    BY <1>8, <1>9, <1>12, <1>13, <1>14, <1>15, <1>16, <1>17 DEF Under
  <1>19. QED
    BY <1>18 DEF next

\* The tour grows by a visit at a time.
Grows(n, list, start, c) ==
    /\ c[0] = SetOff(list, start)
    /\ \A i \in 1 .. n : c[i] = Visit(c[i - 1], list)

LEMMA GrowsUnder ==
    ASSUME NEW list \in Seq(Places), NEW start \in Places, NEW c, Grows(Len(list), list, start, c)
    PROVE  Under(Len(list), list, start, c[Len(list)])
  <1> DEFINE n == Len(list)
             S == {i \in 0 .. n : Under(i, list, start, c[i])}
  <1>1. n \in Nat
    BY LenProperties
  <1> HIDE DEF n
  <1>2. 0 \in S
    BY <1>1, SetsOff DEF Grows
  <1>3. ASSUME NEW i \in 1 .. n, i - 1 \in S PROVE i \in S
    <2>1. Under(i - 1, list, start, c[i - 1]) /\ i - 1 \in Nat /\ i - 1 < Len(list)
      BY <1>1, <1>3 DEF n
    <2>2. Under((i - 1) + 1, list, start, Visit(c[i - 1], list))
      BY <2>1, Visits
    <2>3. c[i] = Visit(c[i - 1], list)
      BY DEF Grows, n
    <2>4. (i - 1) + 1 = i
      BY <1>1
    <2>5. QED
      BY <1>1, <2>2, <2>3, <2>4
  <1>4. n \in S
    <2> HIDE DEF S
    <2>1. \A i \in 0 .. n : i \in S
      BY <1>1, <1>2, <1>3, UpTo
    <2>2. QED
      BY <1>1, <2>1
  <1>5. QED
    BY <1>4 DEF n

\* The tour that is built is one that grows in this way, to its full length.
LEMMA CalculatedGrows ==
    ASSUME NEW list \in Seq(Places), NEW start \in Places
    PROVE  \E c : /\ Grows(Len(list), list, start, c)
                  /\ CalculateCourierRoute(start, list)
                        = [start |-> start, stops |-> c[Len(list)].stops, km |-> c[Len(list)].km]
  <1> DEFINE n == Len(list)
             Builds(g) == g = [i \in 0 .. Len(list) |->
                                  IF i = 0 THEN [left |-> DOMAIN list, stops |-> <<>>,
                                                 place |-> start, km |-> 0]
                                  ELSE Visit(g[i - 1], list)]
             S == {i \in 0 .. n : \E T : \E c \in [0 .. i -> T] : Grows(i, list, start, c)}
  <1>1. n \in Nat
    BY LenProperties
  <1>2. 0 \in S
    <2> DEFINE d == [j \in 0 .. 0 |-> SetOff(list, start)]
    <2>1. d \in [0 .. 0 -> {SetOff(list, start)}] /\ d[0] = SetOff(list, start)
      OBVIOUS
    <2>2. \A i \in 1 .. 0 : FALSE
      OBVIOUS
    <2> HIDE DEF d
    <2>3. Grows(0, list, start, d)
      BY <2>1, <2>2 DEF Grows
    <2>4. \E T : \E c \in [0 .. 0 -> T] : Grows(0, list, start, c)
      BY <2>1, <2>3
    <2>5. QED
      BY <1>1, <2>4
  <1>3. ASSUME NEW i \in 1 .. n, i - 1 \in S PROVE i \in S
    <2>1. PICK T : \E c \in [0 .. i - 1 -> T] : Grows(i - 1, list, start, c)
      BY <1>3
    <2>2. PICK c \in [0 .. i - 1 -> T] : Grows(i - 1, list, start, c)
      BY <2>1
    <2> DEFINE more == Visit(c[i - 1], list)
    <2> HIDE DEF more
    <2> DEFINE d == [j \in 0 .. i |-> IF j = i THEN more ELSE c[j]]
    <2>3. d \in [0 .. i -> T \cup {more}]
      BY <1>1
    <2>4. /\ d[i] = more
          /\ \A j \in 0 .. i - 1 : d[j] = c[j]
      BY <1>1
    <2> HIDE DEF d
    <2>5. d[0] = SetOff(list, start)
      BY <1>1, <2>2, <2>4 DEF Grows
    <2>6. d[i] = Visit(d[i - 1], list)
      BY <1>1, <2>4 DEF more
    <2>7. \A j \in 1 .. i - 1 : d[j] = Visit(d[j - 1], list)
      <3>1. SUFFICES ASSUME NEW j \in 1 .. i - 1 PROVE d[j] = Visit(d[j - 1], list)
        OBVIOUS
      <3>2. j \in 0 .. i - 1 /\ j - 1 \in 0 .. i - 1
        BY <1>1
      <3>3. c[j] = Visit(c[j - 1], list)
        BY <2>2 DEF Grows
      <3>4. QED
        BY <2>4, <3>2, <3>3
    <2>8. Grows(i, list, start, d)
      <3>1. \A j \in 1 .. i : j = i \/ j \in 1 .. i - 1
        BY <1>1
      <3>2. QED
        BY <2>5, <2>6, <2>7, <3>1 DEF Grows
    <2>9. \E U : \E e \in [0 .. i -> U] : Grows(i, list, start, e)
      BY <2>3, <2>8
    <2>10. QED
      BY <1>1, <2>9
  <1>4. n \in S
    <2> HIDE DEF S, n
    <2>1. \A i \in 0 .. n : i \in S
      BY <1>1, <1>2, <1>3, UpTo
    <2>2. QED
      BY <1>1, <2>1
  <1>5. PICK T : \E c \in [0 .. n -> T] : Grows(n, list, start, c)
    BY <1>4
  <1>6. PICK c \in [0 .. n -> T] : Grows(n, list, start, c)
    BY <1>5
  <1>7. Builds(c)
    <2>1. \A i \in 0 .. n : c[i] = IF i = 0 THEN [left |-> DOMAIN list, stops |-> <<>>,
                                                  place |-> start, km |-> 0]
                                   ELSE Visit(c[i - 1], list)
      <3>1. ASSUME NEW i \in 0 .. n, i # 0 PROVE c[i] = Visit(c[i - 1], list)
        <4>1. i \in 1 .. n
          BY <1>1, <3>1
        <4>2. QED
          BY <1>6, <4>1 DEF Grows
      <3>2. c[0] = [left |-> DOMAIN list, stops |-> <<>>, place |-> start, km |-> 0]
        BY <1>6 DEF Grows, SetOff
      <3>3. QED
        BY <3>1, <3>2
    <2>2. QED
      BY <2>1
  <1> DEFINE f == CHOOSE g : Builds(g)
  <1>8. CalculateCourierRoute(start, list)
           = [start |-> start, stops |-> f[Len(list)].stops, km |-> f[Len(list)].km]
    BY DEF CalculateCourierRoute
  <1>9. Builds(f)
    <2> HIDE DEF Builds
    <2>1. QED
      BY <1>7
  <1> HIDE DEF f
  <1>10. \A i \in 0 .. n : f[i] = IF i = 0 THEN [left |-> DOMAIN list, stops |-> <<>>,
                                                 place |-> start, km |-> 0]
                                  ELSE Visit(f[i - 1], list)
    BY <1>9
  <1>11. Grows(n, list, start, f)
    <2> HIDE DEF Builds
    <2>1. f[0] = SetOff(list, start)
      BY <1>1, <1>10 DEF SetOff
    <2>2. ASSUME NEW i \in 1 .. n PROVE f[i] = Visit(f[i - 1], list)
      <3>1. i \in 0 .. n /\ i # 0
        BY <1>1
      <3>2. QED
        BY <1>10, <3>1
    <2>3. QED
      BY <2>1, <2>2 DEF Grows
  <1>12. QED
    BY <1>8, <1>11

\* What is stored for a list of parcels visits them all, by nearest neighbour.
LEMMA CalculatedIsComplete ==
    ASSUME NEW list \in Seq(Places), NEW start \in Places
    PROVE  LET tour == CalculateCourierRoute(start, list)
           IN  /\ CompleteTour(list, tour)
               /\ tour.start = start /\ tour.stops \in Seq(Stop) /\ tour.km \in Nat
  <1>1. PICK c : /\ Grows(Len(list), list, start, c)
                 /\ CalculateCourierRoute(start, list)
                       = [start |-> start, stops |-> c[Len(list)].stops, km |-> c[Len(list)].km]
    BY CalculatedGrows
  <1> DEFINE n == Len(list)
             end == c[n]
             tour == CalculateCourierRoute(start, list)
             stops == end.stops
  <1>2. n \in Nat /\ DOMAIN list = 1 .. n
    BY LenProperties
  <1>3. Under(n, list, start, end)
    BY <1>1, GrowsUnder
  <1>4. tour.start = start /\ tour.stops = stops /\ tour.km = end.km
    BY <1>1
  <1> HIDE DEF tour, end, n
  <1>5. end.left = {}
    <2>1. end.left \in SUBSET (1 .. n) /\ Cardinality(end.left) = n - n
      BY <1>3 DEF Under, n
    <2>2. IsFiniteSet(1 .. n)
      BY <1>2, CountUpTo
    <2>3. IsFiniteSet(end.left)
      BY <2>1, <2>2, FS_Subset
    <2>4. Cardinality(end.left) = 0
      BY <1>2, <2>1
    <2>5. QED
      BY <2>3, <2>4, FS_EmptySet
  <1>6. /\ stops \in Seq(Stop) /\ Len(stops) = n
        /\ end.km = Driven(stops, n) /\ end.km \in Nat
    BY <1>3 DEF Under
  <1>7. DOMAIN stops = 1 .. n
    BY <1>6, LenProperties
  <1>8. \A i \in 1 .. n : \E j \in 1 .. n : stops[j].parcel = i
    BY <1>3, <1>5 DEF Under, n
  <1>9. \A i, j \in 1 .. n : stops[i].parcel = stops[j].parcel => i = j
    BY <1>3 DEF Under
  <1>10. \A i \in 1 .. n :
            Driven(stops, i) = Driven(stops, i - 1) +
                Distance[<<Place(list, start, stops, i - 1), Place(list, start, stops, i)>>]
    BY <1>3 DEF Under
  <1>11. \A i \in 1 .. n : \A j \in i .. n :
            Distance[<<Place(list, start, stops, i - 1), Place(list, start, stops, i)>>]
            <= Distance[<<Place(list, start, stops, i - 1), Place(list, start, stops, j)>>]
    BY <1>3 DEF Under
  <1> HIDE DEF stops
  <1>12. CompleteTour(list, tour)
    <2> DEFINE place(i) == IF i = 0 THEN tour.start ELSE list[tour.stops[i].parcel]
               driven(i) == IF i = 0 THEN 0 ELSE tour.stops[i].km
    <2>1. /\ Len(tour.stops) = Len(list) /\ tour.km = driven(Len(tour.stops))
          /\ DOMAIN tour.stops = 1 .. n /\ Len(tour.stops) = n
      BY <1>4, <1>6, <1>7 DEF n, Driven
    <2>2. \A i : place(i) = Place(list, start, stops, i) /\ driven(i) = Driven(stops, i)
      BY <1>4 DEF Place, Driven
    <2> HIDE DEF place, driven
    <2>3. \A i \in DOMAIN tour.stops :
             driven(i) = driven(i - 1) + Distance[<<place(i - 1), place(i)>>]
      BY <1>10, <2>1, <2>2
    <2>4. \A i \in DOMAIN tour.stops : \A j \in i .. Len(tour.stops) :
             Distance[<<place(i - 1), place(i)>>] <= Distance[<<place(i - 1), place(j)>>]
      BY <1>11, <2>1, <2>2
    <2>5. /\ \A i \in DOMAIN list : \E j \in DOMAIN tour.stops : tour.stops[j].parcel = i
          /\ \A i, j \in DOMAIN tour.stops : tour.stops[i].parcel = tour.stops[j].parcel => i = j
      BY <1>2, <1>4, <1>8, <1>9, <2>1
    <2>6. QED
      BY <2>1, <2>3, <2>4, <2>5, Zenon DEF CompleteTour, place, driven
  <1>13. QED
    BY <1>4, <1>6, <1>12 DEF tour

\* What a request holds on to is of the kind that its next step expects.
InHand ==
    \A q \in TourFinds :
        /\ tourStage[q] \in {"hub", "store"} => parcels[q] \in ParcelLists
        /\ tourStage[q] = "store" => hub[q] \in Places

TourInv == TourTypeOK /\ InHand /\ ToursComplete

LEMMA InitTours == TourInit => TourInv
  <1>1. SUFFICES ASSUME TourInit PROVE TourInv
    OBVIOUS
  <1>2. TourTypeOK
    BY <1>1 DEF TourInit, TourTypeOK
  <1>3. InHand /\ ToursComplete
    BY <1>1 DEF TourInit, InHand, ToursComplete
  <1>4. QED
    BY <1>2, <1>3 DEF TourInv

LEMMA StepTours == TourInv /\ [TourNext]_tourVars => TourInv'
  <1>1. SUFFICES ASSUME TourInv, [TourNext]_tourVars PROVE TourInv'
    OBVIOUS
  <1> DEFINE Stages == {"start", "parcels", "hub", "store", "503", "500", "200"}
  <1>2. /\ tourStage \in [TourFinds -> Stages]
        /\ parcels \in [TourFinds -> ParcelLists \cup {NoTour}]
        /\ hub \in [TourFinds -> Places \cup {NoTour}]
    BY <1>1 DEF TourInv, TourTypeOK
  <1>3. ASSUME UNCHANGED tours PROVE ToursComplete'
    BY <1>1, <1>3 DEF TourInv, ToursComplete
  <1>4. ASSUME UNCHANGED tours, tourStage' \in [TourFinds -> Stages],
               parcels' \in [TourFinds -> ParcelLists \cup {NoTour}],
               hub' \in [TourFinds -> Places \cup {NoTour}]
        PROVE  TourTypeOK'
    BY <1>1, <1>4 DEF TourInv, TourTypeOK
  <1>5. ASSUME NEW q \in TourFinds, TourLookup(q) PROVE TourInv'
    <2>1. UNCHANGED <<tours, parcels, hub>>
      BY <1>5 DEF TourLookup
    <2>2. PICK to \in {"200", "parcels"} : tourStage' = [tourStage EXCEPT ![q] = to]
      BY <1>5 DEF TourLookup, TourStep
    <2>3. InHand'
      BY <1>1, <1>2, <2>1, <2>2 DEF TourInv, InHand
    <2>4. QED
      BY <1>2, <1>3, <1>4, <2>1, <2>2, <2>3 DEF TourInv
  <1>6. ASSUME NEW q \in TourFinds, TourFails(q) PROVE TourInv'
    <2>1. UNCHANGED <<tours, hub>> /\ parcels' = [parcels EXCEPT ![q] = NoTour]
      BY <1>6 DEF TourFails
    <2>2. PICK to \in {"503", "500"} : tourStage' = [tourStage EXCEPT ![q] = to]
      BY <1>6 DEF TourFails, TourStep
    <2>3. InHand'
      BY <1>1, <1>2, <2>1, <2>2 DEF TourInv, InHand
    <2>4. QED
      BY <1>2, <1>3, <1>4, <2>1, <2>2, <2>3 DEF TourInv
  <1>7. ASSUME NEW q \in TourFinds, GetCourierDeliveryPoints(q) PROVE TourInv'
    <2>1. UNCHANGED <<tours, hub>> /\ tourStage' = [tourStage EXCEPT ![q] = "hub"]
      BY <1>7 DEF GetCourierDeliveryPoints, TourStep
    <2>2. PICK list \in ParcelLists : parcels' = [parcels EXCEPT ![q] = list]
      BY <1>7 DEF GetCourierDeliveryPoints
    <2>3. InHand'
      BY <1>1, <1>2, <2>1, <2>2 DEF TourInv, InHand
    <2>4. QED
      BY <1>2, <1>3, <1>4, <2>1, <2>2, <2>3 DEF TourInv
  <1>8. ASSUME NEW q \in TourFinds, GetCourierHub(q) PROVE TourInv'
    <2>1. /\ UNCHANGED <<tours, parcels>> /\ tourStage' = [tourStage EXCEPT ![q] = "store"]
          /\ tourStage[q] = "hub"
      BY <1>8 DEF GetCourierHub, TourStep
    <2>2. PICK place \in Places : hub' = [hub EXCEPT ![q] = place]
      BY <1>8 DEF GetCourierHub
    <2>3. InHand'
      BY <1>1, <1>2, <2>1, <2>2 DEF TourInv, InHand
    <2>4. QED
      BY <1>2, <1>3, <1>4, <2>1, <2>2, <2>3 DEF TourInv
  <1>9. ASSUME NEW q \in TourFinds, SetTour(q) PROVE TourInv'
    <2> DEFINE list == parcels[q]
               tour == CalculateCourierRoute(hub[q], list)
    <2>1. /\ tourStage[q] = "store" /\ tourStage' = [tourStage EXCEPT ![q] = "200"]
          /\ parcels' = [parcels EXCEPT ![q] = NoTour]
          /\ hub' = [hub EXCEPT ![q] = NoTour]
          /\ tours' = [asked |-> list, tour |-> tour] \/ UNCHANGED tours
      BY <1>9 DEF SetTour, TourStep
    <2>2. list \in ParcelLists /\ list \in Seq(Places) /\ hub[q] \in Places
      BY <1>1, <2>1, CourierRouteAssumption DEF TourInv, InHand
    <2> HIDE DEF list
    <2>3. /\ CompleteTour(list, tour)
          /\ tour.start \in Places /\ tour.stops \in Seq(Stop) /\ tour.km \in Nat
      BY <2>2, CalculatedIsComplete
    <2> HIDE DEF tour
    <2>4. InHand'
      BY <1>1, <1>2, <2>1 DEF TourInv, InHand
    <2>5. CASE UNCHANGED tours
      BY <1>2, <1>3, <1>4, <2>1, <2>4, <2>5 DEF TourInv
    <2>6. CASE tours' = [asked |-> list, tour |-> tour]
      <3>1. tours'.asked = list /\ tours'.tour = tour
        BY <2>6
      <3>2. ToursComplete'
        BY <2>3, <3>1 DEF ToursComplete
      <3>3. /\ tourStage' \in [TourFinds -> Stages]
            /\ parcels' \in [TourFinds -> ParcelLists \cup {NoTour}]
            /\ hub' \in [TourFinds -> Places \cup {NoTour}]
        BY <1>2, <2>1
      <3>4. TourTypeOK'
        BY <2>2, <2>3, <3>1, <3>3 DEF TourTypeOK
      <3>5. QED
        BY <2>4, <3>2, <3>4 DEF TourInv
    <2>7. QED
      BY <2>1, <2>5, <2>6
  <1>10. ASSUME TourExpires PROVE TourInv'
    <2>1. tours' = NoTour /\ UNCHANGED <<tourStage, parcels, hub>>
      BY <1>10 DEF TourExpires
    <2>2. TourTypeOK' /\ InHand' /\ ToursComplete'
      BY <1>1, <2>1 DEF TourInv, TourTypeOK, InHand, ToursComplete
    <2>3. QED
      BY <2>2 DEF TourInv
  <1>11. ASSUME UNCHANGED tourVars PROVE TourInv'
    <2>1. TourTypeOK' /\ InHand' /\ ToursComplete'
      BY <1>1, <1>11 DEF tourVars, TourInv, TourTypeOK, InHand, ToursComplete
    <2>2. QED
      BY <2>1 DEF TourInv
  <1>12. QED
    BY <1>1, <1>5, <1>6, <1>7, <1>8, <1>9, <1>10, <1>11 DEF TourNext, GetCourierRouteStep

\* What is known of a tour at every step of the requests for it.
THEOREM TourInvariant == TourSpec => []TourInv
  <1>1. QED
    BY InitTours, StepTours, PTL DEF TourSpec

\* The variables of the courier tours always have their types.
THEOREM TourTypes == TourSpec => []TourTypeOK
  <1>1. TourInv => TourTypeOK
    BY DEF TourInv
  <1>2. QED
    BY <1>1, TourInvariant, PTL

\* A courier is never given a stored tour that misses a parcel or visits one
\* twice, says of a stop or of the whole a wrong length, or passes a nearer
\* parcel by: so for every list of parcels and every matrix of distances.
THEOREM ToursAlwaysComplete == TourSpec => []ToursComplete
  <1>1. TourInv => ToursComplete
    BY DEF TourInv
  <1>2. QED
    BY <1>1, TourInvariant, PTL
=============================================================================
