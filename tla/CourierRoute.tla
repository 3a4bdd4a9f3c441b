---------------------------- MODULE CourierRoute ----------------------------
(***************************************************************************)
(* routing-service: the daily route of a courier.  On a miss in the cache  *)
(* the service asks delivery-service for the courier's parcels and then    *)
(* for the courier's hub, orders the parcels by nearest neighbour and      *)
(* stores the tour for ten minutes.                                        *)
(*                                                                         *)
(* Of an answer of delivery-service only 503 counts as unavailable: any    *)
(* other body is decoded, so one that is an object but not a hub gives an  *)
(* empty hub, Nowhere (latitude and longitude 0).  delivery-service may    *)
(* answer differently from one request to the next.                        *)
(***************************************************************************)
EXTENDS Integers, Sequences, FiniteSets

CONSTANTS
    TourFinds,      \* GET /routing/courier-route, all for one courier and day
    Places,         \* where parcels and hubs are
    Nowhere,        \* the place of an empty hub
    Distance,       \* Distance[<<p, q>>], HaversineDistance
    ParcelLists,    \* the lists of places that delivery-service may answer
    NoTour          \* nothing is cached, or known yet

ASSUME CourierRouteAssumption ==
    /\ Nowhere \in Places
    /\ Distance \in [Places \X Places -> Nat]
    /\ ParcelLists \subseteq Seq(Places)

VARIABLES
    tours,      \* the cached tour, with the parcels that were to be visited
    tourStage,  \* tourStage[q] : the next step of request q, or its answer
    parcels,    \* parcels[q] : the places of the parcels
    hub         \* hub[q] : where the courier starts

tourVars == <<tours, tourStage, parcels, hub>>

TourInit ==
    /\ tours = NoTour
    /\ tourStage = [q \in TourFinds |-> "start"]
    /\ parcels = [q \in TourFinds |-> NoTour]
    /\ hub = [q \in TourFinds |-> NoTour]

\* The first of the parcels that are left and nearest.
Nearest(place, left, list) ==
    CHOOSE i \in left : \A j \in left :
        LET near == Distance[<<place, list[i]>>]
            far == Distance[<<place, list[j]>>]
        IN  near < far \/ (near = far /\ i <= j)

\* Mutant: the courier is taken to be still where it was.
Visit_NotMoved(tour, list) ==
    LET i == Nearest(tour.place, tour.left, list)
        km == tour.km + Distance[<<tour.place, list[i]>>]
    IN  [left |-> tour.left \ {i}, stops |-> Append(tour.stops, [parcel |-> i, km |-> km]),
         place |-> tour.place, km |-> km]

\* The tour goes on to the nearest parcel; the kilometres until there give the
\* time of the stop.
Visit(tour, list) ==
    LET i == Nearest(tour.place, tour.left, list)
        km == tour.km + Distance[<<tour.place, list[i]>>]
    IN  [left |-> tour.left \ {i}, stops |-> Append(tour.stops, [parcel |-> i, km |-> km]),
         place |-> list[i], km |-> km]

\* A parcel is known by its place in the list.
CalculateCourierRoute(start, list) ==
    LET tour[n \in 0 .. Len(list)] ==
            IF n = 0 THEN [left |-> DOMAIN list, stops |-> <<>>, place |-> start, km |-> 0]
            ELSE Visit(tour[n - 1], list)
    IN  [start |-> start, stops |-> tour[Len(list)].stops, km |-> tour[Len(list)].km]

TourStep(q, from, to) ==
    /\ tourStage[q] = from
    /\ tourStage' = [tourStage EXCEPT ![q] = to]

\* A hit is the answer.  An error of Redis is a miss.
TourLookup(q) ==
    /\ \/ tours # NoTour /\ TourStep(q, "start", "200")
       \/ TourStep(q, "start", "parcels")
    /\ UNCHANGED <<tours, parcels, hub>>

\* 503 if delivery-service is not reached, 500 if it is not understood.
TourFails(q) ==
    /\ \E from \in {"parcels", "hub"}, answer \in {"503", "500"} : TourStep(q, from, answer)
    /\ parcels' = [parcels EXCEPT ![q] = NoTour]
    /\ UNCHANGED <<tours, hub>>

GetCourierDeliveryPoints(q) ==
    /\ TourStep(q, "parcels", "hub")
    /\ \E list \in ParcelLists : parcels' = [parcels EXCEPT ![q] = list]
    /\ UNCHANGED <<tours, hub>>

GetCourierHub(q) ==
    /\ TourStep(q, "hub", "store")
    /\ \E place \in Places : hub' = [hub EXCEPT ![q] = place]
    /\ UNCHANGED <<tours, parcels>>

\* The answer is sent whether or not the tour could be stored.
SetTour(q) ==
    /\ TourStep(q, "store", "200")
    /\ \/ tours' = [asked |-> parcels[q], tour |-> CalculateCourierRoute(hub[q], parcels[q])]
       \/ UNCHANGED tours
    /\ parcels' = [parcels EXCEPT ![q] = NoTour]
    /\ hub' = [hub EXCEPT ![q] = NoTour]

TourExpires ==
    /\ tours # NoTour
    /\ tours' = NoTour
    /\ UNCHANGED <<tourStage, parcels, hub>>

GetCourierRouteStep(q) ==
    \/ TourLookup(q)
    \/ TourFails(q)
    \/ GetCourierDeliveryPoints(q)
    \/ GetCourierHub(q)
    \/ SetTour(q)

TourNext ==
    \/ \E q \in TourFinds : GetCourierRouteStep(q)
    \/ TourExpires

TourSpec == TourInit /\ [][TourNext]_tourVars
-----------------------------------------------------------------------------
(* Properties                                                               *)

Stop == [parcel : Nat, km : Nat]

TourTypeOK ==
    /\ tours # NoTour => /\ tours.asked \in ParcelLists
                         /\ tours.tour.start \in Places
                         /\ tours.tour.stops \in Seq(Stop)
                         /\ tours.tour.km \in Nat
    /\ tourStage \in [TourFinds -> {"start", "parcels", "hub", "store", "503", "500", "200"}]
    /\ parcels \in [TourFinds -> ParcelLists \cup {NoTour}]
    /\ hub \in [TourFinds -> Places \cup {NoTour}]

\* A tour for a list of parcels visits every one of them, each once, says of
\* each stop and of the whole how long it is, and no stop could be exchanged
\* for a nearer one that comes later.
CompleteTour(list, tour) ==
    LET stops == tour.stops
        place(i) == IF i = 0 THEN tour.start ELSE list[stops[i].parcel]
        driven(i) == IF i = 0 THEN 0 ELSE stops[i].km
    IN  /\ Len(stops) = Len(list)
        /\ \A i \in DOMAIN list : \E j \in DOMAIN stops : stops[j].parcel = i
        /\ \A i, j \in DOMAIN stops : stops[i].parcel = stops[j].parcel => i = j
        /\ \A i \in DOMAIN stops :
              driven(i) = driven(i - 1) + Distance[<<place(i - 1), place(i)>>]
        /\ tour.km = driven(Len(stops))
        /\ \A i \in DOMAIN stops : \A j \in i .. Len(stops) :
              Distance[<<place(i - 1), place(i)>>] <= Distance[<<place(i - 1), place(j)>>]

\* A tour that couriers are given from the cache is complete for the parcels
\* that it was computed for.
ToursComplete == tours # NoTour => CompleteTour(tours.asked, tours.tour)
=============================================================================
