------------------------------ MODULE Services ------------------------------
(***************************************************************************)
(* The parts that share no state: the two halves of routing-service and    *)
(* its search, delivery-service, warehouse-service, notification-service   *)
(* and the two tariffs.  No step of one part reads or writes a variable of *)
(* another, so every behaviour of all of them together is an interleaving  *)
(* of behaviours of each: all of them running together are the conjunction *)
(* of their specifications, Parts.                                         *)
(*                                                                         *)
(* Spec is not all of them together.  One part, chosen at the start, runs  *)
(* and the others rest in their initial states, so that TLC sees every     *)
(* state of every part without the product of them all.  An invariant of a *)
(* part does not tell Spec from Parts; the theorems of ServicesProofs are  *)
(* stated for Parts.                                                       *)
(***************************************************************************)
EXTENDS Dijkstra, Routing, CourierRoute, Delivery, Stock, Notification, Tariff

VARIABLE part   \* the part that runs

servicesVars == <<searchVars, routingVars, tourVars, deliveryVars, stockVars,
                  notificationVars, tariffVars>>

Init ==
    /\ SearchInit
    /\ RoutingInit
    /\ TourInit
    /\ DeliveryInit
    /\ StockInit
    /\ NotificationInit
    /\ TariffInit
    /\ part \in {"search", "routing", "tour", "delivery", "stock", "notification", "tariff"}

Next ==
    /\ UNCHANGED part
    /\ \/ /\ part = "search" /\ SearchNext
          /\ UNCHANGED <<routingVars, tourVars, deliveryVars, stockVars, notificationVars, tariffVars>>
       \/ /\ part = "routing" /\ RoutingNext
          /\ UNCHANGED <<searchVars, tourVars, deliveryVars, stockVars, notificationVars, tariffVars>>
       \/ /\ part = "tour" /\ TourNext
          /\ UNCHANGED <<searchVars, routingVars, deliveryVars, stockVars, notificationVars, tariffVars>>
       \/ /\ part = "delivery" /\ DeliveryNext
          /\ UNCHANGED <<searchVars, routingVars, tourVars, stockVars, notificationVars, tariffVars>>
       \/ /\ part = "stock" /\ StockNext
          /\ UNCHANGED <<searchVars, routingVars, tourVars, deliveryVars, notificationVars, tariffVars>>
       \/ /\ part = "notification" /\ NotificationNext
          /\ UNCHANGED <<searchVars, routingVars, tourVars, deliveryVars, stockVars, tariffVars>>
       \/ /\ part = "tariff" /\ TariffNext
          /\ UNCHANGED <<searchVars, routingVars, tourVars, deliveryVars, stockVars, notificationVars>>

Spec == Init /\ [][Next]_<<servicesVars, part>>

Parts ==
    /\ SearchSpec
    /\ RoutingSpec
    /\ TourSpec
    /\ DeliverySpec
    /\ StockSpec
    /\ NotificationSpec
    /\ TariffSpec

\* Every variable of every part has its type.
ServicesTypeOK ==
    /\ SearchTypeOK
    /\ RoutingTypeOK
    /\ TourTypeOK
    /\ DeliveryTypeOK
    /\ StockTypeOK
    /\ NotificationTypeOK
    /\ TariffTypeOK
=============================================================================
