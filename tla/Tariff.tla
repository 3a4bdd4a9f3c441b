------------------------------- MODULE Tariff -------------------------------
(***************************************************************************)
(* The two prices of a parcel: the quote of pricing-service (weight,       *)
(* volume, zone, oversize) and the price that order-service stores with an *)
(* order (weight, insurance, cash on delivery).  Neither asks the other.   *)
(* Both are pure but for three lookups of pricing-service that may fail,   *)
(* and the failure of one, that of the surcharge, is passed over.          *)
(*                                                                         *)
(* The code computes with floats and checks no number that it is given, so *)
(* 0 and negative numbers are inputs.  Here prices are exact: a quote is   *)
(* counted in 1/6000 of the unit of its rate, the price of an order in     *)
(* 1/2500 of a rupiah, and weights of order-service in tenths.             *)
(***************************************************************************)
EXTENDS Integers, FiniteSets, FiniteSetsExt

CONSTANTS
    Lanes,          \* pairs of an origin and a destination
    Zones,          \* zone ids
    Services,       \* service types
    ZoneOf,         \* table zones
    Rates,          \* table rates
    Oversize,       \* the value of the surcharge OVERSIZE
    NotFound,       \* no row
    Weights, Sides, \* what a request may say
    OrderWeights,
    MaxAnswers      \* bound: how many answers of each kind are compared

Rate == [perKg : Nat, minWeight : Nat, maxWeight : Nat,
         maxLength : Nat, maxWidth : Nat, maxHeight : Nat]

ASSUME TariffAssumption ==
    /\ ZoneOf \in [Lanes -> Zones \cup {NotFound}]
    /\ Rates \in [Zones \X Services -> Rate \cup {NotFound}]
    /\ NotFound \notin Zones
    /\ Oversize \in Nat /\ NotFound \notin Nat
    /\ Weights \cup Sides \cup OrderWeights \subseteq Int
    /\ MaxAnswers \in Nat

VARIABLES
    quotes,     \* history: the quotes that pricing-service answered
    bills       \* history: the prices that order-service stored

tariffVars == <<quotes, bills>>

TariffInit == quotes = {} /\ bills = {}

-----------------------------------------------------------------------------
(* pricing-service                                                          *)

\* A centimetre cubed weighs 1/6000 kg.
Volume(p) == p.length * p.width * p.height
\* Mutant: a parcel that has a volume is charged by its volume.
ChargeableWeight_VolumeFirst(p, rate) ==
    Max({IF Volume(p) > 0 THEN Volume(p) ELSE 6000 * p.weight, 6000 * rate.minWeight})

ChargeableWeight(p, rate) == Max({6000 * p.weight, Volume(p), 6000 * rate.minWeight})

IsOversize(p, rate) ==
    p.length > rate.maxLength \/ p.width > rate.maxWidth \/ p.height > rate.maxHeight
    \/ p.weight > rate.maxWeight

\* What a lookup may return: the row, or nothing if it fails.
GetZone(lane) == {ZoneOf[lane], NotFound}
GetRate(zone, service) == {Rates[<<zone, service>>], NotFound}
GetSurcharge == {Oversize, NotFound}

\* Without a zone or a rate the answer is 500; without the surcharge it is 0.
CalculatePrice(lane, service, p) ==
    \E zone \in GetZone(lane) \ {NotFound} :
    \E rate \in GetRate(zone, service) \ {NotFound}, surcharge \in GetSurcharge :
        quotes' = quotes \cup
            {[lane |-> lane, service |-> service, parcel |-> p,
              complete |-> surcharge # NotFound,
              price |-> ChargeableWeight(p, rate) * rate.perKg +
                        (IF IsOversize(p, rate) /\ surcharge # NotFound
                         THEN 6000 * surcharge ELSE 0)]}

-----------------------------------------------------------------------------
(* order-service                                                            *)

BaseRate(service) ==
    CASE service = "YES" -> 19000
      [] service = "OKE" -> 7000
      [] service = "SAME_DAY" -> 25000
      [] OTHER -> 9000

EstimatedDays(service) ==
    CASE service \in {"SAME_DAY", "YES"} -> 1
      [] service = "OKE" -> 5
      [] OTHER -> 3

\* Insurance is 20 % of the price so far and cash on delivery 2 % of what that
\* makes.  A price that is not positive is that of one unit.
OrderPrice(service, tenths, insurance, cod) ==
    LET weighed == BaseRate(service) * tenths
        base == IF weighed <= 0 THEN BaseRate(service) * 10 ELSE weighed
    IN  base * (IF insurance THEN 6 ELSE 5) * (IF cod THEN 51 ELSE 50)

PriceOrder(service, tenths, insurance, cod) ==
    bills' = bills \cup {[service |-> service, tenths |-> tenths,
                          insurance |-> insurance, cod |-> cod,
                          price |-> OrderPrice(service, tenths, insurance, cod),
                          days |-> EstimatedDays(service)]}

Parcel == [weight : Weights, length : Sides, width : Sides, height : Sides]

\* Quotes are compared with quotes and bills with bills.
Quote ==
    /\ Cardinality(quotes) < MaxAnswers /\ bills = {}
    /\ \E lane \in Lanes, service \in Services, p \in Parcel : CalculatePrice(lane, service, p)
    /\ UNCHANGED bills

Bill ==
    /\ Cardinality(bills) < MaxAnswers /\ quotes = {}
    /\ \E service \in Services, tenths \in OrderWeights, insurance, cod \in BOOLEAN :
          PriceOrder(service, tenths, insurance, cod)
    /\ UNCHANGED quotes

TariffNext == Quote \/ Bill

TariffSpec == TariffInit /\ [][TariffNext]_tariffVars
-----------------------------------------------------------------------------
(* Properties                                                               *)

TariffTypeOK ==
    /\ \A q \in quotes : q.parcel \in Parcel /\ q.price \in Int
    /\ \A b \in bills : b.price \in Nat

\* A parcel no lighter and no smaller than another is quoted no less on the
\* same lane and service, unless the lookup of its surcharge failed (or a side
\* is negative).
Within(p, q) ==
    /\ p.weight <= q.weight
    /\ 0 <= p.length /\ p.length <= q.length
    /\ 0 <= p.width /\ p.width <= q.width
    /\ 0 <= p.height /\ p.height <= q.height

BiggerCostsMore ==
    \A q, r \in quotes :
        q.lane = r.lane /\ q.service = r.service /\ Within(q.parcel, r.parcel) /\ r.complete
            => q.price <= r.price

\* Of two orders of a service the one that asks for no more costs no more,
\* except that a weight of 0 or less is priced as one unit, and so dearer than
\* what weighs less than one; and a service that promises fewer days is dearer.
AsksNoMore(a, b) == (a.insurance => b.insurance) /\ (a.cod => b.cod)

OrdersPricedFairly ==
    \A a, b \in bills :
        /\ a.service = b.service /\ AsksNoMore(a, b) /\ a.tenths <= b.tenths
               => a.price <= b.price \/ (a.tenths <= 0 /\ b.tenths < 10)
        /\ a.tenths = b.tenths /\ a.insurance = b.insurance /\ a.cod = b.cod
           /\ a.days < b.days
               => a.price > b.price

PricesOrdered == BiggerCostsMore /\ OrdersPricedFairly
=============================================================================
