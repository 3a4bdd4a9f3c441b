------------------------------ MODULE Delivery ------------------------------
(***************************************************************************)
(* delivery-service: couriers and delivery jobs.  An assignment asks       *)
(* routing-service for the courier's route and then inserts a job; a       *)
(* report (POST /delivery/status) reads the job of its parcel, builds a    *)
(* whole new status from the report and writes all its columns, whatever   *)
(* the job's status is and whoever reports.                                *)
(*                                                                         *)
(* Job ids are random and a parcel has at most one job (tracking_number is *)
(* UNIQUE), so a job is found by its parcel.  Requests may overlap in any  *)
(* way, a statement may fail, and the answer of one that took effect may   *)
(* be lost: both end in an error answer.                                   *)
(***************************************************************************)
EXTENDS Naturals, FiniteSets

CONSTANTS
    Parcels,        \* tracking numbers
    DeliveryCouriers,   \* courier ids
    Hires, Moves,   \* POST and PATCH /delivery/couriers
    Assigns,        \* POST /delivery/assign
    Reports,        \* POST /delivery/status
    Absent,         \* no such row, or nothing yet
    MaxAtOnce       \* bound: how many requests are between two of their steps

DeliveryRequests == Hires \cup Moves \cup Assigns \cup Reports

ASSUME DeliveryAssumption ==
    /\ IsFiniteSet(Reports)
    /\ Reports \cap (Hires \cup Moves \cup Assigns) = {}
    /\ Absent \notin DeliveryRequests \cup Parcels \cup DeliveryCouriers
    /\ MaxAtOnce \in Nat \ {0}

Reportable == {"DELIVERED", "FAILED_ATTEMPT", "RETURNED"}
JobStatus == {"OUT_FOR_DELIVERY", "DELIVERED", "FAILED", "RETURNED"}

\* proof_photo_url, recipient_name, notes and completed_at follow from the
\* status and its report: every report writes all of them.
Update == [status : JobStatus, attempts : Nat]
Job == [courier : DeliveryCouriers, status : JobStatus, attempts : Nat]
NoUpdate == [status |-> "NONE", attempts |-> 0]

\* The position is that of the request that set it, Absent before.
Courier == [available : BOOLEAN, position : Moves \cup {Absent}]

ASSUME AbsentAssumption == Absent \notin Job /\ Absent \notin Courier

VARIABLES
    couriers,   \* table couriers: is_available, and who set the position last
    jobs,       \* table delivery_jobs, by tracking number
    step,       \* step[q] : the next step of request q, or its answer
    parcel,     \* parcel[q] : the tracking number that q names
    kind,       \* kind[r] : what report r says
    update,     \* update[r] : what it will write
    applied,    \* history: the reports that were written
    clashed     \* history: the parcels with two reports at the same time

deliveryVars == <<couriers, jobs, step, parcel, update, kind, applied, clashed>>

DeliveryInit ==
    /\ couriers = [c \in DeliveryCouriers |-> Absent]
    /\ jobs = [p \in Parcels |-> Absent]
    /\ step = [q \in DeliveryRequests |-> "start"]
    /\ parcel = [q \in Reports |-> Absent]
    /\ update = [r \in Reports |-> NoUpdate]
    /\ kind = [r \in Reports |-> "NONE"]
    /\ applied = {}
    /\ clashed = {}

Advance(q, next) == step' = [step EXCEPT ![q] = next]

\* 400, 404, 500 or 502: nothing is written.
Refuse(q) ==
    /\ step[q] \in {"start", "insert", "update"}
    /\ Advance(q, "failed")
    /\ update' = [r \in Reports |-> IF r = q THEN NoUpdate ELSE update[r]]
    /\ UNCHANGED <<couriers, jobs, parcel, kind, applied, clashed>>

Answers(q) == \E answer \in {"ok", "failed"} : Advance(q, answer)

\* Bound: only so many requests run at once.
Starts(q) ==
    /\ step[q] = "start"
    /\ Cardinality({p \in DeliveryRequests : step[p] \in {"insert", "update"}}) < MaxAtOnce

-----------------------------------------------------------------------------
(* Couriers                                                                 *)

CreateCourier(q, c) ==
    /\ Starts(q)
    /\ couriers[c] = Absent
    /\ couriers' = [couriers EXCEPT ![c] = [available |-> TRUE, position |-> Absent]]
    /\ Answers(q)
    /\ UNCHANGED <<jobs, parcel, update, kind, applied, clashed>>

\* Columns that the request does not name keep their values.
UpdateCourier(q, c) ==
    /\ Starts(q)
    /\ couriers[c] # Absent
    /\ \E available \in {couriers[c].available, TRUE, FALSE},
          position \in {couriers[c].position, q} :
          couriers' = [couriers EXCEPT ![c] =
                          [available |-> available, position |-> position]]
    /\ Answers(q)
    /\ UNCHANGED <<jobs, parcel, update, kind, applied, clashed>>

-----------------------------------------------------------------------------
(* Jobs                                                                     *)

\* The route comes first; without it there is no job.
GetCourierRoute(q) ==
    /\ Starts(q)
    /\ Advance(q, "insert")
    /\ UNCHANGED <<couriers, jobs, parcel, update, kind, applied, clashed>>

NewJob(c) == [courier |-> c, status |-> "OUT_FOR_DELIVERY", attempts |-> 0]

\* Mutant: the INSERT replaces the job that is there.
CreateDeliveryJob_Replaces(q, p, c) ==
    /\ step[q] = "insert"
    /\ couriers[c] # Absent
    /\ jobs' = [jobs EXCEPT ![p] = NewJob(c)]
    /\ Answers(q)
    /\ UNCHANGED <<couriers, parcel, update, kind, applied, clashed>>

\* The courier must exist and the parcel must have no job.  Otherwise the
\* INSERT fails (Refuse).
CreateDeliveryJob(q, p, c) ==
    /\ step[q] = "insert"
    /\ jobs[p] = Absent
    /\ couriers[c] # Absent
    /\ jobs' = [jobs EXCEPT ![p] = NewJob(c)]
    /\ Answers(q)
    /\ UNCHANGED <<couriers, parcel, update, kind, applied, clashed>>

\* Mutant: the word of the report is stored as the status.
StatusUpdate_Verbatim(k, attempts) ==
    [status |-> k, attempts |-> IF k = "FAILED_ATTEMPT" THEN attempts + 1 ELSE attempts]

\* What a report of kind k makes of a job with so many attempts.
StatusUpdate(k, attempts) ==
    CASE k = "DELIVERED" -> [status |-> "DELIVERED", attempts |-> attempts]
      [] k = "FAILED_ATTEMPT" -> [status |-> "FAILED", attempts |-> attempts + 1]
      [] k = "RETURNED" -> [status |-> "RETURNED", attempts |-> attempts]

GetDeliveryJobByTrackingNumber(r, p, k) ==
    /\ Starts(r)
    /\ jobs[p] # Absent
    /\ parcel' = [parcel EXCEPT ![r] = p]
    /\ kind' = [kind EXCEPT ![r] = k]
    /\ update' = [update EXCEPT ![r] = StatusUpdate(k, jobs[p].attempts)]
    /\ clashed' = IF \E o \in Reports : step[o] = "update" /\ parcel[o] = p
                  THEN clashed \cup {p} ELSE clashed
    /\ Advance(r, "update")
    /\ UNCHANGED <<couriers, jobs, applied>>

UpdateDeliveryJobStatus(r) ==
    /\ step[r] = "update"
    /\ jobs' = [jobs EXCEPT ![parcel[r]] = [courier |-> jobs[parcel[r]].courier,
                                            status |-> update[r].status,
                                            attempts |-> update[r].attempts]]
    /\ applied' = applied \cup {r}
    /\ update' = [update EXCEPT ![r] = NoUpdate]
    /\ Answers(r)
    /\ UNCHANGED <<couriers, parcel, kind, clashed>>

CourierStep(c) ==
    \/ \E q \in Hires : CreateCourier(q, c)
    \/ \E q \in Moves : UpdateCourier(q, c)

AssignStep(q) ==
    \/ GetCourierRoute(q)
    \/ \E p \in Parcels, c \in DeliveryCouriers : CreateDeliveryJob(q, p, c)

ReportStep(r) ==
    \/ \E p \in Parcels, k \in Reportable : GetDeliveryJobByTrackingNumber(r, p, k)
    \/ UpdateDeliveryJobStatus(r)

DeliveryNext ==
    \/ \E q \in DeliveryRequests : Refuse(q)
    \/ \E c \in DeliveryCouriers : CourierStep(c)
    \/ \E q \in Assigns : AssignStep(q)
    \/ \E r \in Reports : ReportStep(r)

DeliverySpec == DeliveryInit /\ [][DeliveryNext]_deliveryVars
-----------------------------------------------------------------------------
(* Properties                                                               *)

DeliveryTypeOK ==
    /\ couriers \in [DeliveryCouriers -> Courier \cup {Absent}]
    /\ jobs \in [Parcels -> Job \cup {Absent}]
    /\ step \in [DeliveryRequests -> {"start", "insert", "update", "ok", "failed"}]
    /\ parcel \in [Reports -> Parcels \cup {Absent}]
    /\ update \in [Reports -> Update \cup {NoUpdate}]
    /\ kind \in [Reports -> Reportable \cup {"NONE"}]
    /\ applied \subseteq Reports
    /\ clashed \subseteq Parcels

Failures(p) == {r \in applied : parcel[r] = p /\ kind[r] = "FAILED_ATTEMPT"}

\* The attempt count of a job is the number of failed attempts that were
\* written for its parcel; reports that overlap may lose some of them, and
\* never make it more.
AttemptsAccounted ==
    \A p \in Parcels : jobs[p] # Absent =>
        /\ jobs[p].attempts <= Cardinality(Failures(p))
        /\ p \notin clashed => jobs[p].attempts = Cardinality(Failures(p))
=============================================================================
