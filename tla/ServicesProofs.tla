--------------------------- MODULE ServicesProofs ---------------------------
(***************************************************************************)
(* The attempt counts of delivery jobs, the stock of the warehouse, the    *)
(* logs of notifications and the two tariffs, for any number of parcels,   *)
(* couriers, items, recipients and requests; and all the parts together:   *)
(* what is proved of each holds while they all run.                        *)
(***************************************************************************)
EXTENDS Services, RoutingProofs, TLAPS

-----------------------------------------------------------------------------
(* The attempts of deliveries                                               *)

\* What a report of kind k adds to the count.
Counts(k) == IF k = "FAILED_ATTEMPT" THEN 1 ELSE 0

InFlight(r) == step[r] = "update"

\* A report between its two statements was not written yet and will write one
\* more than it read, which was no more than the failures written so far; that
\* is still the count of the row if no other report of the parcel came between.
Pending(r, p) ==
    /\ jobs[p] # Absent
    /\ update[r] \in Update
    /\ update[r].attempts <= Cardinality(Failures(p)) + Counts(kind[r])
    /\ p \notin clashed => update[r].attempts = jobs[p].attempts + Counts(kind[r])

ReportsPending ==
    \A r \in Reports : InFlight(r) =>
        /\ parcel[r] \in Parcels
        /\ \A p \in Parcels : parcel[r] = p => Pending(r, p)

\* Without a clash a parcel has one report at a time.
OneAtATime ==
    \A r, o \in Reports :
        InFlight(r) /\ InFlight(o) /\ parcel[r] = parcel[o] /\ parcel[r] \notin clashed
            => r = o

\* A report that was written is over, and its parcel has a job.
AppliedAreOver ==
    \A r \in applied : /\ step[r] \in {"ok", "failed"}
                       /\ parcel[r] \in Parcels
                       /\ jobs[parcel[r]] # Absent

Accounting ==
    /\ DeliveryTypeOK
    /\ AttemptsAccounted
    /\ ReportsPending
    /\ OneAtATime
    /\ AppliedAreOver
-----------------------------------------------------------------------------
(* What follows from the definitions                                        *)

\* A status built from a report adds what the report counts.
LEMMA UpdateCounts ==
    ASSUME NEW k \in Reportable, NEW n \in Nat
    PROVE  /\ StatusUpdate(k, n) \in Update
           /\ StatusUpdate(k, n).attempts = n + Counts(k)
  <1>1. CASE k = "DELIVERED"
    BY <1>1 DEF StatusUpdate, Update, JobStatus, Counts
  <1>2. CASE k = "FAILED_ATTEMPT"
    BY <1>2 DEF StatusUpdate, Update, JobStatus, Counts
  <1>3. CASE k = "RETURNED"
    BY <1>3 DEF StatusUpdate, Update, JobStatus, Counts
  <1>4. QED
    BY <1>1, <1>2, <1>3 DEF Reportable

\* The failures written for a parcel can be counted.
LEMMA FailuresFinite ==
    ASSUME DeliveryTypeOK, NEW p
    PROVE  IsFiniteSet(Failures(p)) /\ Cardinality(Failures(p)) \in Nat
  <1>1. Failures(p) \subseteq Reports
    BY DEF Failures, DeliveryTypeOK
  <1>2. IsFiniteSet(Failures(p))
    BY <1>1, FS_Subset, DeliveryAssumption
  <1>3. QED
    BY <1>2, FS_CardinalityType

\* Failures are those of written reports: what the others say is no matter.
LEMMA FailuresKept ==
    ASSUME applied' = applied,
           \A r \in applied : parcel'[r] = parcel[r] /\ kind'[r] = kind[r]
    PROVE  \A p : Failures(p)' = Failures(p)
  BY DEF Failures

\* Writing report r adds what it counts to the failures of its parcel.
LEMMA FailuresGrow ==
    ASSUME DeliveryTypeOK, NEW r \in Reports, r \notin applied,
           applied' = applied \cup {r}, parcel' = parcel, kind' = kind, NEW p
    PROVE  Cardinality(Failures(p)') =
               Cardinality(Failures(p)) + (IF parcel[r] = p THEN Counts(kind[r]) ELSE 0)
  <1>1. CASE parcel[r] = p /\ kind[r] = "FAILED_ATTEMPT"
    <2>1. Failures(p)' = Failures(p) \cup {r}
      BY <1>1 DEF Failures
    <2>2. r \notin Failures(p)
      BY DEF Failures
    <2>3. QED
      BY <1>1, <2>1, <2>2, FailuresFinite, FS_AddElement DEF Counts
  <1>2. CASE ~(parcel[r] = p /\ kind[r] = "FAILED_ATTEMPT")
    <2>1. Failures(p)' = Failures(p)
      BY <1>2 DEF Failures
    <2>2. QED
      BY <1>2, <2>1, FailuresFinite DEF Counts
  <1>3. QED
    BY <1>1, <1>2

\* A request that is not a report leaves the reports where they are.
LEMMA OthersKeepReports ==
    ASSUME DeliveryTypeOK, NEW q \in DeliveryRequests \ Reports, NEW next, Advance(q, next)
    PROVE  \A r \in Reports : step'[r] = step[r]
  BY DEF Advance, DeliveryTypeOK, DeliveryRequests

-----------------------------------------------------------------------------
(* Type correctness                                                         *)

LEMMA InitAccounts == DeliveryInit => Accounting
  <1> SUFFICES ASSUME DeliveryInit PROVE Accounting
    OBVIOUS
  <1>1. DeliveryTypeOK
    BY DEF DeliveryInit, DeliveryTypeOK
  <1>2. QED
    BY <1>1 DEF DeliveryInit, Accounting, AttemptsAccounted, ReportsPending, OneAtATime,
                AppliedAreOver, InFlight, DeliveryRequests

LEMMA StepsKeepTypes ==
    ASSUME Accounting, DeliveryNext
    PROVE  DeliveryTypeOK'
  <1> USE DEF Accounting
  <1>1. ASSUME NEW q \in DeliveryRequests, Refuse(q) PROVE DeliveryTypeOK'
    BY <1>1 DEF Refuse, Advance, DeliveryTypeOK
  <1>2. ASSUME NEW q \in Hires, NEW c \in DeliveryCouriers, CreateCourier(q, c)
        PROVE  DeliveryTypeOK'
    BY <1>2 DEF CreateCourier, Answers, Advance, DeliveryTypeOK, Courier
  <1>3. ASSUME NEW q \in Moves, NEW c \in DeliveryCouriers, UpdateCourier(q, c)
        PROVE  DeliveryTypeOK'
    <2>1. couriers[c] \in Courier
      BY <1>3 DEF UpdateCourier, DeliveryTypeOK
    <2>2. couriers' \in [DeliveryCouriers -> Courier \cup {Absent}]
      <3>1. PICK available \in {couriers[c].available, TRUE, FALSE},
                 position \in {couriers[c].position, q} :
                 couriers' = [couriers EXCEPT ![c] =
                                 [available |-> available, position |-> position]]
        BY <1>3 DEF UpdateCourier
      <3>2. [available |-> available, position |-> position] \in Courier
        BY <2>1, <3>1 DEF Courier
      <3>3. QED
        BY <3>1, <3>2 DEF DeliveryTypeOK
    <2>3. QED
      BY <1>3, <2>2 DEF UpdateCourier, Answers, Advance, DeliveryTypeOK
  <1>4. ASSUME NEW q \in Assigns, GetCourierRoute(q) PROVE DeliveryTypeOK'
    BY <1>4 DEF GetCourierRoute, Advance, DeliveryTypeOK
  <1>5. ASSUME NEW q \in Assigns, NEW p \in Parcels, NEW c \in DeliveryCouriers,
               CreateDeliveryJob(q, p, c)
        PROVE  DeliveryTypeOK'
    BY <1>5 DEF CreateDeliveryJob, NewJob, Job, JobStatus, Answers, Advance, DeliveryTypeOK
  <1>6. ASSUME NEW r \in Reports, NEW p \in Parcels, NEW k \in Reportable,
               GetDeliveryJobByTrackingNumber(r, p, k)
        PROVE  DeliveryTypeOK'
    <2>1. jobs[p].attempts \in Nat
      BY <1>6 DEF GetDeliveryJobByTrackingNumber, DeliveryTypeOK, Job
    <2>2. StatusUpdate(k, jobs[p].attempts) \in Update
      BY <2>1, UpdateCounts
    <2>3. QED
      BY <1>6, <2>2 DEF GetDeliveryJobByTrackingNumber, Advance, DeliveryTypeOK
  <1>7. ASSUME NEW r \in Reports, UpdateDeliveryJobStatus(r) PROVE DeliveryTypeOK'
    <2>1. /\ parcel[r] \in Parcels /\ jobs[parcel[r]] \in Job
          /\ update[r].status \in JobStatus /\ update[r].attempts \in Nat
      BY <1>7 DEF UpdateDeliveryJobStatus, ReportsPending, Pending, InFlight, Update, DeliveryTypeOK
    <2>2. [courier |-> jobs[parcel[r]].courier, status |-> update[r].status,
           attempts |-> update[r].attempts] \in Job
      BY <2>1 DEF Job
    <2>3. QED
      BY <1>7, <2>1, <2>2 DEF UpdateDeliveryJobStatus, Answers, Advance, DeliveryTypeOK
  <1>8. QED
    BY <1>1, <1>2, <1>3, <1>4, <1>5, <1>6, <1>7
    DEF DeliveryNext, CourierStep, AssignStep, ReportStep, DeliveryRequests

-----------------------------------------------------------------------------
(* The accounts                                                             *)

\* A step that neither reads a job for a report nor writes one: at most it adds
\* a job, whose parcel no report was written for, or ends a request.
LEMMA QuietSteps ==
    ASSUME Accounting, DeliveryTypeOK',
           UNCHANGED <<parcel, kind, applied, clashed>>,
           \A r \in Reports : InFlight(r)' => InFlight(r) /\ update'[r] = update[r],
           \A r \in applied : step'[r] = step[r],
           \A p \in Parcels : jobs[p] # Absent => jobs'[p] = jobs[p],
           \A p \in Parcels : jobs[p] = Absent /\ jobs'[p] # Absent => jobs'[p].attempts = 0
    PROVE  Accounting'
  <1>1. \A p : Failures(p)' = Failures(p)
    BY FailuresKept
  <1>2. AttemptsAccounted'
    <2>1. SUFFICES ASSUME NEW p \in Parcels, jobs'[p] # Absent
                   PROVE  /\ jobs'[p].attempts <= Cardinality(Failures(p)')
                          /\ p \notin clashed' =>
                                jobs'[p].attempts = Cardinality(Failures(p)')
      BY DEF AttemptsAccounted
    <2>2. CASE jobs[p] = Absent
      <3>1. Failures(p) = {}
        BY <2>2 DEF Failures, Accounting, AppliedAreOver
      <3>2. Cardinality(Failures(p)) = 0
        BY <3>1, FS_EmptySet
      <3>3. QED
        BY <1>1, <2>1, <2>2, <3>2
    <2>3. CASE jobs[p] # Absent
      BY <1>1, <2>3 DEF Accounting, AttemptsAccounted
    <2>4. QED
      BY <2>2, <2>3
  <1>3. ReportsPending'
    BY <1>1 DEF Accounting, ReportsPending, Pending, InFlight
  <1>4. OneAtATime'
    BY DEF Accounting, OneAtATime
  <1>5. AppliedAreOver'
    BY DEF Accounting, AppliedAreOver
  <1>6. QED
    BY <1>2, <1>3, <1>4, <1>5 DEF Accounting

\* The first statement of a report: a clash is noted, and otherwise the status
\* drafted counts on from the row.
LEMMA ReadAccounts ==
    ASSUME Accounting, DeliveryTypeOK', NEW r \in Reports, NEW p \in Parcels,
           NEW k \in Reportable, GetDeliveryJobByTrackingNumber(r, p, k)
    PROVE  Accounting'
  <1> DEFINE job == jobs[p]
  <1>0. /\ step[r] = "start" /\ job # Absent /\ UNCHANGED <<jobs, applied>>
        /\ parcel' = [parcel EXCEPT ![r] = p] /\ kind' = [kind EXCEPT ![r] = k]
        /\ update' = [update EXCEPT ![r] = StatusUpdate(k, job.attempts)]
        /\ step' = [step EXCEPT ![r] = "update"]
    BY DEF GetDeliveryJobByTrackingNumber, Starts, Advance
  <1>1. r \notin applied
    BY <1>0 DEF Accounting, AppliedAreOver
  <1>2. /\ parcel'[r] = p /\ kind'[r] = k
        /\ update'[r] = StatusUpdate(k, job.attempts) /\ step'[r] = "update"
    BY <1>0 DEF Accounting, DeliveryTypeOK, DeliveryRequests
  <1>3. \A o \in Reports \ {r} : /\ parcel'[o] = parcel[o] /\ kind'[o] = kind[o]
                                 /\ update'[o] = update[o] /\ step'[o] = step[o]
    BY <1>0 DEF Accounting, DeliveryTypeOK, DeliveryRequests
  <1>4. \A x : Failures(x)' = Failures(x)
    <2>1. applied \subseteq Reports \ {r}
      BY <1>1 DEF Accounting, DeliveryTypeOK
    <2>2. QED
      BY <1>0, <1>3, <2>1, FailuresKept
  <1>5. /\ clashed \subseteq clashed'
        /\ p \notin clashed' => \A o \in Reports : ~(InFlight(o) /\ parcel[o] = p)
    BY DEF GetDeliveryJobByTrackingNumber, InFlight
  <1>6. /\ job.attempts \in Nat
        /\ job.attempts <= Cardinality(Failures(p))
        /\ Cardinality(Failures(p)) \in Nat
    BY <1>0, FailuresFinite DEF Accounting, AttemptsAccounted, DeliveryTypeOK, Job
  <1>7. /\ update'[r] \in Update
        /\ update'[r].attempts = job.attempts + Counts(k)
    BY <1>2, <1>6, UpdateCounts
  <1>8. AttemptsAccounted'
    BY <1>0, <1>4, <1>5 DEF Accounting, AttemptsAccounted
  <1>9. ReportsPending'
    <2>1. CASE \A o \in Reports : InFlight(o)' => parcel'[o] \in Parcels
      <3>1. SUFFICES ASSUME NEW o \in Reports, NEW x \in Parcels,
                            InFlight(o)', parcel'[o] = x
                     PROVE  Pending(o, x)'
        BY <2>1 DEF ReportsPending
      <3>2. CASE o = r
        <4>1. x = p
          BY <1>2, <3>1, <3>2
        <4>2. job.attempts + Counts(k) <= Cardinality(Failures(p)) + Counts(k)
          BY <1>6 DEF Counts
        <4>3. QED
          BY <1>0, <1>2, <1>4, <1>7, <3>2, <4>1, <4>2 DEF Pending
      <3>3. CASE o # r
        <4>1. InFlight(o) /\ parcel[o] = x
          BY <1>3, <3>1, <3>3 DEF InFlight
        <4>2. Pending(o, x)
          BY <4>1 DEF Accounting, ReportsPending
        <4>3. QED
          BY <1>0, <1>3, <1>4, <1>5, <3>3, <4>2 DEF Pending
      <3>4. QED
        BY <3>2, <3>3
    <2>2. \A o \in Reports : InFlight(o)' => parcel'[o] \in Parcels
      BY <1>2, <1>3 DEF Accounting, ReportsPending, InFlight
    <2>3. QED
      BY <2>1, <2>2
  <1>10. OneAtATime'
    <2>1. SUFFICES ASSUME NEW o \in Reports, NEW u \in Reports, InFlight(o)', InFlight(u)',
                          parcel'[o] = parcel'[u], parcel'[o] \notin clashed'
                   PROVE  o = u
      BY DEF OneAtATime
    <2>2. CASE o # r /\ u # r
      BY <1>3, <1>5, <2>1, <2>2 DEF Accounting, OneAtATime, InFlight
    <2>3. CASE o = r \/ u = r
      BY <1>2, <1>3, <1>5, <2>1, <2>3 DEF InFlight
    <2>4. QED
      BY <2>2, <2>3
  <1>11. AppliedAreOver'
    BY <1>0, <1>1, <1>3 DEF Accounting, AppliedAreOver, DeliveryTypeOK
  <1>12. QED
    BY <1>8, <1>9, <1>10, <1>11 DEF Accounting

\* The second statement of a report: the failures grow by what it counts, and
\* so does the row, unless the report had read an older one.
LEMMA WriteAccounts ==
    ASSUME Accounting, DeliveryTypeOK', NEW r \in Reports, UpdateDeliveryJobStatus(r)
    PROVE  Accounting'
  <1> DEFINE p == parcel[r]
  <1>0. /\ InFlight(r) /\ UNCHANGED <<parcel, kind, clashed>>
        /\ applied' = applied \cup {r}
        /\ update' = [update EXCEPT ![r] = NoUpdate]
        /\ \E answer \in {"ok", "failed"} : step' = [step EXCEPT ![r] = answer]
    BY DEF UpdateDeliveryJobStatus, InFlight, Answers, Advance
  <1>1. /\ p \in Parcels /\ jobs[p] \in Job
        /\ update[r] \in Update
        /\ update[r].attempts <= Cardinality(Failures(p)) + Counts(kind[r])
        /\ p \notin clashed => update[r].attempts = jobs[p].attempts + Counts(kind[r])
    BY <1>0 DEF Accounting, ReportsPending, Pending, DeliveryTypeOK
  <1>2. /\ jobs'[p].attempts = update[r].attempts /\ jobs'[p] # Absent
        /\ \A x \in Parcels \ {p} : jobs'[x] = jobs[x]
    <2>1. jobs' = [jobs EXCEPT ![p] = [courier |-> jobs[p].courier,
                                       status |-> update[r].status,
                                       attempts |-> update[r].attempts]]
      BY DEF UpdateDeliveryJobStatus
    <2>2. jobs'[p] = [courier |-> jobs[p].courier, status |-> update[r].status,
                      attempts |-> update[r].attempts]
      BY <1>1, <2>1 DEF Accounting, DeliveryTypeOK
    <2>3. jobs'[p] \in Job
      BY <1>1, <2>2 DEF Job, Update
    <2>4. QED
      BY <1>1, <2>1, <2>2, <2>3, AbsentAssumption DEF Accounting, DeliveryTypeOK
  <1>3. step'[r] \in {"ok", "failed"} /\ \A o \in Reports \ {r} : step'[o] = step[o]
    BY <1>0 DEF Accounting, DeliveryTypeOK, DeliveryRequests
  <1>4. \A o \in Reports \ {r} : update'[o] = update[o]
    BY <1>0 DEF Accounting, DeliveryTypeOK
  <1>5. r \notin applied
    BY <1>0 DEF Accounting, AppliedAreOver, InFlight
  <1>6. \A x : Cardinality(Failures(x)') =
               Cardinality(Failures(x)) + (IF p = x THEN Counts(kind[r]) ELSE 0)
    BY <1>0, <1>5, FailuresGrow DEF Accounting
  <1>7. \A x : Cardinality(Failures(x)) \in Nat
    BY FailuresFinite DEF Accounting
  <1>8. Counts(kind[r]) \in Nat
    BY DEF Counts
  <1>9. AttemptsAccounted'
    <2>1. SUFFICES ASSUME NEW x \in Parcels, jobs'[x] # Absent
                   PROVE  /\ jobs'[x].attempts <= Cardinality(Failures(x)')
                          /\ x \notin clashed' =>
                                jobs'[x].attempts = Cardinality(Failures(x)')
      BY DEF AttemptsAccounted
    <2>2. CASE x = p
      <3>1. jobs[p] # Absent
        BY <1>0 DEF Accounting, ReportsPending, Pending
      <3>2. p \notin clashed => jobs[p].attempts = Cardinality(Failures(p))
        BY <1>1, <3>1 DEF Accounting, AttemptsAccounted
      <3>3. QED
        BY <1>0, <1>1, <1>2, <1>6, <2>2, <3>2
    <2>3. CASE x # p
      BY <1>0, <1>2, <1>6, <1>7, <2>1, <2>3 DEF Accounting, AttemptsAccounted
    <2>4. QED
      BY <2>2, <2>3
  <1>10. ReportsPending'
    <2>1. \A o \in Reports : InFlight(o)' => o # r /\ InFlight(o)
      BY <1>3 DEF InFlight
    <2>2. SUFFICES ASSUME NEW o \in Reports, NEW x \in Parcels, InFlight(o)', parcel'[o] = x
                   PROVE  Pending(o, x)'
      BY <1>0, <2>1 DEF Accounting, ReportsPending
    <2>3. Pending(o, x) /\ parcel[o] = x /\ o # r
      BY <1>0, <2>1, <2>2 DEF Accounting, ReportsPending
    <2>4. update[o].attempts \in Nat /\ Counts(kind[o]) \in Nat
      BY <2>3 DEF Pending, Update, Counts
    <2>5. CASE x # p
      BY <1>0, <1>2, <1>4, <1>6, <1>7, <2>3, <2>5 DEF Pending
    <2>6. CASE x = p
      <3>1. p \in clashed
        BY <1>0, <2>1, <2>2, <2>3, <2>6 DEF Accounting, OneAtATime
      <3>2. update[o].attempts <= Cardinality(Failures(x)') + Counts(kind[o])
        BY <1>6, <1>7, <1>8, <2>3, <2>4, <2>6 DEF Pending
      <3>3. QED
        BY <1>0, <1>2, <1>4, <2>3, <2>6, <3>1, <3>2 DEF Pending
    <2>7. QED
      BY <2>5, <2>6
  <1>11. OneAtATime'
    BY <1>0, <1>3 DEF Accounting, OneAtATime, InFlight
  <1>12. AppliedAreOver'
    BY <1>0, <1>1, <1>2, <1>3, <1>5 DEF Accounting, AppliedAreOver, DeliveryTypeOK
  <1>13. QED
    BY <1>9, <1>10, <1>11, <1>12 DEF Accounting

LEMMA StepsAccount ==
    ASSUME Accounting, [DeliveryNext]_deliveryVars
    PROVE  Accounting'
  <1>1. CASE UNCHANGED deliveryVars
    BY <1>1 DEF deliveryVars, Accounting, DeliveryTypeOK, AttemptsAccounted, ReportsPending,
                Pending, OneAtATime, AppliedAreOver, InFlight, Failures
  <1>2. CASE DeliveryNext
    <2>0. DeliveryTypeOK'
      BY <1>2, StepsKeepTypes
    <2>1. ASSUME NEW q \in DeliveryRequests, Refuse(q) PROVE Accounting'
      <3>1. \A r \in Reports : InFlight(r)' => InFlight(r) /\ update'[r] = update[r]
        BY <2>1 DEF Refuse, Advance, InFlight, Accounting, DeliveryTypeOK, DeliveryRequests
      <3>2. \A r \in applied : step'[r] = step[r]
        BY <2>1 DEF Refuse, Advance, Accounting, AppliedAreOver, DeliveryTypeOK
      <3>3. QED
        BY <2>0, <2>1, <3>1, <3>2, QuietSteps DEF Refuse
    <2>2. ASSUME NEW q \in DeliveryRequests \ Reports,
                 \E next \in {"insert", "ok", "failed"} : Advance(q, next),
                 UNCHANGED <<parcel, kind, update, applied, clashed>>,
                 \A p \in Parcels : jobs[p] # Absent => jobs'[p] = jobs[p],
                 \A p \in Parcels :
                     jobs[p] = Absent /\ jobs'[p] # Absent => jobs'[p].attempts = 0
          PROVE  Accounting'
      <3>1. \A r \in Reports : step'[r] = step[r]
        BY <2>2, OthersKeepReports DEF Accounting
      <3>2. applied \subseteq Reports
        BY DEF Accounting, DeliveryTypeOK
      <3>3. QED
        BY <2>0, <2>2, <3>1, <3>2, QuietSteps DEF InFlight
    <2>3. \A q \in Hires \cup Moves \cup Assigns : q \in DeliveryRequests \ Reports
      BY DeliveryAssumption DEF DeliveryRequests
    <2>4. ASSUME NEW q \in Hires, NEW c \in DeliveryCouriers, CreateCourier(q, c)
          PROVE  Accounting'
      BY <2>2, <2>3, <2>4 DEF CreateCourier, Answers
    <2>5. ASSUME NEW q \in Moves, NEW c \in DeliveryCouriers, UpdateCourier(q, c)
          PROVE  Accounting'
      BY <2>2, <2>3, <2>5 DEF UpdateCourier, Answers
    <2>6. ASSUME NEW q \in Assigns, GetCourierRoute(q) PROVE Accounting'
      BY <2>2, <2>3, <2>6 DEF GetCourierRoute
    <2>7. ASSUME NEW q \in Assigns, NEW p \in Parcels, NEW c \in DeliveryCouriers,
                 CreateDeliveryJob(q, p, c)
          PROVE  Accounting'
      <3>1. /\ jobs[p] = Absent
            /\ jobs' = [jobs EXCEPT ![p] = NewJob(c)]
        BY <2>7 DEF CreateDeliveryJob
      <3>2. /\ jobs'[p].attempts = 0
            /\ \A x \in Parcels : x # p => jobs'[x] = jobs[x]
        BY <3>1 DEF NewJob, Accounting, DeliveryTypeOK
      <3>3. \E next \in {"insert", "ok", "failed"} : Advance(q, next)
        BY <2>7 DEF CreateDeliveryJob, Answers
      <3>4. UNCHANGED <<parcel, kind, update, applied, clashed>>
        BY <2>7 DEF CreateDeliveryJob
      <3>5. QED
        BY <2>2, <2>3, <3>1, <3>2, <3>3, <3>4
    <2>8. ASSUME NEW r \in Reports, NEW p \in Parcels, NEW k \in Reportable,
                 GetDeliveryJobByTrackingNumber(r, p, k)
          PROVE  Accounting'
      BY <2>0, <2>8, ReadAccounts
    <2>9. ASSUME NEW r \in Reports, UpdateDeliveryJobStatus(r) PROVE Accounting'
      BY <2>0, <2>9, WriteAccounts
    <2>10. QED
      BY <1>2, <2>1, <2>4, <2>5, <2>6, <2>7, <2>8, <2>9
      DEF DeliveryNext, CourierStep, AssignStep, ReportStep, DeliveryRequests
  <1>3. QED
    BY <1>1, <1>2

-----------------------------------------------------------------------------
(* Theorems                                                                 *)

\* The inductive invariant: what a report between its two statements may assume.
THEOREM DeliveryAccounts == DeliverySpec => []Accounting
  <1>1. Accounting /\ [DeliveryNext]_deliveryVars => Accounting'
    BY StepsAccount
  <1>2. QED
    BY InitAccounts, <1>1, PTL DEF DeliverySpec

\* The tables of delivery-service and the requests keep their types.
THEOREM DeliveryTypeCorrect == DeliverySpec => []DeliveryTypeOK
  BY DeliveryAccounts, PTL DEF Accounting

\* The attempt count of a job is the number of failed attempts written for its
\* parcel if reports take turns, and never more, however requests overlap, fail
\* or are sent again.
THEOREM AttemptsAreAccounted == DeliverySpec => []AttemptsAccounted
  BY DeliveryAccounts, PTL DEF Accounting

----------------------------------------------------------------------------
(* warehouse-service                                                        *)

\* None of the saved movements was of a negative quantity.
NoneNegative == \A q \in booked : amount[q] >= 0

\* What is stored, and what request q found: nothing counts as 0.
Quantity(i) == IF i = NoItem THEN 0 ELSE i.quantity

\* A request between its two calls has not been saved; what it found was not
\* negative as long as only positive movements were saved; and a dispatch found
\* an item with enough in stock, whatever it did to the item since.
SavesPending ==
    \A q \in Movements : task[q] \in {"start", "save"} =>
        /\ q \notin booked
        /\ task[q] = "save" =>
              /\ NoneNegative => Quantity(found[q]) >= 0
              /\ q \in Dispatches => found[q] # NoItem /\ found[q].quantity >= amount[q]

\* Without an overlap there is one such request at most, and what it found is
\* what is stored.
NothingBetween ==
    ~disturbed => \A q \in Movements : task[q] = "save" =>
        /\ found[q] = item
        /\ \A p \in Movements : task[p] = "save" => p = q

StockInv == StockTypeOK /\ SavesPending /\ NothingBetween /\ StockAccounted

LEMMA StockStarts == StockInit => StockInv
  <1> SUFFICES ASSUME StockInit
               PROVE  StockInv
    OBVIOUS
  <1>1. StockTypeOK
    <2>1. /\ item \in Item \cup {NoItem}
          /\ found \in [Movements -> Item \cup {NoItem}]
          /\ moved \in [came : Int, went : Int]
      BY DEF StockInit
    <2>2. /\ task \in [Movements -> {"start", "save", "ok", "failed"}]
          /\ amount \in [Movements -> Quantities \cup {0}]
          /\ booked \subseteq Movements
          /\ disturbed \in BOOLEAN
      BY DEF StockInit
    <2> QED
      BY <2>1, <2>2 DEF StockTypeOK
  <1>2. \A q \in Movements : task[q] = "start"
    BY DEF StockInit
  <1>3. SavesPending /\ NothingBetween
    BY <1>2 DEF StockInit, SavesPending, NothingBetween
  <1>4. StockAccounted
    BY DEF StockInit, StockAccounted
  <1> QED
    BY <1>1, <1>3, <1>4 DEF StockInv

\* A lookup finds the item, or nothing.
LEMMA LooksKeepStock ==
    ASSUME StockInv, NEW q \in Movements, NEW n \in Quantities, NEW seen \in {item, NoItem},
           Looks(q, seen, n), Proceed(q, "save"),
           q \in Dispatches => seen # NoItem /\ seen.quantity >= n
    PROVE  StockInv'
  <1>1. /\ task[q] = "start" /\ q \notin booked
        /\ UNCHANGED <<item, booked, moved>>
        /\ task'[q] = "save" /\ found'[q] = seen /\ amount'[q] = n
        /\ \A p \in Movements : p # q =>
              task'[p] = task[p] /\ found'[p] = found[p] /\ amount'[p] = amount[p]
        /\ disturbed' = (disturbed \/ seen # item \/ \E p \in Movements : task[p] = "save")
    BY DEF StockInv, StockTypeOK, SavesPending, Looks, Proceed
  <1>2. StockTypeOK'
    BY <1>1, StockAssumption DEF StockInv, StockTypeOK, Looks, Proceed
  <1>3. NoneNegative' <=> NoneNegative
    <2>1. booked \subseteq Movements
      BY DEF StockInv, StockTypeOK
    <2> QED
      BY <1>1, <2>1 DEF NoneNegative
  <1>4. SavesPending'
    <2>1. NoneNegative => Quantity(seen) >= 0
      BY DEF StockInv, StockAccounted, NoneNegative, Quantity
    <2> QED
      BY <1>1, <1>3, <2>1 DEF StockInv, SavesPending, Quantity
  <1>5. NothingBetween'
    BY <1>1 DEF StockInv, NothingBetween
  <1>6. StockAccounted'
    BY <1>1, <1>3 DEF StockInv, StockAccounted, NoneNegative
  <1> QED
    BY <1>2, <1>4, <1>5, <1>6 DEF StockInv

\* A save puts what was found, more or less the movement, in place of what is
\* stored, which may be something else by now.
LEMMA SavesKeepStock ==
    ASSUME StockInv, NEW q \in Movements, NEW shelf \in Shelves \cup {NoShelf},
           SaveItem(q, shelf)
    PROVE  StockInv'
  <1>t. StockTypeOK /\ booked \subseteq Movements
    BY DEF StockInv, StockTypeOK
  <1>1. /\ task[q] = "save" /\ q \notin booked
        /\ task'[q] \in {"ok", "failed"}
        /\ \A p \in Movements : p # q => task'[p] = task[p] /\ found'[p] = found[p]
        /\ UNCHANGED <<amount, disturbed>>
    BY <1>t DEF StockInv, StockTypeOK, SavesPending, SaveItem, Proceed
  <1>2. /\ amount[q] \in Int
        /\ found[q] \in Item \cup {NoItem}
        /\ q \in Dispatches => found[q] # NoItem /\ found[q].quantity >= amount[q]
        /\ NoneNegative => Quantity(found[q]) >= 0
        /\ Quantity(found[q]) \in Int
    <2>1. amount[q] \in Int
      <3>1. amount[q] \in Quantities \/ amount[q] = 0
        BY <1>t DEF StockTypeOK
      <3>2. \A n \in Quantities : n \in Int
        BY StockAssumption
      <3> QED
        BY <3>1, <3>2
    <2>2. found[q] \in Item \cup {NoItem}
      BY <1>t DEF StockTypeOK
    <2>3. Quantity(found[q]) \in Int
      BY <2>2 DEF Quantity, Item
    <2> QED
      BY <1>1, <2>1, <2>2, <2>3 DEF StockInv, SavesPending
  <1>3. CASE UNCHANGED <<item, booked, moved>>
    <2>1. StockTypeOK'
      BY <1>t, <1>3 DEF StockTypeOK, SaveItem, Proceed
    <2>2. NoneNegative' <=> NoneNegative
      BY <1>1, <1>3 DEF NoneNegative
    <2>3. SavesPending' /\ NothingBetween'
      BY <1>1, <1>3, <2>2 DEF StockInv, SavesPending, NothingBetween
    <2>4. StockAccounted'
      BY <1>1, <1>3 DEF StockInv, StockAccounted
    <2> QED
      BY <2>1, <2>3, <2>4 DEF StockInv
  <1>4. CASE /\ item' = Moved(q, shelf) /\ booked' = booked \cup {q}
             /\ moved' = IF q \in Dispatches
                         THEN [came |-> moved.came, went |-> moved.went + amount[q]]
                         ELSE [came |-> moved.came + amount[q], went |-> moved.went]
    <2> DEFINE change == IF q \in Dispatches THEN -amount[q] ELSE amount[q]
    <2>1. item' \in Item /\ item' # NoItem /\ item'.quantity = Quantity(found[q]) + change
      BY <1>2, <1>4, StockAssumption DEF Moved, Item, Quantity
    <2>2. NoneNegative' => NoneNegative /\ amount[q] >= 0
      BY <1>1, <1>4 DEF NoneNegative
    <2>3. StockTypeOK'
      <3>1. moved' \in [came : Int, went : Int]
        BY <1>2, <1>4, <1>t DEF StockTypeOK
      <3> QED
        BY <1>t, <1>4, <2>1, <3>1 DEF StockTypeOK, SaveItem, Proceed
    <2>4. SavesPending'
      <3>1. \A p \in Movements : task'[p] \in {"start", "save"} => p # q /\ task'[p] = task[p]
        BY <1>1
      <3> QED
        BY <1>1, <1>4, <2>2, <3>1 DEF StockInv, SavesPending
    <2>5. NothingBetween'
      BY <1>1 DEF StockInv, NothingBetween
    <2>6. NoneNegative' => item'.quantity >= 0
      <3>1. CASE q \in Dispatches
        BY <1>2, <2>1, <3>1 DEF Quantity
      <3>2. CASE q \notin Dispatches
        BY <1>2, <2>1, <2>2, <3>2
      <3> QED
        BY <3>1, <3>2
    <2>7. ~disturbed' => item'.quantity = moved'.came - moved'.went
      <3> SUFFICES ASSUME ~disturbed
                   PROVE  item'.quantity = moved'.came - moved'.went
        BY <1>1
      <3>1. Quantity(found[q]) = moved.came - moved.went
        BY <1>1 DEF StockInv, NothingBetween, StockAccounted, Quantity
      <3>2. moved.came \in Int /\ moved.went \in Int
        BY <1>t DEF StockTypeOK
      <3> QED
        BY <1>2, <1>4, <2>1, <3>1, <3>2
    <2>8. StockAccounted'
      BY <2>1, <2>6, <2>7 DEF StockAccounted, NoneNegative
    <2> QED
      BY <2>3, <2>4, <2>5, <2>8 DEF StockInv
  <1> QED
    BY <1>3, <1>4 DEF SaveItem

LEMMA StepsKeepStock == StockInv /\ [StockNext]_stockVars => StockInv'
  <1> SUFFICES ASSUME StockInv, [StockNext]_stockVars
               PROVE  StockInv'
    OBVIOUS
  <1>1. CASE UNCHANGED stockVars
    BY <1>1 DEF stockVars, StockInv, StockTypeOK, SavesPending, NothingBetween,
                StockAccounted, NoneNegative
  <1>2. ASSUME NEW q \in Receipts, NEW n \in Quantities, ReceiveItem(q, n)
        PROVE  StockInv'
    BY <1>2, LooksKeepStock, StockAssumption DEF ReceiveItem, GetItemByID, Movements
  <1>3. ASSUME NEW q \in Dispatches, NEW n \in Quantities, DispatchItem(q, n)
        PROVE  StockInv'
    <2>1. CASE InStock(n) /\ Looks(q, item, n) /\ Proceed(q, "save")
      BY <2>1, LooksKeepStock DEF InStock, Movements
    <2>2. CASE /\ task[q] = "start" /\ Proceed(q, "failed")
               /\ UNCHANGED <<item, found, amount, booked, moved, disturbed>>
      <3>1. /\ task'[q] = "failed"
            /\ \A p \in Movements : p # q => task'[p] = task[p]
            /\ StockTypeOK'
        BY <2>2 DEF StockInv, StockTypeOK, Proceed, Movements
      <3>2. SavesPending' /\ NothingBetween' /\ StockAccounted'
        BY <2>2, <3>1 DEF StockInv, SavesPending, NothingBetween, StockAccounted, NoneNegative
      <3> QED
        BY <3>1, <3>2 DEF StockInv
    <2> QED
      BY <1>3, <2>1, <2>2 DEF DispatchItem
  <1>4. ASSUME NEW q \in Movements, NEW shelf \in Shelves \cup {NoShelf}, SaveItem(q, shelf)
        PROVE  StockInv'
    BY <1>4, SavesKeepStock
  <1> QED
    BY <1>1, <1>2, <1>3, <1>4 DEF StockNext, ReceiveStep, DispatchStep, Movements

\* The invariant holds however receipts and dispatches overlap or fail.
THEOREM StockInvariant == StockSpec => []StockInv
  BY StockStarts, StepsKeepStock, PTL DEF StockSpec

\* The item, the requests and the sums keep their types.
THEOREM StockTypes == StockSpec => []StockTypeOK
  <1>1. StockInv => StockTypeOK
    BY DEF StockInv
  <1> QED
    BY <1>1, StockInvariant, PTL

\* Positive movements never make the stock negative, and as long as none overlap
\* and no lookup fails it is what came in less what went out.
THEOREM StockIsAccounted == StockSpec => []StockAccounted
  <1>1. StockInv => StockAccounted
    BY DEF StockInv
  <1> QED
    BY <1>1, StockInvariant, PTL

----------------------------------------------------------------------------
(* notification-service                                                     *)

\* A row of the log is of an attempt that is over, or of an earlier one, and
\* what it says a provider took, a provider took; an attempt has one row.
RowsOver ==
    /\ \A row \in logs :
          /\ row.sent.of \in Messages
          /\ row.sent.attempt \in Nat
          /\ row.status \in {"SENT", "FAILED"}
          /\ row.status = "SENT" => row.sent \in taken
          /\ \/ row.sent.attempt < attempt[row.sent.of]
             \/ /\ row.sent.attempt = attempt[row.sent.of]
                /\ at[row.sent.of] \in {"ok", "failed"}
    /\ \A row, other \in logs :
          row.sent.of = other.sent.of /\ row.sent.attempt = other.sent.attempt => row = other

\* What a provider took in the attempt under way is what the row will say.
TakenLogged ==
    \A sent \in taken :
        /\ sent.of \in Messages
        /\ sent.attempt \in Nat
        /\ \/ sent.attempt < attempt[sent.of]
           \/ /\ sent.attempt = attempt[sent.of]
              /\ at[sent.of] \in {"log", "failed", "ok"}
              /\ at[sent.of] = "log" => sent = Sending(sent.of)
              /\ at[sent.of] = "ok" => [sent |-> sent, status |-> "SENT"] \in logs

\* A message that was not refused was taken; one that was answered 200 has its row.
Attempted ==
    \A m \in Messages :
        /\ at[m] = "log" /\ ~refused[m] => Sending(m) \in taken
        /\ at[m] = "ok" => \E row \in logs : row.sent.of = m /\ row.sent.attempt = attempt[m]
                                             /\ row.status = "SENT"

NotificationInv == NotificationTypeOK /\ RowsOver /\ TakenLogged /\ Attempted

LEMMA NotificationStarts == NotificationInit => NotificationInv
  <1> SUFFICES ASSUME NotificationInit
               PROVE  NotificationInv
    OBVIOUS
  <1>1. /\ templates \in [Templates -> Versions \cup {NoTemplate}]
        /\ at \in [Messages \cup TemplateCreates \cup TemplateEdits ->
                      {"start", "provider", "log", "ok", "failed"}]
        /\ attempt \in [Messages -> Nat]
        /\ draft \in [Messages -> Draft \cup {NoDraft}]
        /\ refused \in [Messages -> BOOLEAN]
    BY DEF NotificationInit, Versions
  <1>2. NotificationTypeOK
    BY <1>1 DEF NotificationInit, NotificationTypeOK
  <1> QED
    BY <1>2 DEF NotificationInv, NotificationInit, RowsOver, TakenLogged, Attempted

\* A step on a template leaves the messages alone.
LEMMA TemplatesKeepLogs ==
    ASSUME NotificationInv, NEW t \in Templates, TemplateStep(t)
    PROVE  NotificationInv'
  <1>1. UNCHANGED <<logs, attempt, draft, refused, taken>>
    BY DEF TemplateStep, CreateTemplate, UpdateTemplate
  <1>2. PICK q \in TemplateCreates \cup TemplateEdits, answer \in {"ok", "failed"} :
           /\ at' = [at EXCEPT ![q] = answer]
           /\ templates' = templates \/ templates' = [templates EXCEPT ![t] = q]
    BY DEF TemplateStep, CreateTemplate, UpdateTemplate, Go
  <1>3. \A m \in Messages : at'[m] = at[m]
    BY <1>2, NotificationAssumption DEF NotificationInv, NotificationTypeOK
  <1>4. /\ templates' \in [Templates -> Versions \cup {NoTemplate}]
        /\ at' \in [Messages \cup TemplateCreates \cup TemplateEdits ->
                       {"start", "provider", "log", "ok", "failed"}]
    BY <1>2 DEF NotificationInv, NotificationTypeOK, Versions
  <1>5. NotificationTypeOK'
    BY <1>1, <1>4 DEF NotificationInv, NotificationTypeOK
  <1>6. \A m \in Messages : Sending(m)' = Sending(m)
    BY <1>1 DEF Sending
  <1>7. RowsOver'
    BY <1>1, <1>3 DEF NotificationInv, RowsOver
  <1>8. TakenLogged'
    BY <1>1, <1>3, <1>6 DEF NotificationInv, TakenLogged
  <1>9. Attempted'
    BY <1>1, <1>3, <1>6 DEF NotificationInv, Attempted
  <1> QED
    BY <1>5, <1>7, <1>8, <1>9 DEF NotificationInv

\* What moves when message m goes on to its next step.
LEMMA MessageGoes ==
    ASSUME NotificationTypeOK, NEW m \in Messages, NEW from,
           NEW to \in {"start", "provider", "log", "ok", "failed"}, Go(m, from, to)
    PROVE  /\ at[m] = from /\ at'[m] = to
           /\ \A o \in Messages : o # m => at'[o] = at[o]
           /\ at' \in [Messages \cup TemplateCreates \cup TemplateEdits ->
                          {"start", "provider", "log", "ok", "failed"}]
  BY DEF NotificationTypeOK, Go

\* Reading the template starts the attempt, or ends it before anything was sent.
LEMMA ReadKeepsLogs ==
    ASSUME NotificationInv, NEW m \in Messages, NEW t \in Templates, NEW c \in Channels,
           GetTemplateByID(m, t, c)
    PROVE  NotificationInv'
  <1>1. /\ at[m] = "start" /\ at'[m] \in {"provider", "failed"}
        /\ \A o \in Messages : o # m => at'[o] = at[o]
        /\ at' \in [Messages \cup TemplateCreates \cup TemplateEdits ->
                       {"start", "provider", "log", "ok", "failed"}]
        /\ UNCHANGED <<templates, logs, attempt, refused, taken>>
    BY MessageGoes DEF NotificationInv, GetTemplateByID
  <1>2. /\ draft' \in [Messages -> Draft \cup {NoDraft}]
        /\ \A o \in Messages : o # m => draft'[o] = draft[o]
    BY DEF GetTemplateByID, NotificationInv, NotificationTypeOK, Draft
  <1>3. NotificationTypeOK'
    BY <1>1, <1>2 DEF NotificationInv, NotificationTypeOK
  <1>4. \A o \in Messages : o # m => Sending(o)' = Sending(o)
    BY <1>1, <1>2 DEF Sending
  <1>5. RowsOver'
    BY <1>1 DEF NotificationInv, RowsOver
  <1>6. TakenLogged'
    BY <1>1, <1>4 DEF NotificationInv, TakenLogged
  <1>7. Attempted'
    BY <1>1, <1>4 DEF NotificationInv, Attempted
  <1> QED
    BY <1>3, <1>5, <1>6, <1>7 DEF NotificationInv

\* The provider takes the message or not, and says so or not.
LEMMA ProviderKeepsLogs ==
    ASSUME NotificationInv, NEW m \in Messages, SendToProvider(m)
    PROVE  NotificationInv'
  <1>1. /\ at[m] = "provider" /\ at'[m] = "log"
        /\ \A o \in Messages : o # m => at'[o] = at[o]
        /\ at' \in [Messages \cup TemplateCreates \cup TemplateEdits ->
                       {"start", "provider", "log", "ok", "failed"}]
        /\ UNCHANGED <<templates, logs, attempt, draft>>
    BY MessageGoes DEF NotificationInv, SendToProvider
  <1>2. PICK took \in BOOLEAN, fails \in BOOLEAN :
           /\ ~fails => took
           /\ taken' = IF took THEN taken \cup {Sending(m)} ELSE taken
           /\ refused' = [refused EXCEPT ![m] = fails]
    BY DEF SendToProvider
  <1>3. /\ refused' \in [Messages -> BOOLEAN]
        /\ refused'[m] = fails
        /\ \A o \in Messages : o # m => refused'[o] = refused[o]
    BY <1>2 DEF NotificationInv, NotificationTypeOK
  <1>4. /\ Sending(m).of = m /\ Sending(m).attempt = attempt[m] /\ attempt[m] \in Nat
        /\ \A o \in Messages : Sending(o)' = Sending(o)
        /\ taken \subseteq taken' /\ taken' \subseteq taken \cup {Sending(m)}
    BY <1>1, <1>2 DEF Sending, NotificationInv, NotificationTypeOK
  <1>5. NotificationTypeOK'
    BY <1>1, <1>3, <1>4 DEF NotificationInv, NotificationTypeOK
  <1>6. RowsOver'
    BY <1>1, <1>4 DEF NotificationInv, RowsOver
  <1>7. TakenLogged'
    BY <1>1, <1>4 DEF NotificationInv, TakenLogged
  <1>8. Attempted'
    BY <1>1, <1>2, <1>3, <1>4 DEF NotificationInv, Attempted
  <1> QED
    BY <1>5, <1>6, <1>7, <1>8 DEF NotificationInv

\* The row is the only one of the attempt, and ends it.
LEMMA LoggingKeepsLogs ==
    ASSUME NotificationInv, NEW m \in Messages, CreateNotificationLog(m)
    PROVE  NotificationInv'
  <1> DEFINE status == IF refused[m] THEN "FAILED" ELSE "SENT"
             row == LogRow(m, status)
  <1>1. /\ at[m] = "log" /\ at'[m] \in {"ok", "failed"}
        /\ \A o \in Messages : o # m => at'[o] = at[o]
        /\ at' \in [Messages \cup TemplateCreates \cup TemplateEdits ->
                       {"start", "provider", "log", "ok", "failed"}]
        /\ UNCHANGED <<templates, attempt, taken>>
    BY MessageGoes DEF NotificationInv, CreateNotificationLog
  <1>2. logs' \in {logs, logs \cup {row}} /\ (at'[m] = "ok" => row \in logs' /\ status = "SENT")
    <2>1. CASE /\ logs' = logs \cup {row}
               /\ Go(m, "log", IF refused[m] THEN "failed" ELSE "ok")
      BY <2>1, MessageGoes DEF NotificationInv
    <2>2. CASE logs' \in {logs, logs \cup {row}} /\ Go(m, "log", "failed")
      BY <2>2, MessageGoes DEF NotificationInv
    <2> QED
      BY <2>1, <2>2 DEF CreateNotificationLog
  <1>3. /\ draft' \in [Messages -> Draft \cup {NoDraft}]
        /\ refused' \in [Messages -> BOOLEAN]
        /\ \A o \in Messages : o # m => draft'[o] = draft[o] /\ refused'[o] = refused[o]
    BY DEF CreateNotificationLog, NotificationInv, NotificationTypeOK
  <1>4. /\ row.sent = Sending(m) /\ row.sent.of = m /\ row.sent.attempt = attempt[m]
        /\ row.status = status /\ status \in {"SENT", "FAILED"} /\ attempt[m] \in Nat
    BY DEF LogRow, Sending, NotificationInv, NotificationTypeOK
  <1>5. status = "SENT" => Sending(m) \in taken /\ row = [sent |-> Sending(m), status |-> "SENT"]
    BY <1>1 DEF NotificationInv, Attempted, LogRow
  <1>6. \A o \in Messages : o # m => Sending(o)' = Sending(o)
    BY <1>1, <1>3 DEF Sending
  <1> HIDE DEF row, status
  <1>7. NotificationTypeOK'
    BY <1>1, <1>2, <1>3, <1>4 DEF NotificationInv, NotificationTypeOK
  <1>8. RowsOver'
    BY <1>1, <1>2, <1>4, <1>5 DEF NotificationInv, RowsOver
  <1>9. TakenLogged'
    <2> SUFFICES ASSUME NEW sent \in taken
                 PROVE  /\ sent.of \in Messages /\ sent.attempt \in Nat
                        /\ \/ sent.attempt < attempt[sent.of]
                           \/ /\ sent.attempt = attempt[sent.of]
                              /\ at'[sent.of] \in {"log", "failed", "ok"}
                              /\ at'[sent.of] = "log" => sent = Sending(sent.of)'
                              /\ at'[sent.of] = "ok" => [sent |-> sent, status |-> "SENT"] \in logs'
      BY <1>1 DEF TakenLogged
    <2>1. CASE sent.of # m
      BY <1>1, <1>2, <1>6, <2>1 DEF NotificationInv, TakenLogged
    <2>2. CASE sent.of = m
      BY <1>1, <1>2, <1>5, <2>2 DEF NotificationInv, TakenLogged
    <2> QED
      BY <2>1, <2>2
  <1>10. Attempted'
    <2> SUFFICES ASSUME NEW o \in Messages
                 PROVE  /\ at'[o] = "log" /\ ~refused'[o] => Sending(o)' \in taken
                        /\ at'[o] = "ok" =>
                              \E r \in logs' : r.sent.of = o /\ r.sent.attempt = attempt[o]
                                               /\ r.status = "SENT"
      BY <1>1 DEF Attempted
    <2>1. CASE o # m
      BY <1>1, <1>2, <1>3, <1>6, <2>1 DEF NotificationInv, Attempted
    <2>2. CASE o = m
      BY <1>1, <1>2, <1>4, <2>2
    <2> QED
      BY <2>1, <2>2
  <1> QED
    BY <1>7, <1>8, <1>9, <1>10 DEF NotificationInv

\* A new attempt leaves the rows of the earlier ones behind.
LEMMA AskingKeepsLogs ==
    ASSUME NotificationInv, NEW m \in Messages, AskAgain(m)
    PROVE  NotificationInv'
  <1>1. /\ at[m] = "failed" /\ at'[m] = "start"
        /\ \A o \in Messages : o # m => at'[o] = at[o]
        /\ at' \in [Messages \cup TemplateCreates \cup TemplateEdits ->
                       {"start", "provider", "log", "ok", "failed"}]
        /\ UNCHANGED <<templates, logs, draft, refused, taken>>
    BY MessageGoes DEF NotificationInv, AskAgain
  <1>2. /\ attempt' \in [Messages -> Nat] /\ attempt[m] \in Nat
        /\ attempt'[m] = attempt[m] + 1
        /\ \A o \in Messages : o # m => attempt'[o] = attempt[o]
    BY DEF AskAgain, NotificationInv, NotificationTypeOK
  <1>3. \A o \in Messages : o # m => Sending(o)' = Sending(o)
    BY <1>1, <1>2 DEF Sending
  <1>4. RowsOver'
    BY <1>1, <1>2 DEF NotificationInv, RowsOver
  <1>5. TakenLogged'
    <2> SUFFICES ASSUME NEW sent \in taken
                 PROVE  /\ sent.of \in Messages /\ sent.attempt \in Nat
                        /\ \/ sent.attempt < attempt'[sent.of]
                           \/ /\ sent.attempt = attempt'[sent.of]
                              /\ at'[sent.of] \in {"log", "failed", "ok"}
                              /\ at'[sent.of] = "log" => sent = Sending(sent.of)'
                              /\ at'[sent.of] = "ok" => [sent |-> sent, status |-> "SENT"] \in logs
      BY <1>1 DEF TakenLogged
    <2>1. CASE sent.of # m
      BY <1>1, <1>2, <1>3, <2>1 DEF NotificationInv, TakenLogged
    <2>2. CASE sent.of = m
      <3>1. sent.attempt \in Nat /\ (sent.attempt < attempt[m] \/ sent.attempt = attempt[m])
        BY <2>2 DEF NotificationInv, TakenLogged
      <3> QED
        BY <1>2, <2>2, <3>1
    <2> QED
      BY <2>1, <2>2
  <1>6. Attempted'
    BY <1>1, <1>2, <1>3 DEF NotificationInv, Attempted
  <1>7. NotificationTypeOK'
    <2>1. \A sent \in taken : sent.of \in Messages /\ sent.attempt <= attempt'[sent.of]
      <3> SUFFICES ASSUME NEW sent \in taken
                   PROVE  sent.of \in Messages /\ sent.attempt <= attempt'[sent.of]
        OBVIOUS
      <3>1. /\ sent.of \in Messages /\ sent.attempt \in Nat
            /\ attempt[sent.of] \in Nat /\ sent.attempt <= attempt[sent.of]
        BY DEF NotificationInv, NotificationTypeOK, TakenLogged
      <3> QED
        BY <1>2, <3>1
    <2> QED
      BY <1>1, <1>2, <2>1 DEF NotificationInv, NotificationTypeOK
  <1> QED
    BY <1>4, <1>5, <1>6, <1>7 DEF NotificationInv

LEMMA StepsKeepLogs ==
    NotificationInv /\ [NotificationNext]_notificationVars => NotificationInv'
  <1> SUFFICES ASSUME NotificationInv, [NotificationNext]_notificationVars
               PROVE  NotificationInv'
    OBVIOUS
  <1>1. CASE UNCHANGED notificationVars
    BY <1>1 DEF notificationVars, NotificationInv, NotificationTypeOK, RowsOver, TakenLogged,
                Attempted, Sending
  <1>2. ASSUME NEW m \in Messages, NEW c \in Channels, SendNotification(m, c)
        PROVE  NotificationInv'
    BY <1>2, ReadKeepsLogs, ProviderKeepsLogs, LoggingKeepsLogs DEF SendNotification
  <1>3. /\ Sends \subseteq Messages /\ StatusEvents \subseteq Messages /\ Push \in Channels
    BY NotificationAssumption DEF Messages
  <1> QED
    BY <1>1, <1>2, <1>3, AskingKeepsLogs, TemplatesKeepLogs
       DEF NotificationNext, SendStep, HandleTrackingStatusUpdated

\* The invariant holds whatever fails and is asked again.
THEOREM NotificationInvariant == NotificationSpec => []NotificationInv
  BY NotificationStarts, StepsKeepLogs, PTL DEF NotificationSpec

\* Templates, logs and requests keep their types.
THEOREM NotificationTypes == NotificationSpec => []NotificationTypeOK
  <1>1. NotificationInv => NotificationTypeOK
    BY DEF NotificationInv
  <1> QED
    BY <1>1, NotificationInvariant, PTL

\* The log, the providers and the answers agree.
THEOREM LogsAgreeAlways == NotificationSpec => []LogsAgree
  <1>1. NotificationInv => LogsAgree
    <2> SUFFICES ASSUME NotificationInv
                 PROVE  LogsAgree
      OBVIOUS
    <2>1. \A row \in logs :
             /\ row.status = "SENT" => row.sent \in taken
             /\ \A other \in logs :
                   row.sent.of = other.sent.of /\ row.sent.attempt = other.sent.attempt
                       => row = other
      BY DEF NotificationInv, RowsOver
    <2>2. \A m \in Messages : at[m] = "ok" =>
             \E row \in logs : row.sent.of = m /\ row.sent.attempt = attempt[m]
                               /\ row.status = "SENT"
      BY DEF NotificationInv, Attempted
    <2>3. \A sent \in taken : [sent |-> sent, status |-> "SENT"] \notin logs =>
             sent.attempt < attempt[sent.of] \/ at[sent.of] \in {"log", "failed"}
      BY DEF NotificationInv, TakenLogged
    <2> QED
      BY <2>1, <2>2, <2>3 DEF LogsAgree
  <1> QED
    BY <1>1, NotificationInvariant, PTL

----------------------------------------------------------------------------
(* The tariffs                                                              *)

LEMMA MaxOfThree ==
    ASSUME NEW a \in Int, NEW b \in Int, NEW c \in Int
    PROVE  Max({a, b, c}) \in {a, b, c}
           /\ a <= Max({a, b, c}) /\ b <= Max({a, b, c}) /\ c <= Max({a, b, c})
  <1>1. \E x \in {a, b, c} : \A y \in {a, b, c} : x >= y
    OBVIOUS
  <1>2. /\ Max({a, b, c}) \in {a, b, c}
        /\ \A y \in {a, b, c} : Max({a, b, c}) >= y
    BY <1>1 DEF Max
  <1> QED
    BY <1>2

LEMMA ProductsGrow ==
    ASSUME NEW a \in Int, NEW b \in Int, NEW c \in Int, NEW d \in Int,
           0 <= a, a <= b, 0 <= c, c <= d
    PROVE  0 <= a * c /\ a * c <= b * d /\ a * c \in Int /\ b * d \in Int
  <1>1. 0 <= a * c /\ a * c \in Int /\ b * d \in Int /\ b * c \in Int
    OBVIOUS
  <1>2. (b - a) * c >= 0 /\ b * (d - c) >= 0
    OBVIOUS
  <1>3. (b - a) * c = b * c - a * c /\ b * (d - c) = b * d - b * c
    OBVIOUS
  <1>4. b * c - a * c >= 0 /\ b * d - b * c >= 0
    BY <1>2, <1>3
  <1> QED
    BY <1>1, <1>4, SMT

LEMMA ChargeTyped ==
    ASSUME NEW p \in Parcel, NEW rate \in Rate
    PROVE  ChargeableWeight(p, rate) \in Int
  <1>1. p.weight \in Int /\ p.length \in Int /\ p.width \in Int /\ p.height \in Int
    BY TariffAssumption DEF Parcel
  <1>2. rate.minWeight \in Nat
    BY DEF Rate
  <1> DEFINE pv == Volume(p)
             pw == 6000 * p.weight
             mw == 6000 * rate.minWeight
  <1>3. pv \in Int
    <2>1. p.length * p.width \in Int
      BY <1>1
    <2> QED
      BY <1>1, <2>1 DEF Volume
  <1>4. pw \in Int /\ mw \in Int
    BY <1>1, <1>2
  <1>5. ChargeableWeight(p, rate) = Max({pw, pv, mw})
    BY DEF ChargeableWeight
  <1> HIDE DEF pv, pw, mw
  <1>6. Max({pw, pv, mw}) \in {pw, pv, mw}
    BY <1>3, <1>4, MaxOfThree
  <1> QED
    BY <1>3, <1>4, <1>5, <1>6

\* The row of the table rates that a quote went by.
RateOf(q) == Rates[<<ZoneOf[q.lane], q.service>>]

\* A quote and a bill are what the formulas make of what was asked.
Quoted(q) ==
    /\ q.parcel \in Parcel
    /\ RateOf(q) \in Rate
    /\ q.complete \in BOOLEAN
    /\ q.price = ChargeableWeight(q.parcel, RateOf(q)) * RateOf(q).perKg +
                 (IF IsOversize(q.parcel, RateOf(q)) /\ q.complete THEN 6000 * Oversize ELSE 0)

Billed(b) ==
    /\ b.service \in Services /\ b.tenths \in Int
    /\ b.insurance \in BOOLEAN /\ b.cod \in BOOLEAN
    /\ b.price = OrderPrice(b.service, b.tenths, b.insurance, b.cod)
    /\ b.days = EstimatedDays(b.service)

TariffInv == (\A q \in quotes : Quoted(q)) /\ (\A b \in bills : Billed(b))

LEMMA TariffStarts == TariffInit => TariffInv
  BY DEF TariffInit, TariffInv

LEMMA StepsKeepTariff == TariffInv /\ [TariffNext]_tariffVars => TariffInv'
  <1> SUFFICES ASSUME TariffInv, [TariffNext]_tariffVars
               PROVE  TariffInv'
    OBVIOUS
  <1>1. ASSUME NEW q
        PROVE  Quoted(q)' <=> Quoted(q)
    BY DEF Quoted, RateOf, ChargeableWeight, Volume, IsOversize
  <1>2. ASSUME NEW b
        PROVE  Billed(b)' <=> Billed(b)
    BY DEF Billed, OrderPrice, EstimatedDays, BaseRate
  <1>3. CASE UNCHANGED tariffVars
    BY <1>1, <1>2, <1>3 DEF TariffInv, tariffVars
  <1>4. CASE Quote
    <2>1. PICK lane \in Lanes, service \in Services, p \in Parcel : CalculatePrice(lane, service, p)
      BY <1>4 DEF Quote
    <2>2. PICK zone \in GetZone(lane) \ {NotFound} :
             \E rate \in GetRate(zone, service) \ {NotFound}, surcharge \in GetSurcharge :
                 quotes' = quotes \cup
                     {[lane |-> lane, service |-> service, parcel |-> p,
                       complete |-> surcharge # NotFound,
                       price |-> ChargeableWeight(p, rate) * rate.perKg +
                                 (IF IsOversize(p, rate) /\ surcharge # NotFound
                                  THEN 6000 * surcharge ELSE 0)]}
      BY <2>1 DEF CalculatePrice
    <2>3. zone = ZoneOf[lane] /\ zone \in Zones
      BY TariffAssumption DEF GetZone
    <2>4. PICK rate \in GetRate(zone, service) \ {NotFound}, surcharge \in GetSurcharge :
             quotes' = quotes \cup
                 {[lane |-> lane, service |-> service, parcel |-> p,
                   complete |-> surcharge # NotFound,
                   price |-> ChargeableWeight(p, rate) * rate.perKg +
                             (IF IsOversize(p, rate) /\ surcharge # NotFound
                              THEN 6000 * surcharge ELSE 0)]}
      BY <2>2
    <2>5. rate = Rates[<<zone, service>>] /\ rate \in Rate
      BY <2>3, TariffAssumption DEF GetRate
    <2>6. surcharge # NotFound => surcharge = Oversize
      BY DEF GetSurcharge
    <2> DEFINE q == [lane |-> lane, service |-> service, parcel |-> p,
                     complete |-> surcharge # NotFound,
                     price |-> ChargeableWeight(p, rate) * rate.perKg +
                               (IF IsOversize(p, rate) /\ surcharge # NotFound
                                THEN 6000 * surcharge ELSE 0)]
    <2>7. /\ q.lane = lane /\ q.service = service /\ q.parcel = p
          /\ q.complete = (surcharge # NotFound)
          /\ q.price = ChargeableWeight(p, rate) * rate.perKg +
                       (IF IsOversize(p, rate) /\ surcharge # NotFound
                        THEN 6000 * surcharge ELSE 0)
      OBVIOUS
    <2>8. quotes' = quotes \cup {q}
      BY <2>4
    <2> HIDE DEF q
    <2>9. RateOf(q) = rate
      BY <2>3, <2>5, <2>7 DEF RateOf
    <2>10. Quoted(q)
      <3> DEFINE extra == IF IsOversize(p, rate) /\ surcharge # NotFound THEN 6000 * surcharge ELSE 0
                 due == IF IsOversize(q.parcel, RateOf(q)) /\ q.complete THEN 6000 * Oversize ELSE 0
                 cost == ChargeableWeight(p, rate) * rate.perKg
      <3>1. q.parcel \in Parcel /\ RateOf(q) \in Rate /\ q.complete \in BOOLEAN
        BY <2>5, <2>7, <2>9
      <3>2. extra = due
        <4>1. CASE surcharge = NotFound
          <5>1. ~q.complete
            BY <2>7, <4>1
          <5> QED
            BY <4>1, <5>1
        <4>2. CASE surcharge # NotFound
          <5>1. q.complete /\ surcharge = Oversize
            BY <2>6, <2>7, <4>2
          <5>2. q.parcel = p /\ RateOf(q) = rate
            BY <2>7, <2>9
          <5> QED
            BY <4>2, <5>1, <5>2
        <4> QED
          BY <4>1, <4>2
      <3>3. q.price = cost + extra
        BY <2>7
      <3>4. cost = ChargeableWeight(q.parcel, RateOf(q)) * RateOf(q).perKg
        BY <2>7, <2>9
      <3>5. q.price = ChargeableWeight(q.parcel, RateOf(q)) * RateOf(q).perKg + due
        <4> HIDE DEF extra, due, cost
        <4> QED
          BY <3>2, <3>3, <3>4
      <3> QED
        BY <3>1, <3>5 DEF Quoted
    <2>11. UNCHANGED bills
      BY <1>4 DEF Quote
    <2> QED
      BY <1>1, <1>2, <2>8, <2>10, <2>11 DEF TariffInv
  <1>5. CASE Bill
    <2>1. PICK service \in Services, tenths \in OrderWeights, insurance \in BOOLEAN,
               cod \in BOOLEAN : PriceOrder(service, tenths, insurance, cod)
      BY <1>5 DEF Bill
    <2> DEFINE b == [service |-> service, tenths |-> tenths,
                     insurance |-> insurance, cod |-> cod,
                     price |-> OrderPrice(service, tenths, insurance, cod),
                     days |-> EstimatedDays(service)]
    <2>2. bills' = bills \cup {b}
      BY <2>1 DEF PriceOrder
    <2>3. tenths \in Int
      BY TariffAssumption
    <2>4. /\ b.service = service /\ b.tenths = tenths /\ b.insurance = insurance
          /\ b.cod = cod /\ b.price = OrderPrice(service, tenths, insurance, cod)
          /\ b.days = EstimatedDays(service)
      OBVIOUS
    <2> HIDE DEF b
    <2>5. Billed(b)
      BY <2>3, <2>4 DEF Billed
    <2>6. UNCHANGED quotes
      BY <1>5 DEF Bill
    <2> QED
      BY <1>1, <1>2, <2>2, <2>5, <2>6 DEF TariffInv
  <1> QED
    BY <1>3, <1>4, <1>5 DEF TariffNext

\* A parcel within another weighs no more and takes no more room.
LEMMA WithinWeighsNoMore ==
    ASSUME NEW p \in Parcel, NEW r \in Parcel, NEW rate \in Rate, Within(p, r)
    PROVE  /\ ChargeableWeight(p, rate) \in Int /\ ChargeableWeight(r, rate) \in Int
           /\ ChargeableWeight(p, rate) <= ChargeableWeight(r, rate)
           /\ IsOversize(p, rate) => IsOversize(r, rate)
  <1>1. /\ p.weight \in Int /\ p.length \in Int /\ p.width \in Int /\ p.height \in Int
        /\ r.weight \in Int /\ r.length \in Int /\ r.width \in Int /\ r.height \in Int
    BY TariffAssumption DEF Parcel
  <1>2. rate.perKg \in Nat /\ rate.minWeight \in Nat /\ rate.maxWeight \in Nat
        /\ rate.maxLength \in Nat /\ rate.maxWidth \in Nat /\ rate.maxHeight \in Nat
    BY DEF Rate
  <1>3. Volume(p) \in Int /\ Volume(r) \in Int /\ Volume(p) <= Volume(r)
    <2>1. /\ 0 <= p.length * p.width /\ p.length * p.width <= r.length * r.width
          /\ p.length * p.width \in Int /\ r.length * r.width \in Int
      BY <1>1, ProductsGrow DEF Within
    <2> QED
      BY <1>1, <2>1, ProductsGrow DEF Within, Volume
  <1>4. /\ 6000 * p.weight \in Int /\ 6000 * r.weight \in Int /\ 6000 * rate.minWeight \in Int
        /\ 6000 * p.weight <= 6000 * r.weight
    BY <1>1, <1>2 DEF Within
  <1> DEFINE pv == Volume(p)
             rv == Volume(r)
             pw == 6000 * p.weight
             rw == 6000 * r.weight
             mw == 6000 * rate.minWeight
  <1>5. ChargeableWeight(p, rate) = Max({pw, pv, mw}) /\ ChargeableWeight(r, rate) = Max({rw, rv, mw})
    BY DEF ChargeableWeight
  <1>6. pv \in Int /\ rv \in Int /\ pw \in Int /\ rw \in Int /\ mw \in Int /\ pv <= rv /\ pw <= rw
    BY <1>3, <1>4
  <1> HIDE DEF pv, rv, pw, rw, mw
  <1>7. /\ Max({pw, pv, mw}) \in {pw, pv, mw} /\ Max({rw, rv, mw}) \in {rw, rv, mw}
        /\ rw <= Max({rw, rv, mw}) /\ rv <= Max({rw, rv, mw}) /\ mw <= Max({rw, rv, mw})
    BY <1>6, MaxOfThree
  <1>8. Max({pw, pv, mw}) \in Int /\ Max({rw, rv, mw}) \in Int
    BY <1>6, <1>7
  <1>9. Max({pw, pv, mw}) <= Max({rw, rv, mw})
    BY <1>6, <1>7, <1>8
  <1>10. IsOversize(p, rate) => IsOversize(r, rate)
    BY <1>1, <1>2 DEF IsOversize, Within
  <1> QED
    BY <1>5, <1>8, <1>9, <1>10

LEMMA QuotesOrdered == TariffInv => BiggerCostsMore
  <1> SUFFICES ASSUME TariffInv, NEW q \in quotes, NEW r \in quotes,
                      q.lane = r.lane, q.service = r.service, Within(q.parcel, r.parcel),
                      r.complete
               PROVE  q.price <= r.price
    BY DEF BiggerCostsMore
  <1> DEFINE rate == RateOf(q)
             cq == ChargeableWeight(q.parcel, rate)
             cr == ChargeableWeight(r.parcel, rate)
             sq == IF IsOversize(q.parcel, rate) /\ q.complete THEN 6000 * Oversize ELSE 0
             sr == IF IsOversize(r.parcel, rate) /\ r.complete THEN 6000 * Oversize ELSE 0
  <1>1. RateOf(r) = rate
    BY DEF RateOf
  <1>2. /\ q.parcel \in Parcel /\ r.parcel \in Parcel /\ rate \in Rate
        /\ q.price = cq * rate.perKg + sq /\ r.price = cr * rate.perKg + sr
    BY <1>1 DEF TariffInv, Quoted
  <1>3. cq \in Int /\ cr \in Int /\ cq <= cr /\ rate.perKg \in Nat
    BY <1>2, WithinWeighsNoMore DEF Rate
  <1>4. IsOversize(q.parcel, rate) => IsOversize(r.parcel, rate)
    BY <1>2, WithinWeighsNoMore
  <1>5. sq \in Int /\ sr \in Int /\ sq <= sr
    BY <1>4, TariffAssumption
  <1> HIDE DEF cq, cr, sq, sr, rate
  <1>6. cq * rate.perKg \in Int /\ cr * rate.perKg \in Int /\ cq * rate.perKg <= cr * rate.perKg
    <2>1. PICK k \in Nat : k = rate.perKg
      BY <1>3
    <2>2. (cr - cq) * k >= 0 /\ (cr - cq) * k = cr * k - cq * k /\ cr * k \in Int /\ cq * k \in Int
      BY <1>3
    <2> QED
      BY <2>1, <2>2
  <1> QED
    BY <1>2, <1>5, <1>6

\* What the weight makes of the base rate.
Base(service, tenths) ==
    IF BaseRate(service) * tenths <= 0 THEN BaseRate(service) * 10 ELSE BaseRate(service) * tenths

Factor(insurance, cod) == (IF insurance THEN 6 ELSE 5) * (IF cod THEN 51 ELSE 50)

LEMMA PriceIsProduct ==
    ASSUME NEW service, NEW tenths \in Int, NEW insurance \in BOOLEAN, NEW cod \in BOOLEAN
    PROVE  /\ BaseRate(service) \in {7000, 9000, 19000, 25000}
           /\ Base(service, tenths) \in Nat /\ Base(service, tenths) > 0
           /\ Factor(insurance, cod) \in {250, 255, 300, 306}
           /\ OrderPrice(service, tenths, insurance, cod)
                 = Base(service, tenths) * Factor(insurance, cod)
  <1>1. BaseRate(service) \in {7000, 9000, 19000, 25000}
    BY DEF BaseRate
  <1>2. Base(service, tenths) \in Nat /\ Base(service, tenths) > 0
    BY <1>1 DEF Base
  <1>3. Factor(insurance, cod) \in {250, 255, 300, 306}
    BY DEF Factor
  <1>4. OrderPrice(service, tenths, insurance, cod)
           = Base(service, tenths) * (IF insurance THEN 6 ELSE 5) * (IF cod THEN 51 ELSE 50)
    BY DEF OrderPrice, Base
  <1>5. \A b \in Nat : b * (IF insurance THEN 6 ELSE 5) * (IF cod THEN 51 ELSE 50)
                       = b * ((IF insurance THEN 6 ELSE 5) * (IF cod THEN 51 ELSE 50))
    OBVIOUS
  <1> QED
    BY <1>1, <1>2, <1>3, <1>4, <1>5 DEF Factor

LEMMA OrdersOrdered == TariffInv => OrdersPricedFairly
  <1> SUFFICES ASSUME TariffInv, NEW a \in bills, NEW b \in bills
               PROVE  /\ a.service = b.service /\ AsksNoMore(a, b) /\ a.tenths <= b.tenths
                           => a.price <= b.price \/ (a.tenths <= 0 /\ b.tenths < 10)
                      /\ a.tenths = b.tenths /\ a.insurance = b.insurance /\ a.cod = b.cod
                         /\ a.days < b.days
                           => a.price > b.price
    BY DEF OrdersPricedFairly
  <1> DEFINE ra == BaseRate(a.service)
             rb == BaseRate(b.service)
             ba == Base(a.service, a.tenths)
             bb == Base(b.service, b.tenths)
             fa == Factor(a.insurance, a.cod)
             fb == Factor(b.insurance, b.cod)
  <1>1. /\ a.tenths \in Int /\ b.tenths \in Int
        /\ a.insurance \in BOOLEAN /\ a.cod \in BOOLEAN /\ b.insurance \in BOOLEAN /\ b.cod \in BOOLEAN
        /\ a.price = OrderPrice(a.service, a.tenths, a.insurance, a.cod)
        /\ b.price = OrderPrice(b.service, b.tenths, b.insurance, b.cod)
        /\ a.days = EstimatedDays(a.service) /\ b.days = EstimatedDays(b.service)
    BY DEF TariffInv, Billed
  <1>2. /\ ra \in {7000, 9000, 19000, 25000} /\ rb \in {7000, 9000, 19000, 25000}
        /\ ba \in Nat /\ bb \in Nat
        /\ fa \in {250, 255, 300, 306} /\ fb \in {250, 255, 300, 306}
        /\ a.price = ba * fa /\ b.price = bb * fb
    <2>1. /\ ra \in {7000, 9000, 19000, 25000} /\ ba \in Nat
          /\ fa \in {250, 255, 300, 306} /\ a.price = ba * fa
      BY <1>1, PriceIsProduct
    <2>2. /\ rb \in {7000, 9000, 19000, 25000} /\ bb \in Nat
          /\ fb \in {250, 255, 300, 306} /\ b.price = bb * fb
      BY <1>1, PriceIsProduct
    <2> QED
      BY <2>1, <2>2
  <1>3. /\ ba = IF ra * a.tenths <= 0 THEN ra * 10 ELSE ra * a.tenths
        /\ bb = IF rb * b.tenths <= 0 THEN rb * 10 ELSE rb * b.tenths
    BY DEF Base
  <1>4. ASSUME a.service = b.service, AsksNoMore(a, b), a.tenths <= b.tenths,
               ~(a.tenths <= 0 /\ b.tenths < 10)
        PROVE  a.price <= b.price
    <2>1. fa <= fb
      BY <1>1, <1>4 DEF AsksNoMore, Factor
    <2>2. ra = rb
      BY <1>4
    <2> HIDE DEF ra, rb, ba, bb, fa, fb
    <2>3. ba <= bb
      BY <1>1, <1>2, <1>3, <1>4, <2>2
    <2> QED
      BY <1>2, <2>1, <2>3, ProductsGrow
  <1>5. ASSUME a.tenths = b.tenths, a.insurance = b.insurance, a.cod = b.cod, a.days < b.days
        PROVE  a.price > b.price
    <2>1. ra > rb
      BY <1>1, <1>5 DEF BaseRate, EstimatedDays
    <2>2. fa = fb
      BY <1>5
    <2> HIDE DEF ra, rb, ba, bb, fa, fb
    <2>3. ba > bb
      BY <1>1, <1>2, <1>3, <1>5, <2>1
    <2> QED
      BY <1>2, <2>2, <2>3
  <1> QED
    BY <1>4, <1>5

LEMMA TariffTyped == TariffInv => TariffTypeOK
  <1> SUFFICES ASSUME TariffInv
               PROVE  TariffTypeOK
    OBVIOUS
  <1>1. ASSUME NEW q \in quotes
        PROVE  q.parcel \in Parcel /\ q.price \in Int
    <2> DEFINE rate == RateOf(q)
               weight == ChargeableWeight(q.parcel, rate)
               extra == IF IsOversize(q.parcel, rate) /\ q.complete THEN 6000 * Oversize ELSE 0
    <2>1. q.parcel \in Parcel /\ rate \in Rate /\ q.price = weight * rate.perKg + extra
      BY DEF TariffInv, Quoted
    <2>2. weight \in Int
      BY <2>1, ChargeTyped
    <2>3. extra \in Int /\ rate.perKg \in Int
      BY <2>1, TariffAssumption DEF Rate
    <2> HIDE DEF weight, extra
    <2>4. weight * rate.perKg \in Int
      BY <2>2, <2>3
    <2> QED
      BY <2>1, <2>3, <2>4
  <1>2. ASSUME NEW b \in bills
        PROVE  b.price \in Nat
    <2>1. /\ b.tenths \in Int /\ b.insurance \in BOOLEAN /\ b.cod \in BOOLEAN
          /\ b.price = OrderPrice(b.service, b.tenths, b.insurance, b.cod)
      BY DEF TariffInv, Billed
    <2> DEFINE x == Base(b.service, b.tenths)
               f == Factor(b.insurance, b.cod)
    <2>2. x \in Nat /\ f \in {250, 255, 300, 306} /\ b.price = x * f
      BY <2>1, PriceIsProduct
    <2> HIDE DEF x, f
    <2>3. \A m, n \in Nat : m * n \in Nat
      OBVIOUS
    <2>4. f \in Nat
      BY <2>2
    <2> QED
      BY <2>2, <2>3, <2>4
  <1> QED
    BY <1>1, <1>2 DEF TariffTypeOK

\* Every answer of the two services is what their formulas give.
THEOREM TariffInvariant == TariffSpec => []TariffInv
  BY TariffStarts, StepsKeepTariff, PTL DEF TariffSpec

\* Every quote is of a parcel that was asked about, and every price is a number.
THEOREM TariffTypes == TariffSpec => []TariffTypeOK
  BY TariffInvariant, TariffTyped, PTL

\* Bigger parcels are quoted no less and orders are priced fairly.
THEOREM PricesAreOrdered == TariffSpec => []PricesOrdered
  <1>1. TariffInv => PricesOrdered
    BY QuotesOrdered, OrdersOrdered DEF PricesOrdered
  <1> QED
    BY <1>1, TariffInvariant, PTL

-----------------------------------------------------------------------------
(* All the parts                                                            *)

\* A step of all of them is a step of each, or leaves it as it is.
LEMMA StepsOfParts ==
    ASSUME [Next]_<<servicesVars, part>>
    PROVE  /\ [SearchNext]_searchVars
           /\ [RoutingNext]_routingVars
           /\ [TourNext]_tourVars
           /\ [DeliveryNext]_deliveryVars
           /\ [StockNext]_stockVars
           /\ [NotificationNext]_notificationVars
           /\ [TariffNext]_tariffVars
  <1>1. CASE UNCHANGED <<servicesVars, part>>
    BY <1>1 DEF servicesVars
  <1>2. CASE SearchNext /\ UNCHANGED <<routingVars, tourVars, deliveryVars, stockVars, notificationVars, tariffVars>>
    BY <1>2
  <1>3. CASE RoutingNext /\ UNCHANGED <<searchVars, tourVars, deliveryVars, stockVars, notificationVars, tariffVars>>
    BY <1>3
  <1>4. CASE TourNext /\ UNCHANGED <<searchVars, routingVars, deliveryVars, stockVars, notificationVars, tariffVars>>
    BY <1>4
  <1>5. CASE DeliveryNext /\ UNCHANGED <<searchVars, routingVars, tourVars, stockVars, notificationVars, tariffVars>>
    BY <1>5
  <1>6. CASE StockNext /\ UNCHANGED <<searchVars, routingVars, tourVars, deliveryVars, notificationVars, tariffVars>>
    BY <1>6
  <1>7. CASE NotificationNext /\ UNCHANGED <<searchVars, routingVars, tourVars, deliveryVars, stockVars, tariffVars>>
    BY <1>7
  <1>8. CASE TariffNext /\ UNCHANGED <<searchVars, routingVars, tourVars, deliveryVars, stockVars, notificationVars>>
    BY <1>8
  <1>9. QED
    BY <1>1, <1>2, <1>3, <1>4, <1>5, <1>6, <1>7, <1>8 DEF Next

\* What TLC checks, one part running while the others rest, is a case of Parts.
LEMMA SpecIsParts == Spec => Parts
  <1>1. Init => SearchInit /\ RoutingInit /\ TourInit /\ DeliveryInit
                /\ StockInit /\ NotificationInit /\ TariffInit
    BY DEF Init
  <1>2. [Next]_<<servicesVars, part>> =>
           /\ [SearchNext]_searchVars
           /\ [RoutingNext]_routingVars
           /\ [TourNext]_tourVars
           /\ [DeliveryNext]_deliveryVars
           /\ [StockNext]_stockVars
           /\ [NotificationNext]_notificationVars
           /\ [TariffNext]_tariffVars
    BY StepsOfParts
  <1>3. QED
    BY <1>1, <1>2, PTL
    DEF Spec, Parts, SearchSpec, RoutingSpec, TourSpec, DeliverySpec, StockSpec, NotificationSpec,
        TariffSpec

\* Every variable of every part keeps its type, however the parts take turns.
THEOREM PartsTypeCorrect == Parts => []ServicesTypeOK
  <1>1. QED
    BY SearchTypeCorrect, RoutingTypeCorrect, TourTypes, DeliveryTypeCorrect, StockTypes,
       NotificationTypes, TariffTypes, PTL DEF Parts, ServicesTypeOK

\* The invariants of the parts hold together while all the parts run.
THEOREM ServicesSafe == Parts => [](/\ SearchIsCorrect
                                   /\ StaleOnlyByOverlap
                                   /\ ToursComplete
                                   /\ AttemptsAccounted
                                   /\ StockAccounted
                                   /\ LogsAgree
                                   /\ PricesOrdered)
  <1>1. QED
    BY SearchAlwaysCorrect, StaleOnlyIfOverlapping, ToursAlwaysComplete, AttemptsAreAccounted,
       StockIsAccounted, LogsAgreeAlways, PricesAreOrdered, PTL DEF Parts

\* The same of the specification that TLC checks.
COROLLARY CheckedSpecIsSafe == Spec => [](/\ ServicesTypeOK
                                         /\ SearchIsCorrect
                                         /\ StaleOnlyByOverlap
                                         /\ ToursComplete
                                         /\ AttemptsAccounted
                                         /\ StockAccounted
                                         /\ LogsAgree
                                         /\ PricesOrdered)
  <1>1. QED
    BY SpecIsParts, PartsTypeCorrect, ServicesSafe, PTL
=============================================================================
