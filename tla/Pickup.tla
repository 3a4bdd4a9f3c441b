------------------------------- MODULE Pickup -------------------------------
(***************************************************************************)
(* pickup-service.  Every operation on an existing pickup reads the row,   *)
(* checks the transition in memory and writes the whole row back with a    *)
(* second statement; the UPDATE looks at nothing but the id.  A failed     *)
(* attempt is announced to notification-service after the write.           *)
(*                                                                         *)
(* Requests are processes.  Those for a pickup in Exclusive come one at a  *)
(* time (a client that waits for its answers); for the others anything may *)
(* overlap, and the two kinds of pickups are served side by side.          *)
(***************************************************************************)
EXTENDS Naturals, FiniteSets

CONSTANTS
    Creates,        \* POST /pickups and order-created events; each gets a fresh pickup_id, itself
    Assigns, Updates, Cancels,      \* the other requests, by endpoint
    Exclusive,      \* the pickups whose requests do not overlap
    Couriers,       \* courier ids
    NoCourier,      \* the empty courier_id, which the handler accepts
    NoPickup,       \* no row
    MaxInFlight     \* bound: how many requests are between read and answer at a time

Pickups == Creates
Changes == Assigns \cup Updates \cup Cancels
Requests == Creates \cup Changes

Status == {"SCHEDULED", "ASSIGNED", "PICKED_UP", "FAILED_ATTEMPT", "CANCELLED"}
Row == [status : Status, courier : Couriers \cup {NoCourier}, attempts : Nat]

ASSUME PickupAssumption ==
    /\ Creates \cap Changes = {}
    /\ Assigns \cap (Updates \cup Cancels) = {}
    /\ Updates \cap Cancels = {}
    /\ Exclusive \subseteq Creates
    /\ IsFiniteSet(Changes)
    /\ NoCourier \notin Couriers
    /\ NoPickup \notin Row
    /\ NoPickup \notin Creates
    /\ MaxInFlight \in Nat \ {0}

VARIABLES
    pickups,    \* table pickups
    pc,         \* pc[q] : the next statement or call of request q, or its answer
    target,     \* target[q] : the pickup that request q found and will write
    draft,      \* draft[q] : the row that q has computed and will write
    written,    \* the requests whose UPDATE took effect
    notified    \* notification-service: the announcements it received, by request

vars == <<pickups, pc, target, draft, written, notified>>

InProgress == {"write", "notify"}
Answered == {"ok", "failed"}

----------------------------------------------------------------------------
(* domain/state_machine.go                                                  *)

Transitions_PickUpScheduled ==
    {<<"SCHEDULED", "ASSIGNED">>, <<"SCHEDULED", "CANCELLED">>, <<"SCHEDULED", "PICKED_UP">>,
     <<"ASSIGNED", "PICKED_UP">>, <<"ASSIGNED", "FAILED_ATTEMPT">>,
     <<"FAILED_ATTEMPT", "SCHEDULED">>}

Transitions ==
    {<<"SCHEDULED", "ASSIGNED">>, <<"SCHEDULED", "CANCELLED">>,
     <<"ASSIGNED", "PICKED_UP">>, <<"ASSIGNED", "FAILED_ATTEMPT">>,
     <<"FAILED_ATTEMPT", "SCHEDULED">>}

Transition_CountsReschedule(row, to) ==
    [status |-> to, courier |-> row.courier,
     attempts |-> row.attempts + IF to \in {"FAILED_ATTEMPT", "SCHEDULED"} THEN 1 ELSE 0]

Transition(row, to) ==
    [status |-> to, courier |-> row.courier,
     attempts |-> row.attempts + IF to = "FAILED_ATTEMPT" THEN 1 ELSE 0]

----------------------------------------------------------------------------
(* Requests                                                                 *)

Busy(p) == \E q \in Changes : target[q] = p /\ pc[q] \in InProgress

Admit(p) ==
    /\ p \in Exclusive => ~ Busy(p)
    /\ Cardinality({q \in Changes : pc[q] \in InProgress}) < MaxInFlight

\* A body that does not decode, a missing field, an unknown status: no statement.
Reject(q) ==
    /\ pc[q] = "new"
    /\ pc' = [pc EXCEPT ![q] = "failed"]
    /\ UNCHANGED <<pickups, target, draft, written, notified>>

RequestPickup_NoStatus(q) ==
    /\ pc[q] = "new"
    /\ pc' = [pc EXCEPT ![q] = "ok"]
    /\ pickups' = [pickups EXCEPT ![q] = [status |-> "", courier |-> NoCourier, attempts |-> 0]]
    /\ UNCHANGED <<target, draft, written, notified>>

\* RequestPickup: one INSERT under a fresh id.  It is not looked up whether
\* the order has a pickup.  The reply of the statement may be lost.
RequestPickup(q) ==
    /\ pc[q] = "new"
    /\ \E answer \in Answered : pc' = [pc EXCEPT ![q] = answer]
    /\ pickups' = [pickups EXCEPT ![q] =
                      [status |-> "SCHEDULED", courier |-> NoCourier, attempts |-> 0]]
    /\ UNCHANGED <<target, draft, written, notified>>

\* GetPickupByID and the check of the transition; row is what q will write.
Read(q, p, to, row) ==
    /\ pc[q] = "new"
    /\ Admit(p)
    /\ IF pickups[p] # NoPickup /\ <<pickups[p].status, to>> \in Transitions
       THEN /\ pc' = [pc EXCEPT ![q] = "write"]
            /\ target' = [target EXCEPT ![q] = p]
            /\ draft' = [draft EXCEPT ![q] = row]
       ELSE pc' = [pc EXCEPT ![q] = "failed"] /\ UNCHANGED <<target, draft>>
    /\ UNCHANGED <<pickups, written, notified>>

AssignCourier(q, p, k) ==
    Read(q, p, "ASSIGNED", [Transition(pickups[p], "ASSIGNED") EXCEPT !.courier = k])

\* Any status of the machine is accepted here, ASSIGNED and CANCELLED, too.
UpdatePickupStatus(q, p, s) == Read(q, p, s, Transition(pickups[p], s))

CancelPickup(q, p) == Read(q, p, "CANCELLED", Transition(pickups[p], "CANCELLED"))

AfterUpdate_NoCall(q) == {"failed", "ok"}

\* What follows the UPDATE of request q; its reply may be lost.
AfterUpdate(q) ==
    {"failed", IF q \in Updates /\ draft[q].status = "FAILED_ATTEMPT" THEN "notify" ELSE "ok"}

UpdatePickup_StatusOnly(q) ==
    /\ pc[q] = "write"
    /\ pickups' = [pickups EXCEPT ![target[q]].status = draft[q].status]
    /\ written' = written \cup {q}
    /\ \E next \in AfterUpdate(q) : pc' = [pc EXCEPT ![q] = next]
    /\ UNCHANGED <<target, draft, notified>>

\* UPDATE pickups SET ... WHERE pickup_id: the whole row, whatever it is by now.
UpdatePickup(q) ==
    /\ pc[q] = "write"
    /\ pickups' = [pickups EXCEPT ![target[q]] = draft[q]]
    /\ written' = written \cup {q}
    /\ \E next \in AfterUpdate(q) : pc' = [pc EXCEPT ![q] = next]
    /\ UNCHANGED <<target, draft, notified>>

\* NotifyCourierEnRoute; the answer of the call may be lost.  The event of a
\* collected parcel is a stub that does nothing.
Notify(q) ==
    /\ pc[q] = "notify"
    /\ notified' = notified \cup {q}
    /\ \E answer \in Answered : pc' = [pc EXCEPT ![q] = answer]
    /\ UNCHANGED <<pickups, target, draft, written>>

\* A statement or the call fails, the client goes away, the process stops.
Abort(q) ==
    /\ pc[q] \in InProgress
    /\ pc' = [pc EXCEPT ![q] = "failed"]
    /\ UNCHANGED <<pickups, target, draft, written, notified>>

----------------------------------------------------------------------------
Init ==
    /\ pickups = [p \in Pickups |-> NoPickup]
    /\ pc = [q \in Requests |-> "new"]
    /\ target = [q \in Changes |-> NoPickup]
    /\ draft = [q \in Changes |-> NoPickup]
    /\ written = {}
    /\ notified = {}

ReadStep(q) ==
    \E p \in Pickups :
        \/ q \in Assigns /\ \E k \in Couriers \cup {NoCourier} : AssignCourier(q, p, k)
        \/ q \in Updates /\ \E s \in Status : UpdatePickupStatus(q, p, s)
        \/ q \in Cancels /\ CancelPickup(q, p)

Next ==
    \/ \E q \in Creates : RequestPickup(q)
    \/ \E q \in Requests : Reject(q)
    \/ \E q \in Changes : ReadStep(q) \/ UpdatePickup(q) \/ Notify(q) \/ Abort(q)

Spec == Init /\ [][Next]_vars

----------------------------------------------------------------------------
(* Properties                                                               *)

\* Every variable has its type.
TypeOK ==
    /\ pickups \in [Pickups -> Row \cup {NoPickup}]
    /\ pc \in [Requests -> {"new"} \cup InProgress \cup Answered]
    /\ target \in [Changes -> Pickups \cup {NoPickup}]
    /\ draft \in [Changes -> Row \cup {NoPickup}]
    /\ written \in SUBSET Changes
    /\ notified \in SUBSET Updates

\* The requests about p that wrote status s.
Writers(p, s) == {q \in written : target[q] = p /\ draft[q].status = s}

\* A parcel is collected, or missed, only after a request assigned the pickup:
\* no overlap of requests, however stale what they read, skips the assignment.
AssignedFirst ==
    \A p \in Pickups :
        /\ pickups[p] # NoPickup
        /\ pickups[p].status \in {"ASSIGNED", "PICKED_UP", "FAILED_ATTEMPT"}
        => Writers(p, "ASSIGNED") # {}

\* The attempt count never exceeds the failures written; overlapping writes
\* may lose some of them, but requests that do not overlap lose none.
AttemptsCounted ==
    \A p \in Pickups : pickups[p] # NoPickup =>
        LET failures == Cardinality(Writers(p, "FAILED_ATTEMPT"))
        IN  /\ pickups[p].attempts <= failures
            /\ p \in Exclusive => pickups[p].attempts = failures

\* The sender is told of an attempt, and a failure is answered 200, only when
\* the failure is in the table.
AnnouncedIsWritten ==
    /\ notified \subseteq written
    /\ \A q \in Changes : pc[q] = "ok" => q \in written
    /\ \A q \in Updates :
          pc[q] = "ok" /\ draft[q].status = "FAILED_ATTEMPT" => q \in notified

\* Between the read and the write of a request for an exclusive pickup nobody
\* changes the row.
DraftIsFresh ==
    \A q \in Changes : pc[q] = "write" /\ target[q] \in Exclusive =>
        LET row == pickups[target[q]]
        IN  /\ row # NoPickup
            /\ <<row.status, draft[q].status>> \in Transitions
            /\ draft[q].attempts = Transition(row, draft[q].status).attempts

----------------------------------------------------------------------------
(* Refinement                                                               *)

state == [p \in Exclusive |->
    IF pickups[p] = NoPickup
    THEN [status |-> "NONE", attempts |-> 0]
    ELSE [status |-> pickups[p].status, attempts |-> pickups[p].attempts]]

Lifecycle == INSTANCE PickupLifecycle WITH Pickups <- Exclusive

\* A pickup whose requests do not overlap moves along the status machine.
LifecycleSpec == Lifecycle!Spec
=============================================================================
