------------------------------ MODULE Payment ------------------------------
(***************************************************************************)
(* payment-service.  Every HTTP request is served by a goroutine of its    *)
(* own; the handlers share nothing but the tables of one PostgreSQL        *)
(* database, and each SQL statement is an autocommitted transaction.  A    *)
(* request is therefore a process whose steps are its statements (and its  *)
(* calls of the gateway and of Kafka), and the steps of concurrent         *)
(* requests interleave.                                                    *)
(*                                                                         *)
(* The work a handler does before its first statement touches only local   *)
(* data, so the arrival of a request and its first statement are one step. *)
(***************************************************************************)
EXTENDS Naturals, FiniteSets

CONSTANTS
    Orders,         \* order ids
    NoOrder,        \* the order of a request that has not arrived
    Refs,           \* external references: the gateway's names of transactions
    NoRef,          \* the empty external_ref of a row
    OrderOf,        \* OrderOf[r] : the order the gateway's transaction r pays
    ChargeRef,      \* ChargeRef[o] : external_ref of the gateway's answer to a charge of o
    CallbackRefs,   \* the references the gateway's callbacks carry
    Charges, Callbacks, Confirms, Refunds,   \* the requests, by endpoint
    Faults,         \* the failures of the environment, out of {"abort", "lookup"}
    MaxInFlight     \* bound: how many requests are served at the same time

Requests == Charges \cup Callbacks \cup Confirms \cup Refunds

ASSUME RefAssumption ==
    /\ NoRef \notin Refs
    /\ NoOrder \notin Orders
    /\ OrderOf \in [Refs -> Orders]
    /\ ChargeRef \in [Orders -> Refs]
    /\ CallbackRefs \subseteq Refs

ASSUME RequestAssumption ==
    /\ Charges \cap (Callbacks \cup Confirms \cup Refunds) = {}
    /\ Callbacks \cap (Confirms \cup Refunds) = {}
    /\ Confirms \cap Refunds = {}
    /\ IsFiniteSet(Confirms)
    /\ Faults \subseteq {"abort", "lookup"}
    /\ MaxInFlight \in Nat \ {0}

VARIABLES
    payments,        \* table payments, one row at most for an order (order_id UNIQUE)
    codCollections,  \* table cod_collections : the number of rows of an order
    published,       \* Kafka: how often the event of a type was published for a reference
    charged,         \* gateway: orders it accepted a charge for
    settled,         \* gateway: the outcome of a transaction, "OPEN" until it has one
    pc,              \* pc[q] : the next statement of request q, or its answer
    order,           \* order[q] : order_id of request q
    ref,             \* ref[q] : external_ref in the body of callback q
    disturbed        \* history: what happened to the callbacks of a reference, and of which

vars == <<payments, codCollections, published, charged, settled, pc, order, ref, disturbed>>

Method == {"GATEWAY", "COD"}   \* TRANSFER, VIRTUAL_ACCOUNT and QRIS share one branch
Status == {"PENDING", "SUCCESS", "FAILED", "REFUNDED"}
Outcome == {"SUCCESS", "FAILED", "EXPIRED"}
EventTypes == {"PAYMENT_SUCCESS", "PAYMENT_FAILED"}

NoPayment == [method |-> "NONE", status |-> "NONE", ref |-> NoRef]
Payment == [method : Method, status : Status, ref : Refs \cup {NoRef}]

Answered == {"ok", "failed"}
InProgress == {"insert", "update", "fetch", "publish", "collect", "confirm", "refund"}

\* What can upset the idempotency of the callbacks of a reference.
Disturbance == {"overtook",     \* an update came before the insert and changed no row
                "overlapped",   \* a lookup came between a lookup and its update
                "unchecked",    \* a lookup failed, which counts as "not processed"
                "erased",       \* the row that carried a processed reference lost it
                "cut off"}      \* the request stopped between its update and its event

----------------------------------------------------------------------------
(* The repository: one operator per statement.                              *)

\* GetPaymentByOrderID finds a row
HasPayment(o) == payments[o] # NoPayment

\* GetPaymentByExternalRef finds a row
RefStored(r) == \E o \in Orders : HasPayment(o) /\ payments[o].ref = r

CreatePayment_Upsert(o, row) == payments' = [payments EXCEPT ![o] = row]

\* INSERT INTO payments: the unique key refuses a second row of the order.
CreatePayment(o, row) ==
    payments' = IF HasPayment(o) THEN payments ELSE [payments EXCEPT ![o] = row]

UpdatePaymentStatus_Lost(o, status, r) == UNCHANGED payments

\* UPDATE payments ... WHERE order_id: to update no row is not an error.
UpdatePaymentStatus(o, status, r) ==
    payments' = IF HasPayment(o)
                THEN [payments EXCEPT ![o] = [method |-> @.method,
                                              status |-> status, ref |-> r]]
                ELSE payments

\* How often other services were told of transaction r.
Events(r) == published[<<r, "PAYMENT_SUCCESS">>] + published[<<r, "PAYMENT_FAILED">>]

\* A callback of r has written its row, and has published or will.
Processed(r) ==
    \/ Events(r) > 0
    \/ \E p \in Callbacks : ref[p] = r /\ pc[p] \in {"fetch", "publish"}

\* To write external_ref r into the row of o erases the one it carried.
Erases(o, r) ==
    {<<"erased", x>> : x \in {y \in Refs \ {r} : payments[o].ref = y /\ Processed(y)}}

----------------------------------------------------------------------------
(* Requests                                                                 *)

Admit == Cardinality({q \in Requests : pc[q] \in InProgress}) < MaxInFlight

Arrive(q, o, step) ==
    /\ pc[q] = "new"
    /\ Admit
    /\ order' = [order EXCEPT ![q] = o]
    /\ pc' = [pc EXCEPT ![q] = step]

Continue(q, from, step) ==
    /\ pc[q] = from
    /\ pc' = [pc EXCEPT ![q] = step]

\* A request answered before it reaches a statement that writes: missing
\* fields, an unsupported method, a gateway that refuses the charge, a bad
\* signature, an unknown callback status.
Reject(q) ==
    /\ Arrive(q, NoOrder, "failed")
    /\ UNCHANGED <<payments, codCollections, published, charged, settled, ref, disturbed>>

\* A statement or a Kafka write fails, the client goes away (which cancels
\* the statements of the request) or the process stops: what is done is done
\* and the rest is never executed.
Abort(q) ==
    /\ "abort" \in Faults
    /\ pc[q] \in InProgress
    /\ pc' = [pc EXCEPT ![q] = "failed"]
    /\ disturbed' = disturbed \cup
                       (IF pc[q] \in {"fetch", "publish"} THEN {<<"cut off", ref[q]>>} ELSE {})
    /\ UNCHANGED <<payments, codCollections, published, charged, settled, order, ref>>

----------------------------------------------------------------------------
(* POST /payments/charge                                                    *)

\* TRANSFER, VIRTUAL_ACCOUNT, QRIS: the gateway is called before the insert.
ChargeGateway(q, o) ==
    /\ Arrive(q, o, "insert")
    /\ charged' = charged \cup {o}
    /\ UNCHANGED <<payments, codCollections, published, settled, ref, disturbed>>

InsertPending(q) ==
    LET o == order[q]
    IN  /\ Continue(q, "insert", IF HasPayment(o) THEN "failed" ELSE "ok")
        /\ CreatePayment(o, [method |-> "GATEWAY", status |-> "PENDING",
                             ref |-> ChargeRef[o]])
        /\ UNCHANGED <<codCollections, published, charged, settled, order, ref, disturbed>>

\* COD: the row is inserted with status SUCCESS, the cash still to be collected.
ChargeCod(q, o) ==
    /\ Arrive(q, o, IF HasPayment(o) THEN "failed" ELSE "ok")
    /\ CreatePayment(o, [method |-> "COD", status |-> "SUCCESS", ref |-> NoRef])
    /\ UNCHANGED <<codCollections, published, charged, settled, ref, disturbed>>

----------------------------------------------------------------------------
(* POST /payments/callback                                                  *)

\* The gateway decides the outcome of a transaction once ...
GatewaySettles(r, s) ==
    /\ OrderOf[r] \in charged
    /\ settled[r] = "OPEN"
    /\ settled' = [settled EXCEPT ![r] = s]
    /\ UNCHANGED <<payments, codCollections, published, charged, pc, order, ref, disturbed>>

NewStatus_Raw(s) == s

NewStatus(s) == IF s = "SUCCESS" THEN "SUCCESS" ELSE "FAILED"

EventType_ExpiredPays(s) == IF s = "FAILED" THEN "PAYMENT_FAILED" ELSE "PAYMENT_SUCCESS"

EventType(s) == IF s = "SUCCESS" THEN "PAYMENT_SUCCESS" ELSE "PAYMENT_FAILED"

\* Another callback of r has passed its lookup and not yet written its row.
Overlap(r) ==
    {<<"overlapped", r>> : p \in {k \in Callbacks : pc[k] = "update" /\ ref[k] = r}}

CallbackLookup_NoCheck(q, r) ==
    /\ r \in CallbackRefs /\ settled[r] # "OPEN"
    /\ Arrive(q, OrderOf[r], "update")
    /\ disturbed' = disturbed \cup Overlap(r)
    /\ ref' = [ref EXCEPT ![q] = r]
    /\ UNCHANGED <<payments, codCollections, published, charged, settled>>

\* ... and reports it as often as it likes.  A reference that some row
\* carries has been processed already: 200 and nothing else.  An error of
\* the lookup counts as "not processed".
CallbackLookup(q, r) ==
    /\ r \in CallbackRefs /\ settled[r] # "OPEN"
    /\ \/ /\ Arrive(q, OrderOf[r], IF RefStored(r) THEN "ok" ELSE "update")
          /\ disturbed' = disturbed \cup (IF RefStored(r) THEN {} ELSE Overlap(r))
       \/ /\ "lookup" \in Faults
          /\ Arrive(q, OrderOf[r], "update")
          /\ disturbed' = disturbed \cup Overlap(r)
                             \cup (IF Processed(r) THEN {<<"unchecked", r>>} ELSE {})
    /\ ref' = [ref EXCEPT ![q] = r]
    /\ UNCHANGED <<payments, codCollections, published, charged, settled>>

CallbackUpdate(q) ==
    /\ Continue(q, "update", "fetch")
    /\ UpdatePaymentStatus(order[q], NewStatus(settled[ref[q]]), ref[q])
    /\ disturbed' = disturbed \cup (IF HasPayment(order[q]) THEN Erases(order[q], ref[q])
                                    ELSE {<<"overtook", ref[q]>>})
    /\ UNCHANGED <<codCollections, published, charged, settled, order, ref>>

CallbackFetch_AnswersEarly(q) ==
    /\ Continue(q, "fetch", "ok")
    /\ UNCHANGED <<payments, codCollections, published, charged, settled, order, ref, disturbed>>

CallbackFetch(q) ==
    /\ Continue(q, "fetch", IF HasPayment(order[q]) THEN "publish" ELSE "failed")
    /\ UNCHANGED <<payments, codCollections, published, charged, settled, order, ref, disturbed>>

CallbackPublish(q) ==
    /\ Continue(q, "publish", "ok")
    /\ published' = [published EXCEPT ![<<ref[q], EventType(settled[ref[q]])>>] = @ + 1]
    /\ UNCHANGED <<payments, codCollections, charged, settled, order, ref, disturbed>>

----------------------------------------------------------------------------
(* POST /payments/cod/confirm                                               *)

ConfirmRead_AnyMethod(q, o) ==
    /\ Arrive(q, o, IF HasPayment(o) THEN "collect" ELSE "failed")
    /\ UNCHANGED <<payments, codCollections, published, charged, settled, ref, disturbed>>

ConfirmRead(q, o) ==
    /\ Arrive(q, o, IF payments[o].method = "COD" THEN "collect" ELSE "failed")
    /\ UNCHANGED <<payments, codCollections, published, charged, settled, ref, disturbed>>

ConfirmCollect_Once(q) ==
    /\ Continue(q, "collect", "confirm")
    /\ codCollections' = [codCollections EXCEPT ![order[q]] = 1]
    /\ UNCHANGED <<payments, published, charged, settled, order, ref, disturbed>>

\* INSERT INTO cod_collections, with a fresh collection_id
ConfirmCollect(q) ==
    /\ Continue(q, "collect", "confirm")
    /\ codCollections' = [codCollections EXCEPT ![order[q]] = @ + 1]
    /\ UNCHANGED <<payments, published, charged, settled, order, ref, disturbed>>

ConfirmUpdate(q) ==
    /\ Continue(q, "confirm", "ok")
    /\ UpdatePaymentStatus(order[q], "SUCCESS", NoRef)
    /\ disturbed' = disturbed \cup Erases(order[q], NoRef)
    /\ UNCHANGED <<codCollections, published, charged, settled, order, ref>>

----------------------------------------------------------------------------
(* POST /payments/refund                                                    *)

RefundRead_Unpaid(q, o) ==
    /\ Arrive(q, o, IF payments[o].status \in {"SUCCESS", "PENDING"}
                    THEN "refund" ELSE "failed")
    /\ UNCHANGED <<payments, codCollections, published, charged, settled, ref, disturbed>>

RefundRead(q, o) ==
    /\ Arrive(q, o, IF payments[o].status = "SUCCESS" THEN "refund" ELSE "failed")
    /\ UNCHANGED <<payments, codCollections, published, charged, settled, ref, disturbed>>

RefundUpdate(q) ==
    /\ Continue(q, "refund", "ok")
    /\ UpdatePaymentStatus(order[q], "REFUNDED", NoRef)
    /\ disturbed' = disturbed \cup Erases(order[q], NoRef)
    /\ UNCHANGED <<codCollections, published, charged, settled, order, ref>>

----------------------------------------------------------------------------
Init ==
    /\ payments = [o \in Orders |-> NoPayment]
    /\ codCollections = [o \in Orders |-> 0]
    /\ published = [e \in Refs \X EventTypes |-> 0]
    /\ charged = {}
    /\ settled = [r \in Refs |-> "OPEN"]
    /\ pc = [q \in Requests |-> "new"]
    /\ order = [q \in Requests |-> NoOrder]
    /\ ref = [q \in Requests |-> NoRef]
    /\ disturbed = {}

ChargeStep(q) ==
    \/ \E o \in Orders : ChargeGateway(q, o) \/ ChargeCod(q, o)
    \/ InsertPending(q)

CallbackStep(q) ==
    \/ \E r \in Refs : CallbackLookup(q, r)
    \/ CallbackUpdate(q)
    \/ CallbackFetch(q)
    \/ CallbackPublish(q)

ConfirmStep(q) ==
    \/ \E o \in Orders : ConfirmRead(q, o)
    \/ ConfirmCollect(q)
    \/ ConfirmUpdate(q)

RefundStep(q) ==
    \/ \E o \in Orders : RefundRead(q, o)
    \/ RefundUpdate(q)

Next ==
    \/ \E r \in Refs, s \in Outcome : GatewaySettles(r, s)
    \/ \E q \in Charges : ChargeStep(q)
    \/ \E q \in Callbacks : CallbackStep(q)
    \/ \E q \in Confirms : ConfirmStep(q)
    \/ \E q \in Refunds : RefundStep(q)
    \/ \E q \in Requests : Reject(q) \/ Abort(q)

Spec == Init /\ [][Next]_vars

----------------------------------------------------------------------------
(* Properties                                                               *)

\* Every variable has its type: rows of the table, steps of the handlers,
\* counts of COD collections and of Kafka messages.
TypeOK ==
    /\ payments \in [Orders -> Payment \cup {NoPayment}]
    /\ codCollections \in [Orders -> Nat]
    /\ published \in [Refs \X EventTypes -> Nat]
    /\ charged \in SUBSET Orders
    /\ settled \in [Refs -> Outcome \cup {"OPEN"}]
    /\ pc \in [Requests -> {"new"} \cup InProgress \cup Answered]
    /\ order \in [Requests -> Orders \cup {NoOrder}]
    /\ ref \in [Requests -> Refs \cup {NoRef}]
    /\ disturbed \subseteq Disturbance \X (Refs \cup {NoRef})

\* The gateway reported that the money of order o has arrived.
GatewayPaid(o) == \E r \in Refs : OrderOf[r] = o /\ settled[r] = "SUCCESS"

\* However charges, callbacks, confirmations and refunds interleave, the
\* payment of an order that goes through the gateway is shown as paid or as
\* refunded only if the gateway did report a success for that order: the
\* refund and the COD confirmation write on the strength of a row they read
\* one statement earlier.
MoneyBacked ==
    \A o \in Orders :
        /\ payments[o].method = "GATEWAY"
        /\ payments[o].status \in {"SUCCESS", "REFUNDED"}
        => GatewayPaid(o)

\* What request q learned from a statement and will act on in its next one.
Knows(q) ==
    /\ pc[q] \in InProgress => order[q] \in Orders
    /\ pc[q] \in {"update", "fetch", "publish"} =>
          /\ ref[q] \in Refs
          /\ OrderOf[ref[q]] = order[q]
          /\ settled[ref[q]] # "OPEN"
    /\ pc[q] = "publish" => HasPayment(order[q])
    /\ pc[q] \in {"collect", "confirm"} => payments[order[q]].method = "COD"
    /\ pc[q] = "refund" =>
          \/ payments[order[q]].method = "COD"
          \/ payments[order[q]].method = "GATEWAY" /\ GatewayPaid(order[q])

\* What a handler read before is still true when it writes, whatever the
\* other requests did in between.  The status that a refund read is not in
\* the list: it may be stale, what stays true is that there was money.
ReadsStable == \A q \in Requests : Knows(q)

\* What Kafka tells the other services is what the gateway said, and it is
\* about an order that has a payment: the handler publishes only what passed
\* the signature check, mapped to its event type, for a row it fetched.
EventTruthful ==
    \A r \in Refs :
        /\ published[<<r, "PAYMENT_SUCCESS">>] > 0 =>
              settled[r] = "SUCCESS" /\ HasPayment(OrderOf[r])
        /\ published[<<r, "PAYMENT_FAILED">>] > 0 =>
              settled[r] \in {"FAILED", "EXPIRED"} /\ HasPayment(OrderOf[r])

\* The cash book of COD orders: only a COD order has collections, and every
\* confirmation that was answered 200 left a collection row of its own.
CashAccounted ==
    \A o \in Orders :
        /\ codCollections[o] > 0 => payments[o].method = "COD"
        /\ Cardinality({q \in Confirms : order[q] = o /\ pc[q] = "ok"}) <= codCollections[o]

\* A payment is opened once: a second charge of the order never replaces the
\* row, and no step whatever sets a settled payment back to PENDING.
OpenedOnce ==
    [][\A o \in Orders : HasPayment(o) =>
          /\ payments'[o].method = payments[o].method
          /\ payments'[o].status = "PENDING" => payments[o].status = "PENDING"]_vars

\* An order whose outcome other services have been told of is not PENDING,
\* whatever overlaps and fails, except when the callback overtook the insert
\* of the charge: its update found no row and its fetch did.
PendingOnlyWhenOvertaken ==
    \A r \in Refs :
        Events(r) > 0 /\ payments[OrderOf[r]].status = "PENDING"
        => <<"overtook", r>> \in disturbed

\* Some callback of r has written its row and is about to publish its event.
OnItsWay(r) ==
    \E p \in Callbacks :
        /\ ref[p] = r
        /\ \/ pc[p] = "publish"
           \/ pc[p] = "fetch" /\ HasPayment(order[p])

\* A charge has stored r in a row.
StoredByCharge(r) == \E o \in Orders : ChargeRef[o] = r /\ payments[o].method = "GATEWAY"

\* A callback is answered 200 and its event is not published only when the
\* reference it names was stored by the charge, when another callback of the
\* same reference is still about to publish it, or when one was cut off
\* between its update and its event.
SilentOnlyForCause ==
    \A q \in Callbacks : pc[q] = "ok" =>
        \/ published[<<ref[q], EventType(settled[ref[q]])>>] > 0
        \/ StoredByCharge(ref[q])
        \/ OnItsWay(ref[q])
        \/ <<"cut off", ref[q]>> \in disturbed

\* Other services are told twice of a transaction only when two of its
\* callbacks overlapped between lookup and update, or when, the transaction
\* being processed already, a lookup failed, its update had come before the
\* insert, or the row lost the reference to a refund, a COD confirmation or a
\* callback of another transaction of the order.
RepeatedOnlyForCause ==
    \A r \in Refs :
        Events(r) > 1 => \E d \in Disturbance \ {"cut off"} : <<d, r>> \in disturbed

\* README of the service, behaviour after a callback: a callback that was
\* answered 200 has had its event published.
AckedCallbackPublished ==
    \A q \in Callbacks :
        pc[q] = "ok" => published[<<ref[q], EventType(settled[ref[q]])>>] > 0

\* README of the service, behaviour after a callback: an external_ref that
\* has been processed is not processed again.
PublishedOnce == \A r \in Refs : Events(r) <= 1

----------------------------------------------------------------------------
(* Refinement                                                               *)

entry == [o \in Orders |-> [method |-> payments[o].method, status |-> payments[o].status]]

verdicts == [o \in Orders |->
    {NewStatus(settled[r]) : r \in {x \in Refs : OrderOf[x] = o /\ settled[x] # "OPEN"}}]

Ledger == INSTANCE PaymentLedger

\* The service implements the ledger of payments: whatever the interleaving,
\* the rows move only as PaymentLedger allows.
LedgerSpec == Ledger!Spec
=============================================================================
