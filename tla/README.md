# Verification of the shipping services

TLA+ models of the services in this repository, TLC configurations that check
them on small instances, and proofs (TLAPS) of their main properties for every
instance. Paths below are relative to `src/`.

- [1. The system](#1-the-system)
- [2. How the models are built](#2-how-the-models-are-built)
- [3. Payment](#3-payment)
- [4. Tracking](#4-tracking)
- [5. Pickup](#5-pickup)
- [6. Order](#6-order)
- [7. Sessions](#7-sessions)
- [8. Routing](#8-routing)
- [9. Delivery](#9-delivery)
- [10. Warehouse, notification and prices](#10-warehouse-notification-and-prices)
- [11. What is proved](#11-what-is-proved)
- [12. Plan](#12-plan)
- [13. What is not modelled](#13-what-is-not-modelled)
- [14. How to run](#14-how-to-run)

## 1. The system

Eleven Go services and an API gateway for a parcel carrier. Each service is a
process of its own with its own database; inside a service every HTTP request
runs in its own goroutine, and goroutines share nothing but the database (and,
in `warehouse-service`, a map behind a mutex). Services call each other over
HTTP. Kafka is present at its edges only: `payment-service` writes a topic; the
consumers of `pickup-service` and `notification-service` exist as functions of a
message but no `main` starts a consumer; and `order-service` and
`tracking-service`, whose events they are for, have no Kafka code.

No service takes a lock or opens a transaction except `tracking-service`. So
nearly every hard behaviour has one shape: a handler reads a row with one
statement, decides, and writes with another, while other requests do the same.

| Service | State | Operations that change it | Hard behaviour | What makes it correct |
|---|---|---|---|---|
| payment | `payments` (one row per order), `cod_collections`; the gateway's transactions; Kafka `payment.events` | charge, gateway callback, COD confirm, refund | callbacks repeated, early or concurrent; gateway, table and Kafka written one after another with failures between | money shown as paid was paid; events tell the truth and are told once; a payment is opened once; cash is accounted for |
| tracking | `tracking_events`, `tracking_summary` | record event (a transaction) | overlapping transactions, the first row of a number, timestamps out of order, two-statement reads, pool and deadline | the summary is the newest event; acknowledged events are stored; nothing partial is visible; requests never block each other for good |
| order | `orders` | create, update, cancel | cancel and update read, check, then write the whole row | a cancelled order stays cancelled; price matches the formula |
| pickup | `pickups` (+ `pickup_attempts`, never written) | request, assign, set status, cancel; order-created event | stale status checks; notification after the write may fail; redelivered events | the status machine; the attempt count; one pickup for an order |
| delivery | `delivery_jobs`, `couriers` | assign, set status, register and update courier | no status check at all; attempt count read and written separately; a second assignment is refused, `tracking_number` being UNIQUE (`database.sql`) | a finished job stays finished; attempts are counted |
| user | `users`, `refresh_tokens` | register, login, refresh, logout, profile, set status (a password change and an expiry job exist but are not routed) | refresh against logout and deactivation; whole-row profile writes; equal tokens within one second | a session lasts until its own logout; no profile update undoes a deactivation, or a field it did not name |
| routing | `route_nodes`, `route_edges`; Redis cache of routes | create node, create and update edge; cache fill and invalidation; the search; tours of couriers | cache filled with a route older than the invalidation; invalidation that fails | routes are shortest paths of the active graph, and cached ones not stale |
| notification | `notification_templates`, `notification_logs` | send, create and update template | provider called before the log is written; redelivered events | what was sent is logged; a failure is reported as one |
| warehouse | items, in memory (`main.go:35`); a PostgreSQL repository exists | receive, dispatch | read, compute, write with two locked calls; any read error means "new" | stock = received - dispatched, never negative |
| pricing | rate tables, read only | none | a failed surcharge lookup | the price matches the formula |
| report-and-analytics | none of its own | none | none | - |
| api-gateway | none | none | none | - |

How the parts interact: a customer's order (`order`) has an `order_id` and a
tracking number; `pickup` refers to the first, `delivery` and `tracking` to the
second, `payment` to the first. `pickup` calls `notification` and `delivery`;
`delivery` calls `routing` for a courier's route before it stores a job;
`routing` asks `delivery` for a courier's addresses; `payment` announces changes
on Kafka. No transaction spans two services.

The hazards, each at its line, are listed in `PROJECT.json`.

## 2. How the models are built

*A request is a process.* Its steps are the statements it sends to the
database, its calls of other systems and its Kafka writes. Each SQL statement
is one step, because each is an autocommitted transaction of its own (in
`tracking-service`: one statement of an explicit one). `pc[q]` is the next
statement of request `q`, or its answer. What a handler does between two
statements is local and belongs to the step before or after it. Requests are
members of finite sets, each served once; a retry is another request.

*Failures.* A failed statement, a client that goes away (the request context
cancels the statements), a deadline and a stopped process all have the same
effect: what was done stays, the rest is never executed. They are one action
(`Abort`, `Fail`). A statement that took effect but whose reply is lost is
followed by the same step.

*Data.* Ids and references are model values. Payloads, wording, HTTP status
codes and logging are left out where no property tells them apart: answers are
`"ok"` and `"failed"` or `"error"`.

Names follow the source. Definitions ending in a suffix after an underscore
(`CreatePayment_Upsert`) are plausible mistakes in that definition; no
specification uses them, they document which change each property detects.

## 3. Payment

| Module | Role |
|---|---|
| `PaymentLedger.tla` | What the service promises about a payment, without requests and statements: opened once, method fixed, never PENDING again, paid, failed or refunded only on a verdict of the gateway (or cash on delivery) |
| `Payment.tla` | The service: the four endpoints statement by statement, the gateway, failures; refines `PaymentLedger` |
| `PaymentProofs.tla` | The theorems |
| `MCPayment.tla` and four `.cfg` | Instances for TLC |

### State and actions

| TLA+ | Code |
|---|---|
| `payments[o]` | row of table `payments`; `order_id` is UNIQUE, a missing row is `NoPayment` |
| `codCollections[o]` | number of rows in `cod_collections` |
| `published[<<r, t>>]` | messages on the topic, by external reference and type |
| `charged`, `settled` | the gateway (external): accepted charges and the outcome of each transaction |
| `ChargeGateway`, `InsertPending` | `service/charge.go:36-72`: the gateway is called first, then the row inserted |
| `ChargeCod` | `service/charge.go:74-97` |
| `CallbackLookup`, `CallbackUpdate`, `CallbackFetch`, `CallbackPublish` | `service/callback.go:45-110`: idempotency lookup, update, fetch, Kafka write |
| `ConfirmRead`, `ConfirmCollect`, `ConfirmUpdate` | `service/cod_confirm.go` |
| `RefundRead`, `RefundUpdate` | `service/refund.go` |
| `GatewaySettles` | the gateway decides a transaction once, after the charge; then callbacks may come, any number of times |
| `Reject`, `Abort` | answers before the first write; failures |

Two details carry most of the behaviour. The idempotency check asks whether
*any row carries the reference*, and a failing lookup counts as "not
processed" (`callback.go:53`). And every update writes the reference too, so a
refund erases it (`refund.go:47`).

The gateway: `OrderOf[r]` is the order that transaction `r` pays,
`ChargeRef[o]` the reference in its answer to a charge. The code does not say
whether callbacks carry the reference of the charge or another one, so
`CallbackRefs` is a constant and both are checked.

### Properties and runs

| Run | Checks | Result |
|---|---|---|
| `payment` (`MCPayment.cfg`) | one order, two gateway transactions, 2 charges, 2 callbacks, 2 COD confirmations, 1 refund, two at a time, all failures | `TypeOK`, `ReadsStable`, `MoneyBacked`, `EventTruthful`, `CashAccounted`, `PendingOnlyWhenOvertaken`, `SilentOnlyForCause`, `RepeatedOnlyForCause`, `OpenedOnce` and `LedgerSpec` hold |
| `payment_charge_ref` | the callback carries the reference of the charge | **violates** `AckedCallbackPublished`: it is taken for a duplicate, answered 200, and the order stays PENDING |
| `payment_publish_fails` | Kafka fails once, the gateway retries | **violates** `AckedCallbackPublished`: the retry is taken for a duplicate, the event is lost |
| `payment_two_callbacks` | the same callback twice at once | **violates** `PublishedOnce` |

What the `Readme.md` of the service says of callbacks (`:173`, `:176`: the row and
the event go together, and each reference is processed once) does not hold, and
the three violating runs show it. What does hold, whatever overlaps and
whatever fails, is stated with the causes by name:

- `PendingOnlyWhenOvertaken`: an order whose outcome was published is PENDING
  only if a callback overtook the insert of the charge, its update finding no
  row (which is no error) and its fetch finding one.
- `SilentOnlyForCause`: a callback is answered 200 without an event only if the
  charge had stored its reference, if another callback of the transaction is
  about to publish, or if one was cut off between update and event.
- `RepeatedOnlyForCause`: an event is published twice only if two callbacks of
  the transaction overlapped between lookup and update, or, the transaction
  being processed, a lookup failed, the update had overtaken the insert, or the
  row lost the reference (to a refund, to a COD confirmation, or to a callback
  of another transaction of the order).

`disturbed` is the history these need: which of these things happened to
which transaction (`Disturbance`). No guard reads it. None of the causes is
idle: with any of the disjuncts left out of its property TLC finds a violation
in the instance of the run `payment`. The first cause contradicts
`Readme.md:173` as much as the violating runs do, and has no run of its own.

`MoneyBacked` is the property a reader may doubt most: a refund writes
REFUNDED on a status read one statement earlier, and in between a callback may
set the row to FAILED. The property survives because a gateway's success is
never taken back; the status a refund read may be stale, the fact it stands for
is not. `ReadsStable` says exactly which facts a handler may carry from one
statement to the next, and it is the heart of the inductive invariant.

What a refund does to a later callback is visible in the first run as well: the
late callback overwrites REFUNDED, since its reference is gone from the row.
`PaymentLedger` therefore lets a verdict be settled at any time.

*Bounds.* `MaxInFlight = 2` limits concurrency to pairs of requests (1,364,746
states). Each hazard of the service is a race of two requests, and chains of three
(charge, callback, refund) occur with any two of them overlapping; the same
instance with three at a time (2,335,846 states, three minutes) holds as well.
One order suffices because rows of different orders meet only in the lookup by
reference, which the two references of the order exercise. Both bounds are of
the runs only: the theorems of section 11 are about any number of orders,
requests and overlaps. Requests are finite, so the system stops:
`CHECK_DEADLOCK FALSE`.

## 4. Tracking

| Module | Role |
|---|---|
| `TrackingLog.tla` | The promise: an event enters the log and the summary in one step, and a summary moves only to a strictly newer event |
| `Tracking.tla` | Transactions, row locks, the pool of connections, failures, the two-statement read; refines `TrackingLog` |
| `TrackingProofs.tla` | The theorems |
| `MCTracking.tla`, `MCTracking.cfg`, `MCTrackingTorn.cfg` | Instances for TLC |

### State and actions

| TLA+ | Code |
|---|---|
| `events`, `summary` | the two tables as committed; a summary row is the event whose status and time it shows |
| `lock[n]`, `draft[q]` | PostgreSQL (external): the row lock of a number, the row version an open transaction has written |
| `Submit`, `Reject` | `internal/handler/event.go:61-133`, `internal/validator` |
| `Begin` | `internal/repository/postgres.go:25-44`: takes a connection of the pool (`cmd/server/main.go:27`) |
| `LockSummary` | `SELECT ... FOR UPDATE`, `:46-61`: locks only a row that exists |
| `InsertEvent` | `:63-82` |
| `UpsertSummary`, `Later` | `INSERT ... ON CONFLICT DO UPDATE ... WHERE updated_at <`, `:84-106` |
| `Commit`, `Fail`, `Finish` | `:108-117`, the deferred rollback `:39-44`, the error answers of the handler |
| `ReadEvents`, `ReadSummary`, `FailRead` | `internal/handler/history.go:31-76` |

### Properties and runs

| Run | Checks | Result |
|---|---|---|
| `tracking` (`MCTracking.cfg`) | 3 POSTs, 2 numbers, 2 timestamps in any order, 2 connections, 1 GET, failures, lost commit answers | `SummaryIsLatest`, `DraftIsCurrent`, `AckedPersisted`, `StatusNotBehindHistory`, `NeverRegresses`, `EveryRequestAnswered` and `LogSpec` hold |
| `tracking_torn_read` | 2 POSTs, 1 GET | **violates** `StatusIsInHistory`: an event committed between the two reads of the GET gives a current status that its history lacks |

The model shows why the transaction is safe: `FOR UPDATE` locks nothing as long
as the number has no row, so two first events of a number overlap freely up to
the upsert. There the unique key makes the second wait for the first, and the
`WHERE` of the conflict clause is evaluated on the committed row. This wait is
what `DraftIsCurrent` needs; with it, `FOR UPDATE` is redundant.

*Fairness* (`FairSpec`): weak fairness of every statement of an accepted POST
and of the second read of a GET. The goroutine of a request runs until it
answers and PostgreSQL runs a statement it is not blocking, so a step that
stays possible is taken. No fairness is assumed of clients, of failures or of
the deadline: `EveryRequestAnswered` shows that transactions get through
without being cut off, although those waiting for a lock keep their connections.

*Bounds.* Three POSTs: two that race for a first row and a third that finds it
or waits for a connection. Two timestamps give older, newer and equal. The pool
of two is smaller than the load, so waiting for a connection happens. Every
number's rows are independent; two numbers make the pool shared between
transactions that do not wait for each other.

## 5. Pickup

| Module | Role |
|---|---|
| `PickupLifecycle.tla` | The promise: the status machine, each move atomic, attempts counted |
| `Pickup.tla` | Requests as read, check, whole-row write and notification; refines `PickupLifecycle` for the pickups in `Exclusive` |
| `PickupProofs.tla` | The theorems |
| `MCPickup.tla`, `MCPickup.cfg` | Instance for TLC |

### State and actions

| TLA+ | Code |
|---|---|
| `pickups[p]` | row of table `pickups`: status, courier, attempt count |
| `target[q]`, `draft[q]` | the `*domain.Pickup` in the memory of a request between read and write |
| `Transitions`, `Transition` | `internal/domain/state_machine.go` |
| `RequestPickup` | `POST /pickups` and the order-created event: one INSERT, no lookup by order |
| `AssignCourier`, `UpdatePickupStatus`, `CancelPickup` via `Read` | `internal/service/pickup_service.go` up to the write: `GetPickupByID` and the transition check |
| `UpdatePickup` | `internal/repository/pickup_repository.go:60-71`: all columns, WHERE names the id only |
| `AfterUpdate`, `Notify` | the side effects `pickup_service.go:109-119`; after PICKED_UP the client is a stub |
| `Reject`, `Abort` | answers before any statement; failures |
| `written`, `notified` | history: whose UPDATE took effect; what notification-service received |

### Properties and run

The code is correct for a client that waits for its answers, and loses writes
for clients that do not. The model states both halves at once: `Exclusive` is
the set of pickups whose requests take turns (`Admit`), and they are served
side by side with pickups whose requests overlap in any way. A request that was
cancelled or whose connection broke is over when its `pc` is `"failed"`: its
statement has taken effect before, or never will.

| Run | Checks | Result |
|---|---|---|
| `pickup` (`MCPickup.cfg`) | one exclusive and one shared pickup, 2 assignments, 2 status updates, 1 cancellation in any distribution, failures and lost answers | `AssignedFirst`, `AttemptsCounted`, `AnnouncedIsWritten`, `LifecycleSpec` hold |

`LifecycleSpec` holds for the exclusive pickups. For shared ones it fails (a
cancelled pickup is assigned by a stale write), but two promises survive any
overlap: no status that depends on an assignment appears without one
(`AssignedFirst`), because every draft comes from a row that was once in the
table; and the attempt count never exceeds the failures written
(`AttemptsCounted`), because a lost update only loses counts.

*Bounds.* Two overlapping requests show every lost update; two assignments and
two updates reach a second attempt and a stale write after a reschedule.
Requests are finite: `CHECK_DEADLOCK FALSE`. (`DraftIsFresh`, the draft of an
exclusive pickup is based on its row, is no run's property: it is a part of the
inductive invariant and proved with it.)

## 6. Order

| Module | Role |
|---|---|
| `Order.tla` | Create, update and cancel, on a table that keeps every version a row has had |
| `OrderProofs.tla` | The theorems |
| `MCOrder.tla`, `MCOrder.cfg`, `MCOrderOthers.cfg` | Instances for TLC |

### State and actions

| TLA+ | Code |
|---|---|
| `versions[o]` | row of table `orders`: the last version is the row, the others are its past; each has the request that wrote it (`by`) and the version that request had read (`seen`) |
| `asked[q]`, `draft[q]` | the fields named in the PATCH body; the `*types.Order` in memory |
| `CreateOrder` | `service/service.go:36-80`, one INSERT |
| `CancelOrder`, `UpdateOrder` via `Find` | `service/service.go:93-132` up to the write: `FindOrderByID` and the status check |
| `WriteOrder` | `repository/repository.go:211-245`: all columns, WHERE names the id only |
| `Reject`, `Abort` | answers before any statement; failures |

A field holds the name of the request that gave it its value, which makes every
value distinct: what a row shows tells where it comes from. `receiver` stands
for the four receiver fields, which are treated alike. The price is computed
once, at creation, and only carried along; it is left out here.

### Properties and runs

| Run | Checks | Result |
|---|---|---|
| `order` (`MCOrder.cfg`) | 2 orders, 3 updates of any fields, 1 cancellation, three at once, failures and lost answers | `LostByOverlapOnly`, `ChangesWereOpen`, `WrittenOnce` hold |
| `order_others_unchanged` | 1 order, 1 update, 1 cancellation | **violates** `OthersUnchanged` (requirements 10.3 and 10.4 of the service): the later of two overlapping writes puts back what it did not name |

A guarantee for overlapping requests cannot be the usual one (updates do get
lost), so `LostByOverlapOnly` says exactly when: what a request wrote stays in
every later version, unless a later writer is to change the same field or had
read before that write. Chains matter here: a request may read a mixture that
two others left behind and carry it on, and the property says that even then
some writer on the way overlapped. In particular a cancellation is final for
every request that starts after it.

*Bounds.* Three overlapping requests make a chain (one writes, one overwrites,
one has read before both). One cancellation suffices, as a second either finds
the order closed or overlaps the first and writes the same.

## 7. Sessions

| Module | Role |
|---|---|
| `Sessions.tla` | user-service: accounts, refresh tokens, a clock in seconds |
| `SessionsProofs.tla` | The theorems |
| `MCSessions.tla`, `MCSessions.cfg` | Instance for TLC |

### State and actions

| TLA+ | Code (under `user-service/internal/`) |
|---|---|
| `users`, `tokens` | tables `users` (email UNIQUE) and `refresh_tokens` (token_hash UNIQUE) |
| `account[q]`, `token[q]`, `draft[q]` | the user found, the token generated or sent, the `domain.User` to be written |
| `Register` | `service/auth/auth_service.go:99-138`, one INSERT |
| `LoginFind`, `GenerateRefreshToken`, `Save` | `auth_service.go:141-187`: lookup, password and flag; the token; the INSERT of its hash |
| `ValidateRefreshToken`, then `FindByTokenHash`, `RefreshUser` | `auth_service.go:190-218` |
| `ValidateRefreshToken`, then `Revoke` | `auth_service.go:221-235`: a DELETE that must hit a row |
| `UpdateProfile`, `Update` | `service/user/user_service.go:83-109`: the read, then the UPDATE of name, phone and password hash |
| `SetStatus` | `user_service.go:113-124`, one UPDATE |
| `Reject`, `Abort`, `Tick` | answers before any step; failures between steps; time |
| `saved`, `revoked`, `switched`, `base` | history, read by the properties only |

A refresh token is the record of its user and second, because it is a signed
JWT of just these (`token/jwt.go:67-77`): two tokens of one user and one second
are the same string with the same hash. Passwords, roles and bodies that do not
validate are choices of `Reject`. `ChangePassword` and `DeleteExpired` are
called by tests only and are left out, so tokens past their expiry stay in the
table.

### Properties and run

| Run | Checks | Result |
|---|---|---|
| `sessions` (`MCSessions.cfg`) | 1 account, 2 logins, 2 logouts, 1 refresh, 2 profile updates, 1 change of the flag, two at once, two seconds, failures and lost answers | `TokensAccounted`, `SessionsLast`, `FlagIsLastSet`, `EmptyFieldsKept` hold |

`TokensAccounted` is a conservation law: for each token, saved logins are
revoking logouts plus rows. It holds although equal tokens occur, because the
second login of one second fails at the UNIQUE hash and a second logout finds
no row; an upsert in `Save` would let one logout end two sessions. It also
allows what may surprise: after a logout, a login in the same second makes the
old token valid again. `SessionsLast` adds that no session ends by the logout
of another. `FlagIsLastSet` rests on `is_active` not being among the columns a
profile update writes, and `EmptyFieldsKept` bounds what whole-row writes lose:
an unnamed field changes only if it had changed under the update.

A refresh does not look at the active flag, so a deactivated user keeps getting
access tokens until the refresh token expires; the requirements ask only that a
deactivated user cannot *authenticate*, and no property contradicts either.

*Bounds.* Two logins and two logouts are the least that can share a token.
`MaxTime = 1` has tokens of the same and of different seconds, and with
`Lifetime = 1` tokens that expire while a request is under way. `MaxInFlight =
2` bounds overlap to pairs. No fairness is assumed, no liveness claimed: each
request is a fixed short sequence of statements.

## 8. Routing

| Module | Role |
|---|---|
| `Dijkstra.tla` | The search for the best route, one step per entry that leaves the heap and per edge that is relaxed; the route that is read off when it is over, one step per edge, with its totals; the comparison with all ways |
| `Routing.tla` | The tables of hubs and edges, the requests for routes, the Redis cache and its invalidation |
| `CourierRoute.tla` | The daily tour of a courier: its cache, the two calls of delivery-service, the nearest neighbour |
| `DijkstraProofs.tla`, `RoutingProofs.tla` | The theorems: the search; the cache and the tours |
| `Services.tla` | The composition of the parts of sections 8, 9 and 10 |
| `MCServices.tla`, `MCServices.cfg` | Its instance for TLC |

### State and actions

| TLA+ | Code (under `routing-service/internal/`) |
|---|---|
| `dist`, `prev`, `heap` | the maps and the heap of `calculators/interhub.go` |
| `Call`, `Pop`, `Relax`, `Exhaust` | the two checks and the set-up; the loop up to the edges; one edge; the end of the loop |
| `Backtrack`, `Complete` | the walk back along `prev` and the sums: `cursor` is `cur`, `route` the edges behind it, `totals` their kilometres and hours |
| `nodes`, `edges` | tables `route_nodes` (hub_id UNIQUE) and `route_edges` |
| `cache[k]` | the key `route:...` in Redis; its value is named by the request that computed it |
| `Lookup`, `GetAllNodes`, `GetActiveGraph`, `SetRoute` | `handlers/route.go`: cache, two SELECTs (`repositories/graph.go`), the search, the SET |
| `CreateNode`, `CreateEdge` | `handlers/nodes.go`, `handlers/edges.go` and the INSERTs |
| `UpdateEdge`, `Keys`, `Del`, `LoseInvalidation` | PATCH of an edge: the UPDATE, then `KEYS route:*`, then `DEL` (`services/cache.go`), together within two seconds and each allowed to fail |
| `TourLookup`, `GetCourierDeliveryPoints`, `GetCourierHub`, `SetTour`, `TourFails` | `handlers/courier.go`, `clients/delivery.go` |
| `CalculateCourierRoute`, `Visit`, `Nearest` | `calculators/courier.go`: the tour, one stop, the first of the nearest |

`Routing` abstracts from `Dijkstra`: which route a request computes follows
from what it read, so a cached route is its request, and only whether there is
one is decided there (`Reaches`).

### Properties

`SearchIsCorrect` compares the result with every way through the graph
(`RouteIsShortest`), and states what the search leaves behind that shows it is
right without looking at all ways (`Certificate`). It is stated for an edge
that leads to a hub which is not among the nodes, since the two SELECTs are not
one transaction (`repositories/graph.go:204`). Its mutant turns the comparison of
the heap round.

`StaleOnlyByOverlap`: the requirements of the service (3.4,
`routing-service/.kiro/specs/routing-service/requirements.md`) want every cached
route over an updated edge gone. The code removes what is there when `KEYS`
runs, so a request that has read the old edges may store its route afterwards,
for 24 hours; and a failure of Redis is only logged. The property says that
nothing else goes wrong: after the invalidation of an update has gone through,
a route from older edges is in the cache only if its request was between
reading the edges and storing when the row was written. `unseen` and `overlap`
are the history it needs. Two things outside the property: a *new* edge does
not invalidate at all, so a better route over it waits for the TTL; and the
whole cache is cleared, not only the routes over the edge.

`ToursComplete`: a tour that is served visits each parcel it was computed for
exactly once, is as long as it says, and no stop has a nearer one behind it.
The tour may still be for the wrong start: of an answer of delivery-service
only 503 counts as a failure (`clients/delivery.go`), so an error object decodes
to a hub at latitude and longitude 0, and the tour from there is cached for ten
minutes. The model has this place (`Nowhere`), and no property denies it.

## 9. Delivery

| Module | Role |
|---|---|
| `Delivery.tla` | Couriers, assignments and status reports |
| `ServicesProofs.tla` | The theorems, with those of section 10 |

| TLA+ | Code (under `delivery-service/`) |
|---|---|
| `couriers`, `jobs` | tables `couriers` and `delivery_jobs`; a job is found by its tracking number, which is UNIQUE (`database.sql`) |
| `CreateCourier`, `UpdateCourier` | `service/courier.go`, `repository/postgres_repository.go` |
| `GetCourierRoute`, `CreateDeliveryJob` | `service/assign.go`: the call of routing-service, then the INSERT |
| `GetDeliveryJobByTrackingNumber`, `StatusUpdate`, `UpdateDeliveryJobStatus` | `service/status.go`: the read, the status built from the report, the UPDATE of all its columns |
| `Refuse` | error answers and failed statements |

A report is applied whatever the job's status is: DELIVERED may be followed by
FAILED. No text of the repository forbids it, so the property is about what the
service keeps count of. `AttemptsAccounted`: the attempt count of a job is the
number of failed attempts that were written for its parcel as long as reports
for the parcel take turns (`clashed` is the history of those that did not), and
with overlap it is never more. A retry after a lost answer counts twice, on
both sides. That the count starts with the job relies on the UNIQUE tracking
number; its mutant is an INSERT that replaces the job.

## 10. Warehouse, notification and prices

| Module | TLA+ | Code |
|---|---|---|
| `Stock.tla` | `ReceiveItem`, `DispatchItem`, `SaveItem` | `warehouse-service/internal/service/warehouse_service.go` and both repositories (`memory`, PostgreSQL) |
| `Notification.tla` | `GetTemplateByID`, `SendToProvider`, `CreateNotificationLog`, `AskAgain`; `CreateTemplate`, `UpdateTemplate` | `notification-service/internal/service`, `client`, `repository`, and the handlers of HTTP and Kafka |
| `Tariff.tla` | `CalculatePrice`, `OrderPrice`, `EstimatedDays` | `pricing-service/internal/service/pricing_service.go`; `order-service/service/service.go:150-200` |

`StockAccounted`: positive movements never make the stock negative, in any
overlap, because a dispatch compares and subtracts on the same value; and as
long as movements take turns and no lookup fails, the stock is what came in
less what went out. Overlap loses movements: the lock of the map
(`readme.md:22` of the service promises one writer at a time) covers the lookup
and the save, each by itself. The run `stock_lost_movement` shows it: two
dispatches of the last unit are both answered 200.

`Table` tells the repositories apart. `main.go:35` uses the one in memory, where
neither a lookup nor a save fails (`Table = FALSE`, as in `stock_lost_movement`).
With the PostgreSQL repository, which is written and tested but not used, they
may, and a failed lookup lets a receipt start the item anew: the run `services`
has `Table = TRUE`, which includes every behaviour of the other, and the theorems
are about both. A negative quantity is not refused, which is why the first
half is about positive ones.

`LogsAgree` relates the three places a message leaves a trace: the provider,
the log and the answer. A SENT row is of a message that was taken, with the
channel and the version of the template that were sent; an attempt has one row
at most; a 200 has its SENT row; and a message that was taken without a SENT
row belongs to an attempt that is still going on or was answered with an error.
A caller who then asks again sends it twice: the log shows both attempts. The
README of the service says that status events arrive from Kafka (`README.md:40`);
the handler exists and is modelled, but `main.go` starts no consumer.

`PricesOrdered` is two monotonicity laws. A bigger parcel is quoted no less,
which breaks when the lookup of the surcharge fails (the failure is passed over
and the quote stays without it, `pricing_service.go:59`), so the law has
`complete` in its premise. An order that asks for more costs no less, except
that a weight of 0 or less is priced as one unit (`service.go:167`). The inputs
include 0 and negative numbers: the tags `gt=0` of `domain/pricing.go` belong to
a binder that the handler does not use, and `ErrInvalidDimensions` is returned
nowhere.

### The runs

| Run | Checks | Result |
|---|---|---|
| `stock_lost_movement` (`MCStock.cfg`) | `Stock` with the repository in memory, one receipt and two dispatches | **violates** `NoMovementLost` (`warehouse-service/readme.md:22`): overlapping movements lose one another |
| `services` (`MCServices.cfg`) | one part at a time, chosen at the start | `ServicesTypeOK`, `SearchIsCorrect`, `StaleOnlyByOverlap`, `ToursComplete`, `AttemptsAccounted`, `StockAccounted`, `LogsAgree`, `PricesOrdered` hold |

The parts have no variable in common: a call of another service is a step of
the caller with every answer the code accepts. So a behaviour of all of them is
an interleaving of behaviours of each: in `Services.tla`, `Parts` is the
conjunction of their specifications. An invariant of one part can be violated
in the whole only if it can in that part alone, so `Spec`, which the run checks,
lets one part run and keeps the others at their initial state (398,407 states).
That is not all of them running together; the theorems (section 11) are about
`Parts`, where they do. Requests of different parts
share model values, so that one symmetry serves all.

| Part | Instance | Why it is enough |
|---|---|---|
| search | 4 hubs, any subset of 7 edges, one hub possibly without a node, every origin and destination | ways of up to three edges, ties, a cycle, a way with more edges that is cheaper, entries that are overtaken on the heap, an edge to no node |
| routing | 3 hubs, 2 edges (1 seeded), 2 requests, 2 updates, 1 new node, 1 new edge, 2 keys | two fills around an update, an update between the `KEYS` and the `DEL` of another, a hub or route that appears |
| tour | 2 requests, 7 lists of up to 4 parcels on a line, any hub | equal places and equal distances, the empty list, a stop that is near the hub and far from the stop before it |
| delivery | 1 parcel, 1 courier, 1 registration, 1 update, 2 assignments, 2 reports, two at once | a second assignment, overlapping and successive reports; rows of different parcels never meet |
| stock | 1 item, 2 receipts, 2 dispatches of -1, 1 or 2 | every overlap of up to four movements, refused dispatches |
| notification | 1 request, 1 event with a retry, 2 templates (1 seeded), 1 created, 1 edited, 2 channels | an edit between read and log, a retry after a message that was taken |
| tariff | the rows of `init.sql` in thousands, the greatest height lowered to 5 so that it differs from the other sides; weights -1, 0, 1, 60; sides 0, 10, 120 (the law excludes negative ones); order weights -0.5 to 2.5; pairs of answers | either side of each limit of a rate, and the limits of the order formula; pairs, because the laws compare two answers |

Requests are finite and the search ends: `CHECK_DEADLOCK FALSE`. No fairness is
assumed: each request is a fixed short sequence, and nothing waits for another.

## 11. What is proved

Every safety invariant and every action property that a passing run checks, and
every refinement, for every set of orders, references, hubs, parcels and
requests, and with no bound except the types. The assumptions on the constants
say only that sets are disjoint, null values are not members, requests to be
counted are finitely many, initial rows are rows, and of the numbers: that
distances, hours, rates and their weights are natural numbers, quantities,
weights and sides of parcels any integers, and that a graph that was read from a
table has finitely many nodes. No theorem
has a condition on how requests overlap or fail; `Exclusive` of section 5 and the
history variables say inside the properties whom an overlap may affect.

| Theorem | Says |
|---|---|
| `PaymentProofs!TypeCorrect`, `Inductive` | the types; the inductive invariant |
| `ReadsAreStable`, `MoneyIsBacked`, `EventsAreTruthful` | `[]ReadsStable`, `[]MoneyBacked`, `[]EventTruthful` |
| `CashIsAccounted` | `[]CashAccounted` |
| `PaymentsOpenOnce` | the action property `OpenedOnce` |
| `ServiceImplementsLedger` | `Spec => Ledger!Spec` |
| `PendingIsOvertaken`, `SilenceHasACause`, `RepetitionHasACause` | `[]PendingOnlyWhenOvertaken`, `[]SilentOnlyForCause`, `[]RepeatedOnlyForCause` |
| `TrackingProofs!TypeCorrect`, `Inductive` | the types; the inductive invariant |
| `SummariesAreLatest`, `DraftsAreCurrent`, `AckedArePersisted`, `StatusesNotBehind` | the safety invariants |
| `NoRegress` | the action property `NeverRegresses` |
| `ImplementsLog` | `Spec => Log!Spec`: the commit is the atomic append |
| `PickupProofs!TypeCorrect`, `Inductive` | the types; the inductive invariant |
| `AssignmentsComeFirst`, `AttemptsAreCounted`, `AnnouncedAreWritten`, `DraftsAreFresh` | the safety invariants |
| `ImplementsLifecycle` | `Spec => Lifecycle!Spec` for the exclusive pickups |
| `OrderProofs!TypeCorrect`, `Inductive` | the types; the inductive invariant |
| `NothingElseIsLost`, `AllChangesWereOpen`, `AllWrittenOnce` | the safety invariants |
| `SessionsProofs!TypeCorrect`, `Invariance` | the types; the inductive invariant |
| `FlagKept`, `EmptyKept` | `[]FlagIsLastSet`; the action property `EmptyFieldsKept` |
| `Conservation`, `TokensAreAccounted`, `SessionsDoLast` | the balance of sessions; `[]TokensAccounted`, `[]SessionsLast` |
| `DijkstraProofs!SearchInvariant`, `SearchTypeCorrect` | the inductive invariant of the search; the types |
| `RouteIsCertified` | `[]Certificate`, the half of `SearchIsCorrect` that needs no enumeration of ways |
| `RouteIsBest` | no way of any length, also one that passes hubs twice, costs less than what the search found, and there is none if it found none |
| `WalkInvariant`, `SearchAlwaysCorrect` | the inductive invariant with the reading of the route; `[]SearchIsCorrect` |
| `RoutingProofs!RoutingCaches`, `RoutingTypeCorrect` | the inductive invariant; the types |
| `StaleOnlyIfOverlapping` | `[]StaleOnlyByOverlap` |
| `TourInvariant`, `ToursAlwaysComplete` | the inductive invariant of the tours, with their types; `[]ToursComplete` |
| `ServicesProofs!DeliveryAccounts`, `DeliveryTypeCorrect` | the inductive invariant; the types |
| `AttemptsAreAccounted` | `[]AttemptsAccounted` |
| `StockInvariant`, `StockIsAccounted` | the inductive invariant; `[]StockAccounted` |
| `NotificationInvariant`, `LogsAgreeAlways` | the inductive invariant; `[]LogsAgree` |
| `TariffInvariant`, `PricesAreOrdered` | the inductive invariant; `[]PricesOrdered` |
| `PartsTypeCorrect`, `ServicesSafe` | of `Parts`, all the parts running together: their types; the conjunction of their safety properties |

*Payment.* None of the invariants is inductive alone. `MoneyBacked` fails by
itself: a request about to write REFUNDED could stand there with no success
behind it. `ReadsStable` adds what each `pc` value implies about the row and
the gateway; with it and the types, `IInv` is preserved by each action, one
lemma per endpoint. The action property and the refinement follow from `IInv`
before the step, the abstract step being `Report`, `Open`, `Settle`, `Collect`,
`Refund` or a stutter. `CashAccounted` needs one more invariant (`Book`): it
counts a confirmation from its INSERT on, not from its answer, since the answer
may never come; `ReadsStable` supplies the method.

*Payment, the callbacks.* Each of the three properties has an invariant of its own
beside `IInv`, and none restricts which requests there are or how they overlap.
`PendingInv`: a callback past its update has left no PENDING row and no missing
one, unless it overtook the insert. `SilentInv`: the lookup answers 200 because
some row carries the reference, so the four causes must cover every *stored*
reference (`Covered`), not only those of answered callbacks; the update that
stores one puts its callback on its way, and a callback that leaves the way has
published or was cut off. `OnceInv`: a transaction is either excused or `Single`:
at most one of its callbacks is at work, before the event and not after, and once
it is processed a row carries its reference, so that the next lookup finds it. A
step that breaks `Single` is always one that records a cause.

*Tracking.* The strengthening says that the events of open transactions are
built and belong to their request (`EventBuilt`), that a transaction at its
commit holds the row and its draft is `Later` of the committed row
(`DraftIsCurrent`), and that what a GET has seen is committed (`SeenStored`).
`SummaryIsLatest` is then preserved by `Commit` because a draft that equals
`Later(summary, event)` is newest once the event is added.

*Pickup.* The strengthening says that a request between read and write is
attached to a pickup that has a row, that a request writes once and only while
it is in progress (`OnceWritten`), that an exclusive pickup has one request in
progress (`OneAtATime`), and that a draft, however stale, was computed from a
row of its time: an assignment had been written if its status needs one, and
its attempts are covered by the failures written so far (`DraftSound`). The
count itself is a cardinality; a write adds one member to the set of writers
(`FS_AddElement`). The refinement maps a write to the exclusive pickup to a
move of the machine (`DraftIsFresh` supplies its guard) and all else to a
stutter.

*Order.* The strengthening is `DraftBased`: a draft is the version its request
saw, which was open, except for the fields it is to change. With it a new
version inherits `LostByOverlapOnly` from the version it is based on: either
that version came before the write in question, then the two requests
overlapped, or it came later and still showed its effect, or a witness lies
before it. `WritersKnown` keeps what a request asked for fixed once it has
written.

*Sessions.* `Prepared` says what a request has when it comes to its next step:
an account found, a token generated, a draft that is the row it read
(`base`) except for the fields it names. `UnsetIsActive` supplies the flag of a
new account. `EmptyKept` needs that nobody but the update itself moves it
(`OnlyUpdateMoves`). `Conserved` is the balance of sessions, with the two facts
that let it pass every other step: a request that was counted is over, so its
token is fixed, and a login answered 200 was counted.

*The search.* The invariant has the shape of the textbook proof, for this code's
heap with overtaken entries: what is settled is no farther than anything on the
heap and than the edge under way (`SettledFirst`), what was reached and is not
settled is on the heap at its distance (`HeapHoldsFrontier`), the edges of
settled hubs are relaxed except those in `todo` (`SettledRelaxed`), and `dist` is
the cost along `prev` (`WaysCount`). `Certificate` is a part of it. `RouteIsBest`
then follows any way from the origin to the first hub outside the settled ones,
which the certificate bounds from below. A way is a function on `1 .. n`; that
induction over its length is an instance of the least element of a set of
numbers (`WFMin`), since the library's induction theorems take an operator.

*The route that is read off.* `dist` falls along `prev`, but not strictly: an edge
may weigh nothing, so `dist` alone does not show that the walk back ends.
`Ranked` says that there is a ranking of the hubs by which each settled one comes
after the one `prev` leads to: the next hub to settle gets the next rank, and
`SettledOnce` (no entry of a settled hub is on the heap at its distance) is what
makes that possible. `RouteSoFar` then relates the walk to the search: the edges
read so far lead from `cursor` to the destination, each is its hub's `prev`, and
what they cost and `dist[cursor]` add up to `dist[destination]`. A complete route
passes no hub twice, so it is among `Ways` (a pigeonhole argument, which is where
the finite set of nodes is used), and `RouteIsBest` bounds every other way. The
recursive cost of a way is unfolded by showing that a function with its equations
exists (`CostIsSum`), by least elements again.

*The tours.* `Under` describes a tour of `n` stops: what is left is what no stop is
for, every length is the one before plus a distance, and each stop was no farther
than those that follow it and those that are left. `Visits` carries it from `n` to
`n + 1`; `CalculatedGrows` shows that the recursive function is such a sequence of
visits, and at the full length nothing is left because the number of parcels left
is 0. `InHand` says that a request that comes to store its tour has a list and a
hub, whatever failed or was answered in between.

*The cache.* `UnseenAfterRead` and `UnstoredOverlaps` say when a route can lack
an update: it had been computed by then, and if it was not yet stored it is in
`overlap`. `CachedAreOver` says that whoever filled an entry has ended, so a
later update finds the route in the cache and not under way. `ListedAreEnough`
carries the promise from `KEYS` to `DEL`: between the two, every entry that lacks
the update is on the list, or overlapped.

*Delivery.* `ReportsPending` bounds what a report is about to write by the
failures written so far, with equality while its parcel has no clash, and
`OneAtATime` says that without a clash there is one report between its steps.
A write adds the report to the set that is counted (`FS_AddElement`), as for
pickups.

*Warehouse.* `SavesPending` says what a movement between its two calls may rely
on: what it found was not negative if nothing negative was saved, and a dispatch
found enough. That is not the stock as it is now, but what the movement writes is
computed from it, and this suffices for the first half of `StockAccounted`. The
second half has `NothingBetween`: without a disturbance one movement is between its
calls, and what it found is what is stored.

*Notification.* `RowsOver`, `TakenLogged` and `Attempted` tie the three traces of a
message to the step its request is at: a row belongs to an attempt that is over,
what was taken in the attempt under way is what its row will say, and a request
about to log without a refusal has been taken. Attempts are numbered, so the
traces of an earlier one stay as they are while the caller asks again.

*Prices.* `TariffInv` says that each answer is what its formula gives. The laws then
compare two products: `ProductsGrow` for the charge, and for orders `PriceIsProduct`,
which takes the price apart into base rate, weight and factors. That a
parcel within another is charged no more is a case distinction over which weight
counts (`WithinWeighsNoMore`); parcels of negative sides are excluded by the law.

*All parts.* `ServicesSafe` and `PartsTypeCorrect` are about `Parts`, in which every
part runs, and follow from the theorems of the parts. `Spec` of `Services`, which
TLC explores, runs one part and leaves the others where they start; the lemma
`SpecIsParts` (each part's `Next`, with what it leaves alone, is a step of that
part and a stutter of the others) says no more than that this is a special case,
and carries the theorems over to it (`CheckedSpecIsSafe`).

*Only model-checked:* `EveryRequestAnswered` (liveness, under the fairness of
section 4), and that the violating runs are violated. That TLC sees every state
of a part in `Spec` is an argument (no part reads another's variables), not a
theorem; the theorems do not rest on it.

## 12. Plan

Done: `PaymentLedger`, `Payment`, `PaymentProofs`; `TrackingLog`, `Tracking`,
`TrackingProofs`; `PickupLifecycle`, `Pickup`, `PickupProofs`; `Order`,
`OrderProofs`; `Sessions`, `SessionsProofs`; `Dijkstra`, `DijkstraProofs`;
`Routing`, `CourierRoute`, `RoutingProofs`; `Delivery`, `Stock`, `Notification`,
`Tariff`, `Services`, `ServicesProofs`. Next, in this order:

1. An abstract specification of the route cache (a search answers from the graph of
   some moment since the request came, or from an entry of before) that `Routing`
   implements, with the proof of the refinement.
2. The same for the log of notifications, an attempt being atomic.

A violating run is added only where a document or test of the repository says
the contrary. Two such disagreements have none, because a passing property
already says when they happen: the event published while the order stays
PENDING (`payment-service/Readme.md:173`; `PendingOnlyWhenOvertaken`, section 3),
and the cached route that survives the update of its edge (requirement 3.4,
`routing-service/.kiro/specs/routing-service/requirements.md:67`;
`StaleOnlyByOverlap`, section 8). Modules to be proved about use no recursive operators.

## 13. What is not modelled

- Reads that change nothing (`GET` endpoints of payment, pickup and order, the bulk
  read of tracking, the lists of couriers, jobs, nodes, edges, templates, log
  rows and stock), the signature check (its verdict is the guard of `CallbackLookup`:
  callbacks that pass it name a decided transaction), JSON, HTTP codes, logging,
  correlation ids, health checks, configuration. (`ListCouriers` can filter by a
  column `city_code` that `database.sql` does not have; such a request fails and
  changes nothing.)
- Which error code tracking answers: the repository maps every missed deadline to
  `ErrPoolExhausted` (503), so the 504 branch of the handler is never taken.
- Floats: distances, hours and prices are exact numbers in the models, so what
  rounding does to ties and sums is outside of them.
- `report-and-analytics` (aggregating SELECTs) and `api-gateway` (a stateless
  proxy): no state and no steps to interleave.
- Mocks and test containers.

## 14. How to run

    tlc -workers 2 -config MCPayment.cfg MCPayment
    tlc -workers 2 -config MCTracking.cfg MCTracking
    tlc -workers 2 -config MCPickup.cfg MCPickup
    tlc -workers 2 -config MCOrder.cfg MCOrder
    tlc -workers 2 -config MCSessions.cfg MCSessions
    tlc -workers 2 -config MCServices.cfg MCServices
    tlc -workers 2 -config MCStock.cfg Stock
    tlapm PaymentProofs.tla
    tlapm TrackingProofs.tla
    tlapm PickupProofs.tla
    tlapm OrderProofs.tla
    tlapm SessionsProofs.tla
    tlapm DijkstraProofs.tla
    tlapm RoutingProofs.tla
    tlapm ServicesProofs.tla
