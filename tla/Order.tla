------------------------------- MODULE Order -------------------------------
(***************************************************************************)
(* order-service.  Cancelling and updating an order reads the row, checks  *)
(* that it is AWAITING_PICKUP and writes the whole row back with a second  *)
(* statement, whose WHERE names the order_id only.                         *)
(*                                                                         *)
(* Requests are processes that may overlap in any way.  The table is kept  *)
(* with its past: every version a row has had, which request wrote it and  *)
(* on which version that request had looked.                               *)
(***************************************************************************)
EXTENDS Naturals, Sequences, FiniteSets

CONSTANTS
    Creates,        \* POST /orders; each gets a fresh order_id, itself
    Updates,        \* PATCH /orders/{order_id}
    Cancels,        \* POST /orders/{order_id}/cancel
    NoOrder,        \* no order found yet
    MaxInFlight     \* bound: how many requests are between read and write at a time

Orders == Creates
Changes == Updates \cup Cancels
Requests == Creates \cup Changes

ASSUME OrderAssumption ==
    /\ Creates \cap Changes = {}
    /\ Updates \cap Cancels = {}
    /\ NoOrder \notin Creates
    /\ MaxInFlight \in Nat \ {0}

\* The fields of an UpdateOrderRequest: "receiver" stands for the four receiver
\* fields.  A field holds the name of the request that gave it its value.
Updatable == {"receiver", "item"}
Fields == Updatable \cup {"status"}

\* No operation writes any of the other five statuses.
Status == {"AWAITING_PICKUP", "CANCELLED"}
Row == [status : Status, receiver : Requests, item : Requests]
Version == [row : Row, by : Requests, seen : Nat]

VARIABLES
    versions,   \* versions[o] : the versions of the row of order o; the last is the row
    pc,         \* pc[q] : the next statement of request q, or its answer
    target,     \* target[q] : the order that request q found
    asked,      \* asked[q] : the fields that request q is to change
    seen,       \* seen[q] : the version that request q read
    draft       \* draft[q] : the row that request q will write

vars == <<versions, pc, target, asked, seen, draft>>

Answered == {"ok", "failed"}

Last(o) == Len(versions[o])

----------------------------------------------------------------------------
\* A body that does not decode or lacks a field: no statement.
Reject(q) ==
    /\ pc[q] = "new"
    /\ pc' = [pc EXCEPT ![q] = "failed"]
    /\ UNCHANGED <<versions, target, asked, seen, draft>>

CreateOrder_Created(q) ==
    /\ pc[q] = "new"
    /\ \E answer \in Answered : pc' = [pc EXCEPT ![q] = answer]
    /\ versions' = [versions EXCEPT ![q] =
          <<[row |-> [status |-> "CREATED", receiver |-> q, item |-> q], by |-> q, seen |-> 0]>>]
    /\ UNCHANGED <<target, asked, seen, draft>>

\* CreateOrder: one INSERT under a fresh id.  Here and below the reply of the
\* statement may be lost.
CreateOrder(q) ==
    /\ pc[q] = "new"
    /\ \E answer \in Answered : pc' = [pc EXCEPT ![q] = answer]
    /\ versions' = [versions EXCEPT ![q] =
          <<[row |-> [status |-> "AWAITING_PICKUP", receiver |-> q, item |-> q],
             by |-> q, seen |-> 0]>>]
    /\ UNCHANGED <<target, asked, seen, draft>>

Find_AnyStatus(q, o, fields, row) ==
    /\ pc[q] = "new"
    /\ Cardinality({r \in Changes : pc[r] = "write"}) < MaxInFlight
    /\ IF versions[o] # <<>>
       THEN /\ pc' = [pc EXCEPT ![q] = "write"]
            /\ target' = [target EXCEPT ![q] = o]
            /\ asked' = [asked EXCEPT ![q] = fields]
            /\ seen' = [seen EXCEPT ![q] = Last(o)]
            /\ draft' = [draft EXCEPT ![q] = row]
       ELSE pc' = [pc EXCEPT ![q] = "failed"] /\ UNCHANGED <<target, asked, seen, draft>>
    /\ UNCHANGED versions

\* FindOrderByID and the check of the status; row is what q will write.
Find(q, o, fields, row) ==
    /\ pc[q] = "new"
    /\ Cardinality({r \in Changes : pc[r] = "write"}) < MaxInFlight
    /\ IF versions[o] # <<>> /\ versions[o][Last(o)].row.status = "AWAITING_PICKUP"
       THEN /\ pc' = [pc EXCEPT ![q] = "write"]
            /\ target' = [target EXCEPT ![q] = o]
            /\ asked' = [asked EXCEPT ![q] = fields]
            /\ seen' = [seen EXCEPT ![q] = Last(o)]
            /\ draft' = [draft EXCEPT ![q] = row]
       ELSE pc' = [pc EXCEPT ![q] = "failed"] /\ UNCHANGED <<target, asked, seen, draft>>
    /\ UNCHANGED versions

CancelOrder(q, o) ==
    LET row == versions[o][Last(o)].row
    IN  Find(q, o, {"status"},
             [status |-> "CANCELLED", receiver |-> row.receiver, item |-> row.item])

UpdateOrder_BlanksRest(q, o, fields) ==
    Find(q, o, fields, [status |-> versions[o][Last(o)].row.status, receiver |-> q, item |-> q])

\* Only the fields that the request names are changed.
UpdateOrder(q, o, fields) ==
    LET row == versions[o][Last(o)].row
    IN  Find(q, o, fields,
             [status |-> row.status,
              receiver |-> IF "receiver" \in fields THEN q ELSE row.receiver,
              item |-> IF "item" \in fields THEN q ELSE row.item])

WriteOrder_Retries(q) ==
    /\ pc[q] = "write"
    /\ versions' = [versions EXCEPT ![target[q]] =
                       Append(@, [row |-> draft[q], by |-> q, seen |-> seen[q]])]
    /\ \E next \in Answered \cup {"write"} : pc' = [pc EXCEPT ![q] = next]
    /\ UNCHANGED <<target, asked, seen, draft>>

\* UPDATE orders SET ... WHERE order_id: the whole row, whatever it is by now.
WriteOrder(q) ==
    /\ pc[q] = "write"
    /\ versions' = [versions EXCEPT ![target[q]] =
                       Append(@, [row |-> draft[q], by |-> q, seen |-> seen[q]])]
    /\ \E answer \in Answered : pc' = [pc EXCEPT ![q] = answer]
    /\ UNCHANGED <<target, asked, seen, draft>>

\* The statement fails, the client goes away, the process stops.
Abort(q) ==
    /\ pc[q] = "write"
    /\ pc' = [pc EXCEPT ![q] = "failed"]
    /\ UNCHANGED <<versions, target, asked, seen, draft>>

----------------------------------------------------------------------------
Init ==
    /\ versions = [o \in Orders |-> <<>>]
    /\ pc = [q \in Requests |-> "new"]
    /\ target = [q \in Changes |-> NoOrder]
    /\ asked = [q \in Changes |-> {}]
    /\ seen = [q \in Changes |-> 0]
    /\ draft = [q \in Changes |-> NoOrder]

\* The two endpoints; an update names at least one field.
FindStep(q) ==
    \E o \in Orders :
        \/ q \in Cancels /\ CancelOrder(q, o)
        \/ q \in Updates /\ \E fields \in SUBSET Updatable \ {{}} : UpdateOrder(q, o, fields)

Next ==
    \/ \E q \in Creates : CreateOrder(q)
    \/ \E q \in Requests : Reject(q)
    \/ \E q \in Changes : FindStep(q) \/ WriteOrder(q) \/ Abort(q)

Spec == Init /\ [][Next]_vars

----------------------------------------------------------------------------
(* Properties                                                               *)

\* Every variable has its type.
TypeOK ==
    /\ versions \in [Orders -> Seq(Version)]
    /\ pc \in [Requests -> {"new", "write"} \cup Answered]
    /\ target \in [Changes -> Orders \cup {NoOrder}]
    /\ asked \in [Changes -> SUBSET Fields]
    /\ seen \in [Changes -> Nat]
    /\ draft \in [Changes -> Row \cup {NoOrder}]

\* The fields that the request gives a value when it writes.
Given(q) == IF q \in Creates THEN Fields ELSE asked[q]

\* What a request wrote into a field stays until a request that is to change the
\* same field, or one that had read the order before that write, writes the row.
\* So a cancellation is taken back, and an update lost, by an overlapping request only.
LostByOverlapOnly ==
    \A o \in Orders : \A n \in 1 .. Last(o) : \A i \in 1 .. n :
        \A f \in Given(versions[o][i].by) :
            \/ versions[o][n].row[f] = versions[o][i].row[f]
            \/ \E j \in i + 1 .. n :
                  f \in Given(versions[o][j].by) \/ versions[o][j].seen < i

\* Every change was made on a version that existed and was not cancelled: a
\* request that comes after a cancellation was answered, and finds it, changes nothing.
ChangesWereOpen ==
    \A o \in Orders : \A n \in 2 .. Last(o) :
        LET v == versions[o][n]
        IN  /\ v.seen \in 1 .. n - 1
            /\ versions[o][v.seen].row.status = "AWAITING_PICKUP"

\* A request writes at most once, to the order it found, and only if it did is
\* it answered 200; a row shows only values of requests that wrote it.
WrittenOnce ==
    /\ \A o \in Orders : \A i, j \in 1 .. Last(o) :
          versions[o][i].by = versions[o][j].by => i = j
    /\ \A q \in Changes : pc[q] = "ok" =>
          \E o \in Orders : target[q] = o /\ \E i \in 1 .. Last(o) : versions[o][i].by = q
    /\ \A o \in Orders : \A n \in 1 .. Last(o) : \A f \in Updatable :
          \E i \in 1 .. n : versions[o][i].by = versions[o][n].row[f]

\* .kiro/specs/order-service-unit-tests/requirements.md, 10.3 and 10.4: an update
\* leaves every field it does not name unchanged.  An overlapping one does not.
OthersUnchanged ==
    \A o \in Orders : \A n \in 2 .. Last(o) :
        \A f \in Fields \ Given(versions[o][n].by) :
            versions[o][n].row[f] = versions[o][n - 1].row[f]
=============================================================================
