--------------------------- MODULE PaymentProofs ---------------------------
(***************************************************************************)
(* Proofs about Payment, for any sets of orders, references and requests.  *)
(***************************************************************************)
EXTENDS Payment, FiniteSetTheorems, TLAPS

USE RefAssumption DEF NoPayment, HasPayment, InProgress, Answered

----------------------------------------------------------------------------
(* The statements that write the table payments.                            *)

Rows == [Orders -> Payment \cup {NoPayment}]

\* A row is never removed and keeps its method, and only row o may change.
Kept(o) ==
    \A p \in Orders :
        /\ HasPayment(p) => HasPayment(p)' /\ payments'[p].method = payments[p].method
        /\ p # o => payments'[p] = payments[p]

\* The insert adds a row where there was none.
LEMMA CreateKeeps ==
    ASSUME payments \in Rows, NEW o, NEW row \in Payment, CreatePayment(o, row)
    PROVE  /\ payments' \in Rows
           /\ Kept(o)
           /\ o \in Orders => payments'[o] = IF HasPayment(o) THEN payments[o] ELSE row
  BY DEF Rows, Payment, Kept, CreatePayment, Method

\* The update changes status and reference of a row that is there.
LEMMA UpdateKeeps ==
    ASSUME payments \in Rows, NEW o, NEW t \in Status, NEW x \in Refs \cup {NoRef},
           UpdatePaymentStatus(o, t, x)
    PROVE  /\ payments' \in Rows
           /\ Kept(o)
           /\ o \in Orders /\ HasPayment(o) =>
                 payments'[o] = [method |-> payments[o].method, status |-> t, ref |-> x]
           /\ o \in Orders /\ ~HasPayment(o) => payments'[o] = payments[o]
  BY DEF Rows, Payment, Kept, UpdatePaymentStatus, Method

\* A callback writes a status of the table and publishes an event of the topic.
LEMMA StatusRange == \A s : NewStatus(s) \in Status /\ EventType(s) \in EventTypes
  BY DEF NewStatus, EventType, Status, EventTypes

\* Counting one more keeps a table of counts.
LEMMA CountUp ==
    ASSUME NEW S, NEW f \in [S -> Nat], NEW x
    PROVE  [f EXCEPT ![x] = f[x] + 1] \in [S -> Nat]
  <1> DEFINE g == [f EXCEPT ![x] = f[x] + 1]
  <1>1. ASSUME NEW y \in S
        PROVE  g[y] \in Nat
    <2>1. f[y] \in Nat
      OBVIOUS
    <2>2. CASE x = y
      BY <2>1, <2>2
    <2>3. CASE x # y
      BY <2>1, <2>3
    <2> QED
      BY <2>2, <2>3
  <1> QED
    BY <1>1

----------------------------------------------------------------------------
(* Type correctness                                                         *)

\* What the history records is a kind of disturbance and a reference.
History == Disturbance \X (Refs \cup {NoRef})

LEMMA RecordTyped ==
    \A k \in Disturbance, x \in Refs \cup {NoRef} : {<<k, x>>} \subseteq History
  BY DEF History

LEMMA ErasesTyped == \A o, r : Erases(o, r) \subseteq History
  <1>1. "erased" \in Disturbance
    BY DEF Disturbance
  <1> QED
    BY <1>1 DEF Erases, History

LEMMA OverlapTyped == \A r \in Refs : Overlap(r) \subseteq History
  <1>1. "overlapped" \in Disturbance
    BY DEF Disturbance
  <1> QED
    BY <1>1 DEF Overlap, History

\* Every step of the service keeps the types.
LEMMA TypeStep == TypeOK /\ [Next]_vars => TypeOK'
  <1> SUFFICES ASSUME TypeOK, [Next]_vars
               PROVE  TypeOK'
    OBVIOUS
  <1>1. payments \in Rows
    BY DEF TypeOK, Rows
  <1>2. CASE UNCHANGED vars
    BY <1>2 DEF vars, TypeOK
  <1>3. ASSUME NEW r \in Refs, NEW s \in Outcome, GatewaySettles(r, s)
        PROVE  TypeOK'
    BY <1>3 DEF TypeOK, GatewaySettles
  <1>4. ASSUME NEW q \in Requests, Reject(q) \/ Abort(q)
        PROVE  TypeOK'
    <2>1. CASE Reject(q)
      BY <2>1 DEF TypeOK, Reject, Arrive
    <2>2. CASE Abort(q)
      <3>1. {<<"cut off", ref[q]>>} \subseteq History
        BY RecordTyped DEF TypeOK, Disturbance
      <3>2. disturbed' \subseteq History
        BY <2>2, <3>1 DEF TypeOK, Abort, History
      <3> QED
        BY <2>2, <3>2 DEF TypeOK, Abort, History
    <2> QED
      BY <1>4, <2>1, <2>2
  <1>5. ASSUME NEW q \in Charges, ChargeStep(q)
        PROVE  TypeOK'
    <2>1. ASSUME NEW o \in Orders, ChargeGateway(q, o)
          PROVE  TypeOK'
      BY <2>1 DEF TypeOK, ChargeGateway, Arrive
    <2>2. ASSUME NEW o \in Orders, ChargeCod(q, o)
          PROVE  TypeOK'
      <3>1. [method |-> "COD", status |-> "SUCCESS", ref |-> NoRef] \in Payment
        BY DEF Payment, Method, Status
      <3>2. payments' \in Rows
        BY <1>1, <2>2, <3>1, CreateKeeps DEF ChargeCod
      <3> QED
        BY <2>2, <3>2 DEF TypeOK, ChargeCod, Arrive, Rows
    <2>3. CASE InsertPending(q)
      <3> DEFINE o == order[q]
                 row == [method |-> "GATEWAY", status |-> "PENDING", ref |-> ChargeRef[o]]
      <3>1. CreatePayment(o, row)
        BY <2>3 DEF InsertPending
      <3>2. CASE o \in Orders
        <4>1. row \in Payment
          BY <3>2 DEF Payment, Method, Status
        <4> QED
          BY <1>1, <3>1, <4>1, <2>3, CreateKeeps DEF TypeOK, InsertPending, Continue, Rows
      <3>3. CASE o \notin Orders
        <4>1. payments' = payments
          BY <1>1, <3>1, <3>3 DEF CreatePayment, Rows
        <4> QED
          BY <2>3, <4>1 DEF TypeOK, InsertPending, Continue
      <3> QED
        BY <3>2, <3>3
    <2> QED
      BY <1>5, <2>1, <2>2, <2>3 DEF ChargeStep
  <1>6. ASSUME NEW q \in Callbacks, CallbackStep(q)
        PROVE  TypeOK'
    <2>1. ASSUME NEW r \in Refs, CallbackLookup(q, r)
          PROVE  TypeOK'
      <3>1. Overlap(r) \subseteq History /\ {<<"unchecked", r>>} \subseteq History
        BY OverlapTyped, RecordTyped DEF Disturbance
      <3>2. disturbed' \subseteq History
        BY <2>1, <3>1 DEF TypeOK, CallbackLookup, History
      <3> QED
        BY <2>1, <3>2 DEF TypeOK, CallbackLookup, Arrive, Requests, History
    <2>2. CASE CallbackUpdate(q)
      <3>1. payments' \in Rows
        BY <1>1, <2>2, UpdateKeeps, StatusRange DEF CallbackUpdate, TypeOK, Requests
      <3>2. {<<"overtook", ref[q]>>} \subseteq History
        BY RecordTyped DEF TypeOK, Disturbance, Requests
      <3>3. disturbed' \subseteq History
        BY <2>2, <3>2, ErasesTyped DEF TypeOK, CallbackUpdate, History
      <3> QED
        BY <2>2, <3>1, <3>3 DEF TypeOK, CallbackUpdate, Continue, Rows, History
    <2>3. CASE CallbackFetch(q)
      BY <2>3 DEF TypeOK, CallbackFetch, Continue
    <2>4. CASE CallbackPublish(q)
      <3>1. published' \in [Refs \X EventTypes -> Nat]
        BY <2>4, CountUp DEF TypeOK, CallbackPublish
      <3> QED
        BY <2>4, <3>1 DEF TypeOK, CallbackPublish, Continue
    <2> QED
      BY <1>6, <2>1, <2>2, <2>3, <2>4 DEF CallbackStep
  <1>7. ASSUME NEW q \in Confirms, ConfirmStep(q)
        PROVE  TypeOK'
    <2>1. ASSUME NEW o \in Orders, ConfirmRead(q, o)
          PROVE  TypeOK'
      BY <2>1 DEF TypeOK, ConfirmRead, Arrive
    <2>2. CASE ConfirmCollect(q)
      <3>1. codCollections' \in [Orders -> Nat]
        BY <2>2, CountUp DEF TypeOK, ConfirmCollect
      <3> QED
        BY <2>2, <3>1 DEF TypeOK, ConfirmCollect, Continue
    <2>3. CASE ConfirmUpdate(q)
      <3>1. payments' \in Rows
        BY <1>1, <2>3, UpdateKeeps DEF ConfirmUpdate, Status
      <3>2. disturbed' \subseteq History
        BY <2>3, ErasesTyped DEF TypeOK, ConfirmUpdate, History
      <3> QED
        BY <2>3, <3>1, <3>2 DEF TypeOK, ConfirmUpdate, Continue, Rows, History
    <2> QED
      BY <1>7, <2>1, <2>2, <2>3 DEF ConfirmStep
  <1>8. ASSUME NEW q \in Refunds, RefundStep(q)
        PROVE  TypeOK'
    <2>1. ASSUME NEW o \in Orders, RefundRead(q, o)
          PROVE  TypeOK'
      BY <2>1 DEF TypeOK, RefundRead, Arrive
    <2>2. CASE RefundUpdate(q)
      <3>1. payments' \in Rows
        BY <1>1, <2>2, UpdateKeeps DEF RefundUpdate, Status
      <3>2. disturbed' \subseteq History
        BY <2>2, ErasesTyped DEF TypeOK, RefundUpdate, History
      <3> QED
        BY <2>2, <3>1, <3>2 DEF TypeOK, RefundUpdate, Continue, Rows, History
    <2> QED
      BY <1>8, <2>1, <2>2 DEF RefundStep
  <1> QED
    BY <1>2, <1>3, <1>4, <1>5, <1>6, <1>7, <1>8 DEF Next

\* The empty tables have their types.
LEMMA TypeInit == Init => TypeOK
  BY DEF Init, TypeOK

\* The variables keep their types, whatever the number of orders and requests.
THEOREM TypeCorrect == Spec => []TypeOK
  BY TypeInit, TypeStep, PTL DEF Spec

----------------------------------------------------------------------------
(* What no step takes back                                                  *)

\* Rows keep existence and method; the outcome of a transaction is final.
Permanent ==
    /\ \A o \in Orders : HasPayment(o) =>
          HasPayment(o)' /\ payments'[o].method = payments[o].method
    /\ \A r \in Refs : settled[r] # "OPEN" => settled'[r] = settled[r]

\* Every step of the service is permanent in this sense.
LEMMA NothingTakenBack == TypeOK /\ [Next]_vars => Permanent
  <1> SUFFICES ASSUME TypeOK, [Next]_vars
               PROVE  Permanent
    OBVIOUS
  <1>1. payments \in Rows
    BY DEF TypeOK, Rows
  <1>2. ASSUME UNCHANGED payments, UNCHANGED settled
        PROVE  Permanent
    BY <1>2 DEF Permanent
  <1>3. ASSUME NEW o, Kept(o), UNCHANGED settled
        PROVE  Permanent
    BY <1>3 DEF Permanent, Kept
  <1>4. ASSUME NEW r \in Refs, NEW s \in Outcome, GatewaySettles(r, s)
        PROVE  Permanent
    BY <1>4 DEF Permanent, GatewaySettles, TypeOK
  <1>5. ASSUME NEW q \in Charges, NEW o \in Orders, ChargeCod(q, o)
        PROVE  Permanent
    <2>1. [method |-> "COD", status |-> "SUCCESS", ref |-> NoRef] \in Payment
      BY DEF Payment, Method, Status
    <2> QED
      BY <1>1, <1>3, <1>5, <2>1, CreateKeeps DEF ChargeCod
  <1>6. ASSUME NEW q \in Charges, InsertPending(q)
        PROVE  Permanent
    <2> DEFINE o == order[q]
               row == [method |-> "GATEWAY", status |-> "PENDING", ref |-> ChargeRef[o]]
    <2>1. CreatePayment(o, row) /\ UNCHANGED settled
      BY <1>6 DEF InsertPending
    <2>2. CASE o \in Orders
      <3>1. row \in Payment
        BY <2>2 DEF Payment, Method, Status
      <3> QED
        BY <1>1, <1>3, <2>1, <3>1, CreateKeeps
    <2>3. CASE o \notin Orders
      BY <1>1, <1>2, <2>1, <2>3 DEF CreatePayment, Rows
    <2> QED
      BY <2>2, <2>3
  <1>7. ASSUME NEW q \in Callbacks, CallbackUpdate(q)
        PROVE  Permanent
    BY <1>1, <1>3, <1>7, UpdateKeeps, StatusRange DEF CallbackUpdate, TypeOK, Requests
  <1>8. ASSUME NEW q \in Confirms, ConfirmUpdate(q)
        PROVE  Permanent
    BY <1>1, <1>3, <1>8, UpdateKeeps DEF ConfirmUpdate, Status
  <1>9. ASSUME NEW q \in Refunds, RefundUpdate(q)
        PROVE  Permanent
    BY <1>1, <1>3, <1>9, UpdateKeeps DEF RefundUpdate, Status
  <1> QED
    BY <1>2, <1>4, <1>5, <1>6, <1>7, <1>8, <1>9
       DEF Next, vars, Reject, Abort, ChargeStep, ChargeGateway, CallbackStep,
           CallbackLookup, CallbackFetch, CallbackPublish, ConfirmStep, ConfirmRead,
           ConfirmCollect, RefundStep, RefundRead

\* A success that the gateway has reported is never withdrawn.
LEMMA PaidStaysPaid ==
    ASSUME Permanent, NEW o, GatewayPaid(o)
    PROVE  GatewayPaid(o)'
  BY DEF Permanent, GatewayPaid

----------------------------------------------------------------------------
(* The inductive invariant                                                  *)

IInv == TypeOK /\ ReadsStable /\ MoneyBacked /\ EventTruthful

\* A request that does not move keeps what it knows.
LEMMA KnowsKept ==
    ASSUME TypeOK, Permanent, NEW q \in Requests, Knows(q),
           pc'[q] = pc[q], order'[q] = order[q], ref'[q] = ref[q]
    PROVE  Knows(q)'
  <1>1. pc[q] \in InProgress => order[q] \in Orders
    BY DEF Knows
  <1>2. pc[q] \in {"update", "fetch", "publish"} =>
           /\ ref[q] \in Refs /\ OrderOf[ref[q]] = order[q]
           /\ settled'[ref[q]] # "OPEN"
    BY DEF Knows, Permanent
  <1>3. pc[q] = "publish" => HasPayment(order[q])'
    BY <1>1 DEF Knows, Permanent
  <1>4. ASSUME NEW m \in Method, pc[q] \in InProgress, payments[order[q]].method = m
        PROVE  payments'[order[q]].method = m
    BY <1>1, <1>4 DEF Permanent, Method
  <1>5. pc[q] \in {"collect", "confirm"} => payments'[order[q]].method = "COD"
    BY <1>4 DEF Knows, Method
  <1>6. pc[q] = "refund" =>
           \/ payments'[order[q]].method = "COD"
           \/ payments'[order[q]].method = "GATEWAY" /\ GatewayPaid(order[q])'
    BY <1>4, PaidStaysPaid DEF Knows, Method
  <1> QED
    BY <1>1, <1>2, <1>3, <1>5, <1>6 DEF Knows, GatewayPaid

\* A step of request q changes the program counter and arguments of q alone.
Moves(q) ==
    \A x \in Requests : x # q =>
        pc'[x] = pc[x] /\ order'[x] = order[x] /\ ref'[x] = ref[x]

\* When one request moves, all the others keep what they know.
LEMMA OthersKnow ==
    ASSUME TypeOK, Permanent, ReadsStable, NEW q \in Requests, Moves(q), Knows(q)'
    PROVE  ReadsStable'
  <1> SUFFICES ASSUME NEW x \in Requests
               PROVE  Knows(x)'
    BY DEF ReadsStable
  <1>1. CASE x = q
    BY <1>1
  <1>2. CASE x # q
    BY <1>2, KnowsKept DEF Moves, ReadsStable
  <1> QED
    BY <1>1, <1>2

\* A request that has been answered acts on nothing any more.
LEMMA AnsweredKnows ==
    ASSUME NEW q \in Requests, pc'[q] \in Answered
    PROVE  Knows(q)'
  BY DEF Knows

\* What a handler reads stays true until it acts on it.
LEMMA ReadsStep == TypeOK /\ ReadsStable /\ MoneyBacked /\ [Next]_vars => ReadsStable'
  <1> SUFFICES ASSUME TypeOK, ReadsStable, MoneyBacked, [Next]_vars
               PROVE  ReadsStable'
    OBVIOUS
  <1>a. Permanent
    BY NothingTakenBack
  <1>b. ASSUME UNCHANGED <<pc, order, ref>>
        PROVE  ReadsStable'
    BY <1>a, <1>b, KnowsKept DEF ReadsStable
  <1>c. \A q \in Requests : Knows(q)
    BY DEF ReadsStable
  <1>1. CASE UNCHANGED vars
    BY <1>1, <1>b DEF vars
  <1>2. ASSUME NEW r \in Refs, NEW s \in Outcome, GatewaySettles(r, s)
        PROVE  ReadsStable'
    BY <1>2, <1>b DEF GatewaySettles
  <1>3. ASSUME NEW q \in Requests, Reject(q) \/ Abort(q)
        PROVE  ReadsStable'
    <2>1. Moves(q) /\ pc'[q] \in Answered
      BY <1>3 DEF Reject, Abort, Arrive, TypeOK, Moves
    <2> QED
      BY <1>a, <2>1, AnsweredKnows, OthersKnow
  <1>4. ASSUME NEW q \in Charges, ChargeStep(q)
        PROVE  ReadsStable'
    <2>q. q \in Requests
      BY DEF Requests
    <2>1. ASSUME NEW o \in Orders, ChargeGateway(q, o)
          PROVE  ReadsStable'
      <3>1. Moves(q) /\ pc'[q] = "insert" /\ order'[q] = o
        BY <2>1, <2>q DEF ChargeGateway, Arrive, TypeOK, Moves
      <3>2. Knows(q)'
        BY <3>1 DEF Knows
      <3> QED
        BY <1>a, <2>q, <3>1, <3>2, OthersKnow
    <2>2. ASSUME NEW o \in Orders, ChargeCod(q, o)
          PROVE  ReadsStable'
      <3>1. Moves(q) /\ pc'[q] \in Answered
        BY <2>2, <2>q DEF ChargeCod, Arrive, TypeOK, Moves
      <3> QED
        BY <1>a, <2>q, <3>1, AnsweredKnows, OthersKnow
    <2>3. CASE InsertPending(q)
      <3>1. Moves(q) /\ pc'[q] \in Answered
        BY <2>3, <2>q DEF InsertPending, Continue, TypeOK, Moves
      <3> QED
        BY <1>a, <2>q, <3>1, AnsweredKnows, OthersKnow
    <2> QED
      BY <1>4, <2>1, <2>2, <2>3 DEF ChargeStep
  <1>5. ASSUME NEW q \in Callbacks, CallbackStep(q)
        PROVE  ReadsStable'
    <2>q. q \in Requests
      BY DEF Requests
    <2>1. ASSUME NEW r \in Refs, CallbackLookup(q, r)
          PROVE  ReadsStable'
      <3>1. /\ Moves(q) /\ order'[q] = OrderOf[r] /\ ref'[q] = r
            /\ pc'[q] \in {"ok", "update"}
            /\ settled'[r] # "OPEN"
        BY <2>1, <2>q DEF CallbackLookup, Arrive, TypeOK, Moves
      <3>2. Knows(q)'
        BY <3>1 DEF Knows
      <3> QED
        BY <1>a, <2>q, <3>1, <3>2, OthersKnow
    <2>2. CASE CallbackUpdate(q)
      <3>1. /\ Moves(q) /\ UNCHANGED <<order, ref, settled>>
            /\ pc[q] = "update" /\ pc'[q] = "fetch"
        BY <2>2, <2>q DEF CallbackUpdate, Continue, TypeOK, Moves
      <3>2. Knows(q)'
        BY <1>c, <2>q, <3>1 DEF Knows
      <3> QED
        BY <1>a, <2>q, <3>1, <3>2, OthersKnow
    <2>3. CASE CallbackFetch(q)
      <3>1. /\ Moves(q) /\ UNCHANGED <<order, ref, settled, payments>>
            /\ pc[q] = "fetch"
            /\ pc'[q] = IF HasPayment(order[q]) THEN "publish" ELSE "failed"
        BY <2>3, <2>q DEF CallbackFetch, Continue, TypeOK, Moves
      <3>2. Knows(q)'
        BY <1>c, <2>q, <3>1 DEF Knows
      <3> QED
        BY <1>a, <2>q, <3>1, <3>2, OthersKnow
    <2>4. CASE CallbackPublish(q)
      <3>1. Moves(q) /\ pc'[q] \in Answered
        BY <2>4, <2>q DEF CallbackPublish, Continue, TypeOK, Moves
      <3> QED
        BY <1>a, <2>q, <3>1, AnsweredKnows, OthersKnow
    <2> QED
      BY <1>5, <2>1, <2>2, <2>3, <2>4 DEF CallbackStep
  <1>6. ASSUME NEW q \in Confirms, ConfirmStep(q)
        PROVE  ReadsStable'
    <2>q. q \in Requests
      BY DEF Requests
    <2>1. ASSUME NEW o \in Orders, ConfirmRead(q, o)
          PROVE  ReadsStable'
      <3>1. /\ Moves(q) /\ order'[q] = o /\ UNCHANGED payments
            /\ pc'[q] = IF payments[o].method = "COD" THEN "collect" ELSE "failed"
        BY <2>1, <2>q DEF ConfirmRead, Arrive, TypeOK, Moves
      <3>2. Knows(q)'
        BY <3>1 DEF Knows
      <3> QED
        BY <1>a, <2>q, <3>1, <3>2, OthersKnow
    <2>2. CASE ConfirmCollect(q)
      <3>1. /\ Moves(q) /\ UNCHANGED <<order, payments>>
            /\ pc[q] = "collect" /\ pc'[q] = "confirm"
        BY <2>2, <2>q DEF ConfirmCollect, Continue, TypeOK, Moves
      <3>2. Knows(q)'
        BY <1>c, <2>q, <3>1 DEF Knows
      <3> QED
        BY <1>a, <2>q, <3>1, <3>2, OthersKnow
    <2>3. CASE ConfirmUpdate(q)
      <3>1. Moves(q) /\ pc'[q] \in Answered
        BY <2>3, <2>q DEF ConfirmUpdate, Continue, TypeOK, Moves
      <3> QED
        BY <1>a, <2>q, <3>1, AnsweredKnows, OthersKnow
    <2> QED
      BY <1>6, <2>1, <2>2, <2>3 DEF ConfirmStep
  <1>7. ASSUME NEW q \in Refunds, RefundStep(q)
        PROVE  ReadsStable'
    <2>q. q \in Requests
      BY DEF Requests
    <2>1. ASSUME NEW o \in Orders, RefundRead(q, o)
          PROVE  ReadsStable'
      <3>1. /\ Moves(q) /\ order'[q] = o /\ UNCHANGED <<payments, settled>>
            /\ pc'[q] = IF payments[o].status = "SUCCESS" THEN "refund" ELSE "failed"
        BY <2>1, <2>q DEF RefundRead, Arrive, TypeOK, Moves
      <3>2. payments[o].status = "SUCCESS" =>
               \/ payments[o].method = "COD"
               \/ payments[o].method = "GATEWAY" /\ GatewayPaid(o)
        BY DEF MoneyBacked, TypeOK, Payment, Method
      <3>3. Knows(q)'
        BY <3>1, <3>2 DEF Knows, GatewayPaid
      <3> QED
        BY <1>a, <2>q, <3>1, <3>3, OthersKnow
    <2>2. CASE RefundUpdate(q)
      <3>1. Moves(q) /\ pc'[q] \in Answered
        BY <2>2, <2>q DEF RefundUpdate, Continue, TypeOK, Moves
      <3> QED
        BY <1>a, <2>q, <3>1, AnsweredKnows, OthersKnow
    <2> QED
      BY <1>7, <2>1, <2>2 DEF RefundStep
  <1> QED
    BY <1>1, <1>2, <1>3, <1>4, <1>5, <1>6, <1>7 DEF Next

\* The row of an order after a step: unchanged, opened, or with a new status
\* that the invariant lets the writing handler justify.
Justified(o) ==
    \/ payments'[o] = payments[o]
    \/ payments[o] = NoPayment /\ payments'[o].method = "GATEWAY" /\ payments'[o].status = "PENDING"
    \/ payments[o] = NoPayment /\ payments'[o].method = "COD" /\ payments'[o].status = "SUCCESS"
    \/ /\ HasPayment(o) /\ payments'[o].method = payments[o].method
       /\ \/ \E r \in Refs : /\ OrderOf[r] = o /\ settled[r] # "OPEN"
                             /\ payments'[o].status = NewStatus(settled[r])
          \/ payments[o].method = "COD" /\ payments'[o].status = "SUCCESS"
          \/ /\ payments[o].method = "COD" \/ GatewayPaid(o)
             /\ payments'[o].status = "REFUNDED"

\* At most one row changes in a step, and its change is justified.
LEMMA RowStep ==
    ASSUME TypeOK, ReadsStable, [Next]_vars
    PROVE  /\ \A o \in Orders : Justified(o)
           /\ \A o, p \in Orders :
                 payments'[o] # payments[o] /\ payments'[p] # payments[p] => o = p
           /\ (\E o \in Orders : payments'[o] # payments[o]) => UNCHANGED settled
  <1> DEFINE Goal ==
        /\ \A o \in Orders : Justified(o)
        /\ \A o, p \in Orders :
              payments'[o] # payments[o] /\ payments'[p] # payments[p] => o = p
        /\ (\E o \in Orders : payments'[o] # payments[o]) => UNCHANGED settled
  <1> SUFFICES Goal
    OBVIOUS
  <1>1. payments \in Rows
    BY DEF TypeOK, Rows
  <1>2. ASSUME UNCHANGED payments
        PROVE  Goal
    <2>1. \A o \in Orders : payments'[o] = payments[o]
      BY <1>2
    <2> QED
      BY <2>1 DEF Justified
  <1>3. ASSUME NEW o \in Orders, Kept(o), Justified(o), UNCHANGED settled
        PROVE  Goal
    <2>1. \A p \in Orders : p # o => payments'[p] = payments[p]
      BY <1>3 DEF Kept
    <2>2. \A p \in Orders : Justified(p)
      BY <1>3, <2>1 DEF Justified
    <2> QED
      BY <1>3, <2>1, <2>2
  <1> HIDE DEF Goal
  <1>4. ASSUME NEW q \in Charges, NEW o \in Orders, ChargeCod(q, o)
        PROVE  Goal
    <2> DEFINE row == [method |-> "COD", status |-> "SUCCESS", ref |-> NoRef]
    <2>1. row \in Payment
      BY DEF Payment, Method, Status
    <2>2. CreatePayment(o, row) /\ UNCHANGED settled
      BY <1>4 DEF ChargeCod
    <2>3. Kept(o) /\ payments'[o] = IF HasPayment(o) THEN payments[o] ELSE row
      BY <1>1, <2>1, <2>2, CreateKeeps
    <2> QED
      BY <1>3, <2>2, <2>3 DEF Justified
  <1>5. ASSUME NEW q \in Charges, InsertPending(q)
        PROVE  Goal
    <2>1. pc[q] = "insert" /\ q \in Requests
      BY <1>5 DEF InsertPending, Continue, Requests
    <2>2. PICK o \in Orders : o = order[q]
      BY <2>1 DEF ReadsStable, Knows
    <2> DEFINE row == [method |-> "GATEWAY", status |-> "PENDING", ref |-> ChargeRef[o]]
    <2>3. row \in Payment
      BY DEF Payment, Method, Status
    <2>4. CreatePayment(o, row) /\ UNCHANGED settled
      BY <1>5, <2>2 DEF InsertPending
    <2>5. Kept(o) /\ payments'[o] = IF HasPayment(o) THEN payments[o] ELSE row
      BY <1>1, <2>3, <2>4, CreateKeeps
    <2> QED
      BY <1>3, <2>4, <2>5 DEF Justified
  <1>6. ASSUME NEW o \in Orders, NEW t \in Status, NEW x \in Refs \cup {NoRef},
               UpdatePaymentStatus(o, t, x), UNCHANGED settled,
               \/ \E r \in Refs : /\ OrderOf[r] = o /\ settled[r] # "OPEN"
                                  /\ t = NewStatus(settled[r])
               \/ payments[o].method = "COD" /\ t = "SUCCESS"
               \/ (payments[o].method = "COD" \/ GatewayPaid(o)) /\ t = "REFUNDED"
        PROVE  Goal
    <2>1. /\ Kept(o)
          /\ HasPayment(o) => payments'[o] = [method |-> payments[o].method,
                                              status |-> t, ref |-> x]
          /\ ~HasPayment(o) => payments'[o] = payments[o]
      BY <1>1, <1>6, UpdateKeeps
    <2>2. Justified(o)
      BY <1>6, <2>1 DEF Justified
    <2> QED
      BY <1>3, <1>6, <2>1, <2>2
  <1>7. ASSUME NEW q \in Callbacks, CallbackUpdate(q)
        PROVE  Goal
    <2>1. /\ order[q] \in Orders /\ ref[q] \in Refs
          /\ OrderOf[ref[q]] = order[q] /\ settled[ref[q]] # "OPEN"
      BY <1>7 DEF CallbackUpdate, Continue, ReadsStable, Knows, Requests
    <2>2. UpdatePaymentStatus(order[q], NewStatus(settled[ref[q]]), ref[q]) /\ UNCHANGED settled
      BY <1>7 DEF CallbackUpdate
    <2> QED
      BY <1>6, <2>1, <2>2, StatusRange
  <1>8. ASSUME NEW q \in Confirms, ConfirmUpdate(q)
        PROVE  Goal
    <2>1. order[q] \in Orders /\ payments[order[q]].method = "COD"
      BY <1>8 DEF ConfirmUpdate, Continue, ReadsStable, Knows, Requests
    <2> QED
      BY <1>6, <1>8, <2>1 DEF ConfirmUpdate, Status
  <1>9. ASSUME NEW q \in Refunds, RefundUpdate(q)
        PROVE  Goal
    <2>1. /\ order[q] \in Orders
          /\ payments[order[q]].method = "COD" \/ GatewayPaid(order[q])
      BY <1>9 DEF RefundUpdate, Continue, ReadsStable, Knows, Requests
    <2> QED
      BY <1>6, <1>9, <2>1 DEF RefundUpdate, Status
  <1> QED
    BY <1>2, <1>4, <1>5, <1>7, <1>8, <1>9
       DEF Next, vars, Reject, Abort, GatewaySettles, ChargeStep, ChargeGateway,
           CallbackStep, CallbackLookup, CallbackFetch, CallbackPublish, ConfirmStep,
           ConfirmRead, ConfirmCollect, RefundStep, RefundRead

\* A gateway payment becomes paid or refunded only with a success reported.
LEMMA MoneyStep == TypeOK /\ ReadsStable /\ MoneyBacked /\ [Next]_vars => MoneyBacked'
  <1> SUFFICES ASSUME TypeOK, ReadsStable, MoneyBacked, [Next]_vars,
                      NEW o \in Orders,
                      payments'[o].method = "GATEWAY",
                      payments'[o].status \in {"SUCCESS", "REFUNDED"}
               PROVE  GatewayPaid(o)'
    BY DEF MoneyBacked
  <1>1. Permanent /\ Justified(o)
    BY NothingTakenBack, RowStep
  <1>2. GatewayPaid(o)
    <2>1. \A s : NewStatus(s) = "SUCCESS" => s = "SUCCESS"
      BY DEF NewStatus
    <2>2. \A s : NewStatus(s) # "REFUNDED"
      BY DEF NewStatus
    <2> QED
      BY <1>1, <2>1, <2>2 DEF Justified, MoneyBacked, GatewayPaid
  <1> QED
    BY <1>1, <1>2, PaidStaysPaid

\* Events are published for transactions with that outcome and orders with a row.
LEMMA EventStep == TypeOK /\ ReadsStable /\ EventTruthful /\ [Next]_vars => EventTruthful'
  <1> SUFFICES ASSUME TypeOK, ReadsStable, EventTruthful, [Next]_vars, NEW r \in Refs
               PROVE  /\ published'[<<r, "PAYMENT_SUCCESS">>] > 0 =>
                            settled'[r] = "SUCCESS" /\ HasPayment(OrderOf[r])'
                      /\ published'[<<r, "PAYMENT_FAILED">>] > 0 =>
                            settled'[r] \in {"FAILED", "EXPIRED"} /\ HasPayment(OrderOf[r])'
    BY DEF EventTruthful
  <1>a. Permanent
    BY NothingTakenBack
  <1>b. OrderOf[r] \in Orders
    OBVIOUS
  <1>1. ASSUME UNCHANGED published
        PROVE  /\ published'[<<r, "PAYMENT_SUCCESS">>] > 0 =>
                     settled'[r] = "SUCCESS" /\ HasPayment(OrderOf[r])'
               /\ published'[<<r, "PAYMENT_FAILED">>] > 0 =>
                     settled'[r] \in {"FAILED", "EXPIRED"} /\ HasPayment(OrderOf[r])'
    BY <1>1, <1>a, <1>b DEF EventTruthful, Permanent
  <1>2. ASSUME NEW q \in Callbacks, CallbackPublish(q)
        PROVE  /\ published'[<<r, "PAYMENT_SUCCESS">>] > 0 =>
                     settled'[r] = "SUCCESS" /\ HasPayment(OrderOf[r])'
               /\ published'[<<r, "PAYMENT_FAILED">>] > 0 =>
                     settled'[r] \in {"FAILED", "EXPIRED"} /\ HasPayment(OrderOf[r])'
    <2> DEFINE t == EventType(settled[ref[q]])
    <2>1. /\ ref[q] \in Refs /\ settled[ref[q]] \in Outcome
          /\ HasPayment(OrderOf[ref[q]])
      BY <1>2 DEF CallbackPublish, Continue, ReadsStable, Knows, Requests, TypeOK
    <2>2. UNCHANGED <<payments, settled>>
      BY <1>2 DEF CallbackPublish
    <2>3. ASSUME NEW e \in EventTypes, ~(ref[q] = r /\ t = e)
          PROVE  published'[<<r, e>>] = published[<<r, e>>]
      BY <1>2, <2>3 DEF CallbackPublish, TypeOK
    <2>4. t = "PAYMENT_SUCCESS" => settled[ref[q]] = "SUCCESS"
      BY DEF EventType
    <2>5. t = "PAYMENT_FAILED" => settled[ref[q]] \in {"FAILED", "EXPIRED"}
      BY <2>1 DEF EventType, Outcome
    <2>6. CASE ref[q] = r /\ t = "PAYMENT_SUCCESS"
      BY <2>1, <2>2, <2>3, <2>4, <2>6 DEF EventTruthful, EventTypes
    <2>7. CASE ref[q] = r /\ t = "PAYMENT_FAILED"
      BY <2>1, <2>2, <2>3, <2>5, <2>7 DEF EventTruthful, EventTypes
    <2>8. CASE ref[q] # r
      BY <2>2, <2>3, <2>8 DEF EventTruthful, EventTypes
    <2> QED
      BY <2>6, <2>7, <2>8, StatusRange DEF EventTypes
  <1> QED
    BY <1>1, <1>2
       DEF Next, vars, Reject, Abort, GatewaySettles, ChargeStep, ChargeGateway, ChargeCod,
           InsertPending, CallbackStep, CallbackLookup, CallbackUpdate, CallbackFetch,
           ConfirmStep, ConfirmRead, ConfirmCollect, ConfirmUpdate, RefundStep,
           RefundRead, RefundUpdate

----------------------------------------------------------------------------
(* Safety                                                                   *)

\* The inductive invariant holds of the empty database.
LEMMA IInvInit == Init => IInv
  <1> SUFFICES ASSUME Init
               PROVE  IInv
    OBVIOUS
  <1>1. TypeOK
    BY TypeInit
  <1>2. ReadsStable
    BY DEF Init, ReadsStable, Knows
  <1>3. MoneyBacked
    BY DEF Init, MoneyBacked
  <1>4. EventTruthful
    BY DEF Init, EventTruthful, EventTypes
  <1> QED
    BY <1>1, <1>2, <1>3, <1>4 DEF IInv

\* Every step of the service preserves the inductive invariant.
LEMMA IInvStep == IInv /\ [Next]_vars => IInv'
  BY TypeStep, ReadsStep, MoneyStep, EventStep DEF IInv

\* The inductive invariant holds in every reachable state of the service.
THEOREM Inductive == Spec => []IInv
  BY IInvInit, IInvStep, PTL DEF Spec

\* What a handler read is still true when it writes.
THEOREM ReadsAreStable == Spec => []ReadsStable
  <1>1. IInv => ReadsStable
    BY DEF IInv
  <1> QED
    BY <1>1, Inductive, PTL

\* A gateway payment is shown as paid or refunded only if the gateway said so.
THEOREM MoneyIsBacked == Spec => []MoneyBacked
  <1>1. IInv => MoneyBacked
    BY DEF IInv
  <1> QED
    BY <1>1, Inductive, PTL

\* An event says what the gateway said, about an order that has a payment.
THEOREM EventsAreTruthful == Spec => []EventTruthful
  <1>1. IInv => EventTruthful
    BY DEF IInv
  <1> QED
    BY <1>1, Inductive, PTL

\* A payment is opened once and never set back to PENDING.
THEOREM PaymentsOpenOnce == Spec => OpenedOnce
  <1> DEFINE Once ==
        \A o \in Orders : HasPayment(o) =>
            /\ payments'[o].method = payments[o].method
            /\ payments'[o].status = "PENDING" => payments[o].status = "PENDING"
  <1>1. ASSUME IInv, [Next]_vars
        PROVE  Once
    <2> SUFFICES ASSUME NEW o \in Orders, HasPayment(o)
                 PROVE  /\ payments'[o].method = payments[o].method
                        /\ payments'[o].status = "PENDING" => payments[o].status = "PENDING"
      OBVIOUS
    <2>1. Justified(o)
      BY <1>1, RowStep DEF IInv
    <2>2. \A s : NewStatus(s) # "PENDING"
      BY DEF NewStatus
    <2> QED
      BY <2>1, <2>2 DEF Justified
  <1>2. IInv /\ [Next]_vars => [Once]_vars
    BY <1>1
  <1> QED
    BY <1>2, Inductive, PTL DEF Spec, OpenedOnce

----------------------------------------------------------------------------
(* The cash book                                                            *)

\* The confirmations of order o whose collection is in the book.
Collected(o) == {q \in Confirms : order[q] = o /\ pc[q] \in {"confirm", "ok"}}

Book ==
    /\ \A o \in Orders : codCollections[o] > 0 => payments[o].method = "COD"
    /\ \A o \in Orders : Cardinality(Collected(o)) <= codCollections[o]

LEMMA BookInit == Init => Book
  <1> SUFFICES ASSUME Init
               PROVE  Book
    OBVIOUS
  <1>1. \A q \in Confirms : pc[q] = "new"
    BY DEF Init, Requests
  <1>2. \A o \in Orders : Collected(o) = {}
    BY <1>1 DEF Collected
  <1>3. \A o \in Orders : codCollections[o] = 0 /\ Cardinality(Collected(o)) = 0
    BY <1>2, FS_EmptySet DEF Init
  <1> QED
    BY <1>3 DEF Book

LEMMA CollectedFinite ==
    ASSUME NEW o
    PROVE  /\ IsFiniteSet(Collected(o)) /\ Cardinality(Collected(o)) \in Nat
           /\ \A T : T \subseteq Collected(o) =>
                 Cardinality(T) \in Nat /\ Cardinality(T) <= Cardinality(Collected(o))
  <1>1. IsFiniteSet(Confirms) /\ Collected(o) \subseteq Confirms
    BY RequestAssumption DEF Collected
  <1>2. IsFiniteSet(Collected(o))
    BY <1>1, FS_Subset
  <1>3. Cardinality(Collected(o)) \in Nat
    BY <1>2, FS_CardinalityType
  <1>4. ASSUME NEW T, T \subseteq Collected(o)
        PROVE  Cardinality(T) \in Nat /\ Cardinality(T) <= Cardinality(Collected(o))
    <2>1. IsFiniteSet(T) /\ Cardinality(T) <= Cardinality(Collected(o))
      BY <1>2, <1>4, FS_Subset
    <2> QED
      BY <2>1, FS_CardinalityType
  <1> QED
    BY <1>2, <1>3, <1>4

\* No step but ConfirmCollect enters a confirmation into the book.
LEMMA OthersCollectNothing ==
    ASSUME TypeOK, [Next]_vars, \A q \in Confirms : ~ConfirmCollect(q)
    PROVE  /\ UNCHANGED codCollections
           /\ \A q \in Confirms : pc'[q] \in {"confirm", "ok"} =>
                 pc[q] \in {"confirm", "ok"} /\ order'[q] = order[q]
  <1> DEFINE Goal == /\ UNCHANGED codCollections
                     /\ \A q \in Confirms : pc'[q] \in {"confirm", "ok"} =>
                           pc[q] \in {"confirm", "ok"} /\ order'[q] = order[q]
  <1> SUFFICES Goal
    OBVIOUS
  <1>a. /\ Confirms \subseteq Requests
        /\ \A q \in Charges \cup Callbacks \cup Refunds : q \in Requests /\ q \notin Confirms
    BY RequestAssumption DEF Requests
  <1>b. pc \in [Requests -> {"new"} \cup InProgress \cup Answered]
        /\ order \in [Requests -> Orders \cup {NoOrder}]
    BY DEF TypeOK
  <1>1. CASE UNCHANGED vars
    BY <1>1 DEF vars
  <1>2. ASSUME NEW r \in Refs, NEW s \in Outcome, GatewaySettles(r, s)
        PROVE  Goal
    BY <1>2 DEF GatewaySettles
  <1>3. ASSUME NEW q \in Charges, ChargeStep(q)
        PROVE  Goal
    <2>1. /\ UNCHANGED codCollections
          /\ \E next : pc' = [pc EXCEPT ![q] = next]
          /\ \E next : order' = [order EXCEPT ![q] = next] \/ order' = order
      BY <1>3 DEF ChargeStep, ChargeGateway, ChargeCod, InsertPending, Arrive, Continue
    <2> QED
      BY <1>a, <1>b, <2>1
  <1>4. ASSUME NEW q \in Callbacks, CallbackStep(q)
        PROVE  Goal
    <2>1. /\ UNCHANGED codCollections
          /\ \E next : pc' = [pc EXCEPT ![q] = next]
          /\ \E next : order' = [order EXCEPT ![q] = next] \/ order' = order
      BY <1>4 DEF CallbackStep, CallbackLookup, CallbackUpdate, CallbackFetch,
                  CallbackPublish, Arrive, Continue
    <2> QED
      BY <1>a, <1>b, <2>1
  <1>5. ASSUME NEW q \in Refunds, RefundStep(q)
        PROVE  Goal
    <2>1. /\ UNCHANGED codCollections
          /\ \E next : pc' = [pc EXCEPT ![q] = next]
          /\ \E next : order' = [order EXCEPT ![q] = next] \/ order' = order
      BY <1>5 DEF RefundStep, RefundRead, RefundUpdate, Arrive, Continue
    <2> QED
      BY <1>a, <1>b, <2>1
  <1>6. ASSUME NEW q \in Requests, Reject(q) \/ Abort(q)
        PROVE  Goal
    BY <1>a, <1>b, <1>6 DEF Reject, Abort, Arrive
  <1>7. ASSUME NEW q \in Confirms, ConfirmStep(q)
        PROVE  Goal
    <2>1. ASSUME NEW o \in Orders, ConfirmRead(q, o)
          PROVE  Goal
      BY <1>a, <1>b, <2>1 DEF ConfirmRead, Arrive
    <2>2. CASE ConfirmUpdate(q)
      BY <1>a, <1>b, <2>2 DEF ConfirmUpdate, Continue
    <2> QED
      BY <1>7, <2>1, <2>2 DEF ConfirmStep
  <1> QED
    BY <1>1, <1>2, <1>3, <1>4, <1>5, <1>6, <1>7 DEF Next

LEMMA BookStep == IInv /\ Book /\ [Next]_vars => Book'
  <1> SUFFICES ASSUME IInv, Book, [Next]_vars
               PROVE  Book'
    OBVIOUS
  <1> USE DEF IInv
  <1>1. \A o \in Orders : payments[o].method = "COD" => payments'[o].method = "COD"
    BY NothingTakenBack DEF Permanent
  <1>2. CASE \A q \in Confirms : ~ConfirmCollect(q)
    <2>1. UNCHANGED codCollections
      BY <1>2, OthersCollectNothing
    <2>2. ASSUME NEW o \in Orders
          PROVE  Cardinality(Collected(o)') <= codCollections'[o]
      <3>1. Collected(o)' \subseteq Collected(o)
        BY <1>2, OthersCollectNothing DEF Collected
      <3>2. /\ Cardinality(Collected(o)') \in Nat /\ Cardinality(Collected(o)) \in Nat
            /\ Cardinality(Collected(o)') <= Cardinality(Collected(o))
        BY <3>1, CollectedFinite
      <3>3. codCollections[o] \in Nat /\ Cardinality(Collected(o)) <= codCollections[o]
        BY DEF Book, TypeOK
      <3> QED
        BY <2>1, <3>2, <3>3
    <2> QED
      BY <1>1, <2>1, <2>2 DEF Book
  <1>3. ASSUME NEW q \in Confirms, ConfirmCollect(q)
        PROVE  Book'
    <2> DEFINE p == order[q]
    <2>1. q \in Requests /\ p \in Orders /\ payments[p].method = "COD" /\ pc[q] = "collect"
      BY <1>3 DEF ReadsStable, Knows, ConfirmCollect, Continue, Requests
    <2>2. /\ pc'[q] = "confirm" /\ UNCHANGED order
          /\ \A x \in Confirms : x # q => pc'[x] = pc[x]
          /\ codCollections'[p] = codCollections[p] + 1
          /\ \A o \in Orders : o # p => codCollections'[o] = codCollections[o]
      BY <1>3, <2>1 DEF ConfirmCollect, Continue, TypeOK, Requests
    <2>3. \A o \in Orders : codCollections'[o] > 0 => payments'[o].method = "COD"
      BY <1>1, <2>1, <2>2 DEF Book
    <2>4. ASSUME NEW o \in Orders
          PROVE  Cardinality(Collected(o)') <= codCollections'[o]
      <3>1. codCollections[o] \in Nat /\ Cardinality(Collected(o)) <= codCollections[o]
        BY DEF Book, TypeOK
      <3>2. CASE o = p
        <4>1. Collected(o)' = Collected(o) \cup {q} /\ q \notin Collected(o)
          BY <2>1, <2>2, <3>2 DEF Collected
        <4>2. Cardinality(Collected(o)') = Cardinality(Collected(o)) + 1
          BY <4>1, CollectedFinite, FS_AddElement
        <4> QED
          BY <2>2, <3>1, <3>2, <4>2, CollectedFinite
      <3>3. CASE o # p
        <4>1. Collected(o)' = Collected(o)
          BY <2>1, <2>2, <3>3 DEF Collected
        <4> QED
          BY <2>2, <3>1, <3>3, <4>1
      <3> QED
        BY <3>2, <3>3
    <2> QED
      BY <2>3, <2>4 DEF Book
  <1> QED
    BY <1>2, <1>3

\* Only a COD order has collections, and every confirmation that was answered 200
\* left a collection row of its own.
THEOREM CashIsAccounted == Spec => []CashAccounted
  <1>1. Spec => []Book
    BY Inductive, BookInit, BookStep, PTL DEF Spec
  <1>2. IInv /\ Book => CashAccounted
    <2> SUFFICES ASSUME IInv, Book, NEW o \in Orders
                 PROVE  Cardinality({q \in Confirms : order[q] = o /\ pc[q] = "ok"})
                            <= codCollections[o]
      BY DEF Book, CashAccounted
    <2> DEFINE done == {q \in Confirms : order[q] = o /\ pc[q] = "ok"}
    <2>1. done \subseteq Collected(o)
      BY DEF Collected
    <2> HIDE DEF done
    <2>2. /\ Cardinality(done) \in Nat /\ Cardinality(Collected(o)) \in Nat
          /\ Cardinality(done) <= Cardinality(Collected(o))
      BY <2>1, CollectedFinite
    <2>3. codCollections[o] \in Nat /\ Cardinality(Collected(o)) <= codCollections[o]
      BY DEF Book, IInv, TypeOK
    <2>4. Cardinality(done) <= codCollections[o]
      BY <2>2, <2>3
    <2> QED
      BY <2>4 DEF done
  <1> QED
    BY <1>1, <1>2, Inductive, PTL

----------------------------------------------------------------------------
(* Refinement                                                               *)

\* The empty tables are the empty ledger.
LEMMA LedgerInit == Init => Ledger!Init
  <1> SUFFICES ASSUME Init
               PROVE  Ledger!Init
    OBVIOUS
  <1>1. entry = [o \in Orders |-> Ledger!Unopened]
    BY DEF Init, entry, Ledger!Unopened
  <1>2. \A o \in Orders : verdicts[o] = {}
    BY DEF Init, verdicts
  <1>3. verdicts = [o \in Orders |-> {}]
    BY <1>2 DEF verdicts
  <1> QED
    BY <1>1, <1>3 DEF Ledger!Init

\* A row of the ledger, and the verdicts on it, read off the tables.
LEMMA Mapping ==
    /\ entry = [o \in Orders |-> entry[o]] /\ verdicts = [o \in Orders |-> verdicts[o]]
    /\ \A o \in Orders :
          /\ entry[o] = [method |-> payments[o].method, status |-> payments[o].status]
          /\ \A r \in Refs : OrderOf[r] = o /\ settled[r] # "OPEN" =>
                NewStatus(settled[r]) \in verdicts[o]
          /\ GatewayPaid(o) => "SUCCESS" \in verdicts[o]
          /\ payments[o] = NoPayment => entry[o] = Ledger!Unopened
  BY DEF entry, verdicts, GatewayPaid, NewStatus, Ledger!Unopened

\* A row that changes is a step of the ledger.
LEMMA EntryStep ==
    ASSUME TypeOK, NEW o \in Orders, Justified(o), payments'[o] # payments[o],
           \A p \in Orders : p # o => payments'[p] = payments[p],
           UNCHANGED settled
    PROVE  [Ledger!Next]_(Ledger!vars)
  <1> DEFINE e == [method |-> payments'[o].method, status |-> payments'[o].status]
  <1>1. entry' = [entry EXCEPT ![o] = e] /\ UNCHANGED verdicts
    BY DEF entry, verdicts
  <1>2. CASE payments[o] = NoPayment
    <2>1. entry[o] = Ledger!Unopened
      BY <1>2, Mapping
    <2>2. e \in {[method |-> "GATEWAY", status |-> "PENDING"],
                 [method |-> "COD", status |-> "SUCCESS"]}
      BY <1>2 DEF Justified
    <2>3. Ledger!Open(o, e)
      BY <1>1, <2>1, <2>2 DEF Ledger!Open
    <2> QED
      BY <2>2, <2>3 DEF Ledger!Next
  <1>3. CASE HasPayment(o)
    <2>1. entry[o] # Ledger!Unopened
      BY <1>3 DEF TypeOK, Payment, Method, entry, Ledger!Unopened
    <2>2. /\ entry[o].method = payments[o].method
          /\ payments'[o].method = payments[o].method
      BY <1>3, Mapping DEF Justified
    <2>3. Ledger!SetStatus(o, payments'[o].status)
      BY <1>1, <2>1, <2>2 DEF Ledger!SetStatus
    <2>4. CASE \E r \in Refs : /\ OrderOf[r] = o /\ settled[r] # "OPEN"
                               /\ payments'[o].status = NewStatus(settled[r])
      <3>1. payments'[o].status \in verdicts[o]
        BY <2>4, Mapping
      <3>2. payments'[o].status \in Ledger!Verdict
        BY <2>4 DEF NewStatus, Ledger!Verdict
      <3> QED
        BY <2>3, <3>1, <3>2 DEF Ledger!Next, Ledger!Settle
    <2>5. CASE payments[o].method = "COD" /\ payments'[o].status = "SUCCESS"
      BY <2>2, <2>3, <2>5 DEF Ledger!Next, Ledger!Collect
    <2>6. CASE /\ payments[o].method = "COD" \/ GatewayPaid(o)
               /\ payments'[o].status = "REFUNDED"
      BY <2>2, <2>3, <2>6, Mapping DEF Ledger!Next, Ledger!Refund
    <2> QED
      BY <1>3, <2>4, <2>5, <2>6 DEF Justified
  <1> QED
    BY <1>2, <1>3

\* Every step of the service is a step of the ledger or leaves it alone.
LEMMA LedgerStep == IInv /\ [Next]_vars => [Ledger!Next]_(Ledger!vars)
  <1> SUFFICES ASSUME IInv, [Next]_vars
               PROVE  [Ledger!Next]_(Ledger!vars)
    OBVIOUS
  <1> USE DEF IInv
  <1>1. CASE \E o \in Orders : payments'[o] # payments[o]
    <2>1. PICK o \in Orders : payments'[o] # payments[o]
      BY <1>1
    <2> QED
      BY <2>1, RowStep, EntryStep
  <1>2. CASE UNCHANGED settled /\ \A o \in Orders : payments'[o] = payments[o]
    BY <1>2 DEF entry, verdicts, Ledger!vars
  <1>3. ASSUME NEW r \in Refs, NEW s \in Outcome, GatewaySettles(r, s)
        PROVE  [Ledger!Next]_(Ledger!vars)
    <2> DEFINE o == OrderOf[r]
    <2>1. o \in Orders /\ NewStatus(s) \in Ledger!Verdict
      BY DEF NewStatus, Ledger!Verdict
    <2>2. UNCHANGED entry
      BY <1>3 DEF GatewaySettles, entry
    <2>3. /\ settled[r] = "OPEN" /\ settled'[r] = s /\ s # "OPEN"
          /\ \A x \in Refs : x # r => settled'[x] = settled[x]
      BY <1>3 DEF GatewaySettles, TypeOK, Outcome
    <2>4. \A p \in Orders :
             verdicts'[p] = IF p = o THEN verdicts[p] \cup {NewStatus(s)} ELSE verdicts[p]
      BY <2>3 DEF verdicts
    <2>5. verdicts' = [verdicts EXCEPT ![o] = verdicts[o] \cup {NewStatus(s)}]
      BY <2>4 DEF verdicts
    <2>6. Ledger!Report(o, NewStatus(s))
      BY <2>2, <2>5 DEF Ledger!Report
    <2> QED
      BY <2>1, <2>6 DEF Ledger!Next
  <1>4. ASSUME ~ \E r \in Refs, s \in Outcome : GatewaySettles(r, s)
        PROVE  UNCHANGED settled
    BY <1>4 DEF Next, vars, Reject, Abort, ChargeStep, ChargeGateway, ChargeCod,
           InsertPending, CallbackStep, CallbackLookup, CallbackUpdate, CallbackFetch,
           CallbackPublish, ConfirmStep, ConfirmRead, ConfirmCollect, ConfirmUpdate,
           RefundStep, RefundRead, RefundUpdate
  <1> QED
    BY <1>1, <1>2, <1>3, <1>4

\* The service implements the ledger of payments.
THEOREM ServiceImplementsLedger == Spec => LedgerSpec
  <1>1. Spec => Ledger!Spec
    BY Inductive, LedgerInit, LedgerStep, PTL DEF Spec, Ledger!Spec
  <1> QED
    BY <1>1 DEF LedgerSpec
----------------------------------------------------------------------------
(* What may upset the promises about callbacks, with any number of requests  *)
(* at a time and whatever fails.                                             *)

\* What the history has recorded stays recorded.
LEMMA DisturbedGrows == [Next]_vars => disturbed \subseteq disturbed'
  BY DEF Next, vars, Reject, Abort, GatewaySettles, ChargeStep, ChargeGateway, ChargeCod,
         InsertPending, CallbackStep, CallbackLookup, CallbackUpdate, CallbackFetch,
         CallbackPublish, ConfirmStep, ConfirmRead, ConfirmCollect, ConfirmUpdate,
         RefundStep, RefundRead, RefundUpdate

\* Where a callback is.
LEMMA CallbackIs ==
    ASSUME TypeOK, NEW k \in Callbacks
    PROVE  /\ k \in Requests /\ ref[k] \in Refs \cup {NoRef}
           /\ pc \in [Requests -> {"new"} \cup InProgress \cup Answered]
           /\ order \in [Requests -> Orders \cup {NoOrder}]
           /\ ref \in [Requests -> Refs \cup {NoRef}]
  BY DEF TypeOK, Requests

\* What a callback has read before it is past its update.
LEMMA CallbackKnows ==
    ASSUME IInv, NEW k \in Callbacks, pc[k] \in {"update", "fetch", "publish"}
    PROVE  /\ ref[k] \in Refs /\ order[k] \in Orders /\ OrderOf[ref[k]] = order[k]
           /\ settled[ref[k]] # "OPEN"
           /\ pc[k] = "publish" => HasPayment(order[k])
  BY DEF IInv, ReadsStable, Knows, Requests

\* A callback moves by its own steps only.
LEMMA CallbackMoves ==
    ASSUME TypeOK, [Next]_vars, NEW k \in Callbacks
    PROVE  \/ pc'[k] = pc[k] /\ order'[k] = order[k] /\ ref'[k] = ref[k]
           \/ \E r \in Refs : CallbackLookup(k, r)
           \/ CallbackUpdate(k) \/ CallbackFetch(k) \/ CallbackPublish(k)
           \/ Reject(k) \/ Abort(k)
  <1> DEFINE Still == pc'[k] = pc[k] /\ order'[k] = order[k] /\ ref'[k] = ref[k]
  <1>1. k \in Requests /\ \A q \in Charges \cup Confirms \cup Refunds : q # k
    BY RequestAssumption DEF Requests
  <1>2. ASSUME NEW q, q # k, NEW o, NEW step, Arrive(q, o, step), ref'[k] = ref[k]
        PROVE  Still
    BY <1>1, <1>2 DEF Arrive, TypeOK
  <1>3. ASSUME NEW q, q # k, NEW from, NEW step, Continue(q, from, step),
               UNCHANGED <<order, ref>>
        PROVE  Still
    BY <1>1, <1>3 DEF Continue, TypeOK
  <1>4. CASE UNCHANGED <<pc, order, ref>>
    BY <1>4
  <1>5. ASSUME NEW q \in Charges, ChargeStep(q)
        PROVE  Still
    BY <1>1, <1>2, <1>3, <1>5 DEF ChargeStep, ChargeGateway, ChargeCod, InsertPending
  <1>6. ASSUME NEW q \in Confirms, ConfirmStep(q)
        PROVE  Still
    BY <1>1, <1>2, <1>3, <1>6 DEF ConfirmStep, ConfirmRead, ConfirmCollect, ConfirmUpdate
  <1>7. ASSUME NEW q \in Refunds, RefundStep(q)
        PROVE  Still
    BY <1>1, <1>2, <1>3, <1>7 DEF RefundStep, RefundRead, RefundUpdate
  <1>8. ASSUME NEW q \in Requests, q # k, Reject(q) \/ Abort(q)
        PROVE  Still
    <2>1. CASE Reject(q)
      BY <1>2, <1>8, <2>1 DEF Reject
    <2>2. CASE Abort(q)
      BY <1>1, <1>8, <2>2 DEF Abort, TypeOK
    <2> QED
      BY <1>8, <2>1, <2>2
  <1>9. ASSUME NEW q \in Callbacks, q # k, CallbackStep(q)
        PROVE  Still
    <2>1. ASSUME NEW r \in Refs, CallbackLookup(q, r)
          PROVE  Still
      <3>1. ref'[k] = ref[k]
        BY <1>1, <1>9, <2>1 DEF CallbackLookup, TypeOK
      <3> QED
        BY <1>2, <1>9, <2>1, <3>1 DEF CallbackLookup
    <2> QED
      BY <1>3, <1>9, <2>1 DEF CallbackStep, CallbackUpdate, CallbackFetch, CallbackPublish
  <1>10. ASSUME CallbackStep(k)
         PROVE  \/ \E r \in Refs : CallbackLookup(k, r)
                \/ CallbackUpdate(k) \/ CallbackFetch(k) \/ CallbackPublish(k)
    BY <1>10 DEF CallbackStep
  <1> QED
    BY <1>4, <1>5, <1>6, <1>7, <1>8, <1>9, <1>10 DEF Next, vars, GatewaySettles

\* What the steps of a callback do to its request.
LEMMA CallbackGoes ==
    ASSUME TypeOK, NEW k \in Callbacks
    PROVE  /\ \A r \in Refs : CallbackLookup(k, r) =>
                 /\ pc[k] = "new" /\ pc'[k] \in {"ok", "update"}
                 /\ pc'[k] = "ok" => RefStored(r)
                 /\ ref'[k] = r /\ \A x \in Requests : x # k => ref'[x] = ref[x] /\ pc'[x] = pc[x]
                 /\ UNCHANGED <<payments, published, settled>>
           /\ CallbackUpdate(k) =>
                 /\ pc[k] = "update" /\ pc'[k] = "fetch"
                 /\ UNCHANGED <<published, settled, order, ref>>
           /\ CallbackFetch(k) =>
                 /\ pc[k] = "fetch"
                 /\ pc'[k] = IF HasPayment(order[k]) THEN "publish" ELSE "failed"
                 /\ UNCHANGED <<payments, published, settled, order, ref>>
           /\ CallbackPublish(k) =>
                 /\ pc[k] = "publish" /\ pc'[k] = "ok"
                 /\ UNCHANGED <<payments, settled, order, ref>>
           /\ Reject(k) \/ Abort(k) =>
                 /\ pc'[k] = "failed"
                 /\ UNCHANGED <<payments, published, settled, ref>>
  <1>1. k \in Requests /\ pc \in [Requests -> {"new"} \cup InProgress \cup Answered]
        /\ ref \in [Requests -> Refs \cup {NoRef}]
    BY CallbackIs
  <1>2. ASSUME NEW r \in Refs, CallbackLookup(k, r)
        PROVE  /\ pc[k] = "new" /\ pc'[k] \in {"ok", "update"}
               /\ pc'[k] = "ok" => RefStored(r)
               /\ ref'[k] = r /\ \A x \in Requests : x # k => ref'[x] = ref[x] /\ pc'[x] = pc[x]
               /\ UNCHANGED <<payments, published, settled>>
    BY <1>1, <1>2 DEF CallbackLookup, Arrive
  <1>3. Reject(k) \/ Abort(k) =>
           pc'[k] = "failed" /\ UNCHANGED <<payments, published, settled, ref>>
    BY <1>1 DEF Reject, Abort, Arrive
  <1> QED
    BY <1>1, <1>2, <1>3 DEF CallbackUpdate, CallbackFetch, CallbackPublish, Continue

\* What the update of a callback does to the row of its order.
LEMMA CallbackWrites ==
    ASSUME IInv, NEW k \in Callbacks, CallbackUpdate(k)
    PROVE  /\ order[k] \in Orders /\ ref[k] \in Refs
           /\ HasPayment(order[k]) =>
                 /\ payments'[order[k]].status # "PENDING"
                 /\ payments'[order[k]].status # "NONE"
                 /\ payments'[order[k]].ref = ref[k]
                 /\ HasPayment(order[k])'
           /\ ~HasPayment(order[k]) => <<"overtook", ref[k]>> \in disturbed'
  <1>1. order[k] \in Orders /\ ref[k] \in Refs
    BY CallbackKnows DEF CallbackUpdate, Continue
  <1>2. ASSUME HasPayment(order[k])
        PROVE  /\ payments'[order[k]].status # "PENDING"
               /\ payments'[order[k]].status # "NONE"
               /\ payments'[order[k]].ref = ref[k]
               /\ HasPayment(order[k])'
    <2> DEFINE t == NewStatus(settled[ref[k]])
    <2>1. payments \in Rows /\ t \in Status /\ t # "PENDING" /\ t # "NONE"
      BY StatusRange DEF IInv, TypeOK, Rows, NewStatus
    <2>a. UpdatePaymentStatus(order[k], t, ref[k])
      BY DEF CallbackUpdate
    <2> HIDE DEF t
    <2>2. payments'[order[k]] = [method |-> payments[order[k]].method, status |-> t,
                                 ref |-> ref[k]]
      <3> DEFINE o == order[k]
                 x == ref[k]
      <3>1. o \in Orders /\ x \in Refs \cup {NoRef} /\ UpdatePaymentStatus(o, t, x)
        BY <1>1, <2>a
      <3>2. HasPayment(o)
        BY <1>2
      <3> HIDE DEF o, x
      <3>3. payments'[o] = [method |-> payments[o].method, status |-> t, ref |-> x]
        BY <2>1, <3>1, <3>2, UpdateKeeps
      <3> QED
        BY <3>3 DEF o, x
    <2>3. payments'[order[k]].status = t /\ payments'[order[k]].ref = ref[k]
      BY <2>2
    <2>4. HasPayment(order[k])'
      <3>1. UNCHANGED order
        BY DEF CallbackUpdate
      <3>2. payments'[order[k]] # NoPayment
        BY <2>1, <2>3
      <3> QED
        BY <3>1, <3>2
    <2> QED
      BY <2>1, <2>3, <2>4
  <1>3. ~HasPayment(order[k]) => <<"overtook", ref[k]>> \in disturbed'
    BY DEF CallbackUpdate
  <1> QED
    BY <1>1, <1>2, <1>3

\* Only a callback publishes.
LEMMA OnlyCallbacksPublish ==
    ASSUME [Next]_vars, UNCHANGED published => FALSE
    PROVE  \E k \in Callbacks : CallbackPublish(k)
  BY DEF Next, vars, Reject, Abort, GatewaySettles, ChargeStep, ChargeGateway, ChargeCod,
         InsertPending, CallbackStep, CallbackLookup, CallbackUpdate, CallbackFetch,
         ConfirmStep, ConfirmRead, ConfirmCollect, ConfirmUpdate, RefundStep,
         RefundRead, RefundUpdate

\* One count goes up by one, the others stay.
LEMMA PublishCounts ==
    ASSUME IInv, NEW k \in Callbacks, CallbackPublish(k)
    PROVE  /\ ref[k] \in Refs /\ order[k] \in Orders /\ OrderOf[ref[k]] = order[k]
           /\ settled[ref[k]] # "OPEN" /\ HasPayment(order[k]) /\ pc[k] = "publish"
           /\ \A r \in Refs, t \in EventTypes :
                 published'[<<r, t>>] = IF r = ref[k] /\ t = EventType(settled[ref[k]])
                                        THEN published[<<r, t>>] + 1 ELSE published[<<r, t>>]
  <1>1. pc[k] = "publish"
    BY DEF CallbackPublish, Continue
  <1>2. published \in [Refs \X EventTypes -> Nat]
    BY DEF IInv, TypeOK
  <1> QED
    BY <1>1, <1>2, CallbackKnows DEF CallbackPublish

\* The references of the rows are written by the insert of a row, by callbacks,
\* and by a refund or a confirmation, which clear them.
LEMMA RefStep ==
    ASSUME IInv, [Next]_vars, NEW o \in Orders, payments'[o].ref # payments[o].ref
    PROVE  \/ /\ payments[o] = NoPayment
              /\ \/ payments'[o].ref = NoRef
                 \/ payments'[o].ref = ChargeRef[o] /\ payments'[o].method = "GATEWAY"
           \/ \E k \in Callbacks : CallbackUpdate(k) /\ order[k] = o /\ payments'[o].ref = ref[k]
           \/ \E q \in Confirms \cup Refunds :
                 /\ ConfirmUpdate(q) \/ RefundUpdate(q)
                 /\ order[q] = o /\ payments'[o].ref = NoRef
  <1>1. payments \in Rows
    BY DEF IInv, TypeOK, Rows
  <1>2. CASE UNCHANGED payments
    BY <1>2
  <1>3. ASSUME NEW q \in Charges, NEW p \in Orders, ChargeCod(q, p)
        PROVE  payments[o] = NoPayment /\ payments'[o].ref = NoRef
    <2>1. [method |-> "COD", status |-> "SUCCESS", ref |-> NoRef] \in Payment
      BY DEF Payment, Method, Status
    <2> QED
      BY <1>1, <1>3, <2>1, CreateKeeps DEF ChargeCod, Kept
  <1>4. ASSUME NEW q \in Charges, InsertPending(q)
        PROVE  /\ payments[o] = NoPayment /\ payments'[o].ref = ChargeRef[o]
               /\ payments'[o].method = "GATEWAY"
    <2>1. pc[q] = "insert" /\ q \in Requests
      BY <1>4 DEF InsertPending, Continue, Requests
    <2>2. PICK p \in Orders : p = order[q]
      BY <2>1 DEF IInv, ReadsStable, Knows
    <2> DEFINE row == [method |-> "GATEWAY", status |-> "PENDING", ref |-> ChargeRef[p]]
    <2>3. row \in Payment
      BY DEF Payment, Method, Status
    <2>4. CreatePayment(p, row)
      BY <1>4, <2>2 DEF InsertPending
    <2> QED
      BY <1>1, <2>3, <2>4, CreateKeeps DEF Kept
  <1>5. ASSUME NEW p, NEW t \in Status, NEW x \in Refs \cup {NoRef},
               UpdatePaymentStatus(p, t, x)
        PROVE  p = o /\ payments'[o].ref = x
    <2>1. /\ Kept(p)
          /\ p \in Orders /\ HasPayment(p) =>
                payments'[p] = [method |-> payments[p].method, status |-> t, ref |-> x]
          /\ p \in Orders /\ ~HasPayment(p) => payments'[p] = payments[p]
      BY <1>1, <1>5, UpdateKeeps
    <2>2. o = p
      BY <2>1 DEF Kept
    <2> QED
      BY <2>1, <2>2
  <1>6. ASSUME NEW k \in Callbacks, CallbackUpdate(k)
        PROVE  order[k] = o /\ payments'[o].ref = ref[k]
    BY <1>5, <1>6, StatusRange DEF CallbackUpdate, IInv, TypeOK, Requests
  <1>7. ASSUME NEW q \in Confirms, ConfirmUpdate(q)
        PROVE  order[q] = o /\ payments'[o].ref = NoRef
    BY <1>5, <1>7 DEF ConfirmUpdate, Status
  <1>8. ASSUME NEW q \in Refunds, RefundUpdate(q)
        PROVE  order[q] = o /\ payments'[o].ref = NoRef
    BY <1>5, <1>8 DEF RefundUpdate, Status
  <1> QED
    BY <1>2, <1>3, <1>4, <1>6, <1>7, <1>8
       DEF Next, vars, Reject, Abort, GatewaySettles, ChargeStep, ChargeGateway,
           CallbackStep, CallbackLookup, CallbackFetch, CallbackPublish, ConfirmStep,
           ConfirmRead, ConfirmCollect, RefundStep, RefundRead

LEMMA EventsNat == ASSUME TypeOK, NEW r \in Refs PROVE Events(r) \in Nat
  BY DEF TypeOK, Events, EventTypes

\* An event more is that of the callback that publishes.
LEMMA EventsStep ==
    ASSUME IInv, [Next]_vars, NEW r \in Refs
    PROVE  \/ Events(r)' = Events(r)
           \/ \E k \in Callbacks : CallbackPublish(k) /\ ref[k] = r /\ Events(r)' = Events(r) + 1
  <1>1. CASE UNCHANGED published
    BY <1>1 DEF Events
  <1>2. CASE ~UNCHANGED published
    <2>1. PICK k \in Callbacks : CallbackPublish(k)
      BY <1>2, OnlyCallbacksPublish
    <2> DEFINE t == EventType(settled[ref[k]])
               S == published[<<r, "PAYMENT_SUCCESS">>]
               F == published[<<r, "PAYMENT_FAILED">>]
    <2>2. \A e \in EventTypes :
             published'[<<r, e>>] = IF r = ref[k] /\ e = t
                                    THEN published[<<r, e>>] + 1 ELSE published[<<r, e>>]
      BY <2>1, PublishCounts
    <2>3. S \in Nat /\ F \in Nat
      BY DEF IInv, TypeOK, EventTypes
    <2>4. t \in EventTypes
      BY StatusRange
    <2>5. /\ published'[<<r, "PAYMENT_SUCCESS">>]
                = IF r = ref[k] /\ t = "PAYMENT_SUCCESS" THEN S + 1 ELSE S
          /\ published'[<<r, "PAYMENT_FAILED">>]
                = IF r = ref[k] /\ t = "PAYMENT_FAILED" THEN F + 1 ELSE F
      BY <2>2 DEF EventTypes
    <2>6. t = "PAYMENT_SUCCESS" \/ t = "PAYMENT_FAILED"
      BY <2>4 DEF EventTypes
    <2> HIDE DEF t, S, F
    <2>7. Events(r)' = IF r = ref[k] THEN S + F + 1 ELSE S + F
      BY <2>3, <2>5, <2>6 DEF Events
    <2>8. Events(r) = S + F
      BY DEF Events, S, F
    <2> QED
      BY <2>1, <2>7, <2>8
  <1> QED
    BY <1>1, <1>2

----------------------------------------------------------------------------
(* A PENDING order that others were told of.                                 *)

\* A callback past its update has left no PENDING row behind, and will find
\* none, unless it overtook the insert.
PendingInv ==
    /\ PendingOnlyWhenOvertaken
    /\ \A k \in Callbacks :
          /\ pc[k] \in {"fetch", "publish"}
          /\ payments[order[k]].status \in {"PENDING", "NONE"}
          => <<"overtook", ref[k]>> \in disturbed

LEMMA PendingInit == Init => PendingInv
  <1> SUFFICES ASSUME Init PROVE PendingInv
    OBVIOUS
  <1>1. \A r \in Refs : Events(r) = 0
    BY DEF Init, Events, EventTypes
  <1>2. \A k \in Callbacks : pc[k] = "new"
    BY DEF Init, Requests
  <1> QED
    BY <1>1, <1>2 DEF PendingInv, PendingOnlyWhenOvertaken

\* A row that is neither missing nor PENDING stays so.
LEMMA NeverPendingAgain ==
    ASSUME IInv, [Next]_vars, NEW o \in Orders,
           payments[o].status \notin {"PENDING", "NONE"}
    PROVE  payments'[o].status \notin {"PENDING", "NONE"}
  <1>1. Justified(o) /\ HasPayment(o)
    BY RowStep DEF IInv
  <1>2. \A s : NewStatus(s) \notin {"PENDING", "NONE"}
    BY DEF NewStatus
  <1> QED
    BY <1>1, <1>2 DEF Justified

LEMMA PendingStep == IInv /\ PendingInv /\ [Next]_vars => PendingInv'
  <1> SUFFICES ASSUME IInv, PendingInv, [Next]_vars
               PROVE  PendingInv'
    OBVIOUS
  <1>t. TypeOK
    BY DEF IInv
  <1>g. disturbed \subseteq disturbed'
    BY DisturbedGrows
  <1>1. ASSUME NEW k \in Callbacks, pc'[k] \in {"fetch", "publish"},
               payments'[order'[k]].status \in {"PENDING", "NONE"}
        PROVE  <<"overtook", ref'[k]>> \in disturbed'
    <2>1. ASSUME pc[k] \in {"fetch", "publish"}, order'[k] = order[k], ref'[k] = ref[k]
          PROVE  <<"overtook", ref'[k]>> \in disturbed'
      <3>1. order[k] \in Orders
        BY <2>1, CallbackKnows
      <3>2. payments[order[k]].status \in {"PENDING", "NONE"}
        BY <1>1, <2>1, <3>1, NeverPendingAgain
      <3> QED
        BY <1>g, <2>1, <3>2 DEF PendingInv
    <2>2. CASE CallbackUpdate(k)
      <3>1. order'[k] = order[k] /\ ref'[k] = ref[k]
        BY <2>2 DEF CallbackUpdate
      <3> QED
        BY <1>1, <2>2, <3>1, CallbackWrites
    <2>3. CASE CallbackFetch(k) \/ CallbackPublish(k)
      BY <1>t, <2>1, <2>3, CallbackGoes
    <2>4. \A r \in Refs : ~CallbackLookup(k, r)
      BY <1>t, <1>1, CallbackGoes
    <2>5. ~Reject(k) /\ ~Abort(k)
      BY <1>t, <1>1, CallbackGoes
    <2> QED
      BY <1>t, <1>1, <2>1, <2>2, <2>3, <2>4, <2>5, CallbackMoves
  <1>2. ASSUME NEW r \in Refs, Events(r)' > 0, payments'[OrderOf[r]].status = "PENDING"
        PROVE  <<"overtook", r>> \in disturbed'
    <2>1. OrderOf[r] \in Orders /\ payments[OrderOf[r]].status \in {"PENDING", "NONE"}
      BY <1>2, NeverPendingAgain
    <2>2. ASSUME NEW k \in Callbacks, CallbackPublish(k), ref[k] = r
          PROVE  <<"overtook", r>> \in disturbed
      BY <2>1, <2>2, PublishCounts DEF PendingInv
    <2>3. CASE Events(r) > 0
      <3>1. published[<<r, "PAYMENT_SUCCESS">>] > 0 \/ published[<<r, "PAYMENT_FAILED">>] > 0
        BY <1>t, <2>3 DEF Events, TypeOK, EventTypes
      <3>2. HasPayment(OrderOf[r])
        BY <3>1 DEF IInv, EventTruthful
      <3>3. payments[OrderOf[r]] \in Payment
        BY <1>t, <2>1, <3>2 DEF TypeOK
      <3>4. payments[OrderOf[r]].status = "PENDING"
        BY <2>1, <3>3 DEF Payment, Status
      <3> QED
        BY <1>g, <2>3, <3>4 DEF PendingInv, PendingOnlyWhenOvertaken
    <2>4. CASE ~(Events(r) > 0)
      BY <1>g, <1>2, <2>2, <2>4, EventsStep
    <2> QED
      BY <2>3, <2>4
  <1> QED
    BY <1>1, <1>2 DEF PendingInv, PendingOnlyWhenOvertaken

\* An order whose outcome was published is PENDING only after a callback of the
\* transaction overtook the insert, whatever overlaps and fails.
THEOREM PendingIsOvertaken == Spec => []PendingOnlyWhenOvertaken
  <1>1. PendingInv => PendingOnlyWhenOvertaken
    BY DEF PendingInv
  <1> QED
    BY <1>1, PendingInit, PendingStep, Inductive, PTL DEF Spec

----------------------------------------------------------------------------
(* A callback that was answered 200 and its event.                           *)

\* The transaction has had the event of its outcome.
Told(r) == published[<<r, EventType(settled[r])>>] > 0

\* What SilentOnlyForCause says of the reference of a callback.
Covered(r) ==
    Told(r) \/ StoredByCharge(r) \/ OnItsWay(r) \/ <<"cut off", r>> \in disturbed

SilentInv ==
    /\ \A r \in Refs : RefStored(r) => Covered(r)
    /\ \A k \in Callbacks : pc[k] = "ok" => ref[k] \in Refs /\ Covered(ref[k])

LEMMA SilentInit == Init => SilentInv
  <1> SUFFICES ASSUME Init PROVE SilentInv
    OBVIOUS
  <1>1. \A r \in Refs : ~RefStored(r)
    BY DEF Init, RefStored
  <1>2. \A k \in Callbacks : pc[k] = "new"
    BY DEF Init, Requests
  <1> QED
    BY <1>1, <1>2 DEF SilentInv

\* A callback that publishes has told.
LEMMA PublishTells ==
    ASSUME IInv, NEW k \in Callbacks, CallbackPublish(k)
    PROVE  Told(ref[k])'
  <1>1. UNCHANGED <<settled, ref>>
    BY DEF CallbackPublish
  <1> DEFINE e == EventType(settled[ref[k]])
  <1>2. ref[k] \in Refs /\ e \in EventTypes
    BY PublishCounts, StatusRange
  <1>3. published[<<ref[k], e>>] \in Nat
    BY <1>2 DEF IInv, TypeOK
  <1>4. published'[<<ref[k], e>>] = published[<<ref[k], e>>] + 1
    BY <1>2, PublishCounts
  <1> QED
    BY <1>1, <1>3, <1>4 DEF Told

\* A count that has gone up stays up, and its transaction is decided for good.
LEMMA ToldStaysTold ==
    ASSUME IInv, [Next]_vars, NEW r \in Refs, Told(r)
    PROVE  Told(r)'
  <1>1. settled[r] # "OPEN"
    BY DEF Told, EventType, IInv, EventTruthful
  <1>2. settled'[r] = settled[r]
    BY <1>1, NothingTakenBack DEF IInv, Permanent
  <1> DEFINE e == EventType(settled[r])
  <1>3. published[<<r, e>>] \in Nat /\ e \in EventTypes
    BY StatusRange DEF IInv, TypeOK
  <1>4. published'[<<r, e>>] \in {published[<<r, e>>], published[<<r, e>>] + 1}
    BY <1>3, OnlyCallbacksPublish, PublishCounts
  <1>5. published'[<<r, e>>] > 0
    BY <1>3, <1>4 DEF Told
  <1> QED
    BY <1>2, <1>5 DEF Told

\* What covers a reference is never withdrawn.
LEMMA CoveredStays ==
    ASSUME IInv, [Next]_vars, NEW r \in Refs, Covered(r)
    PROVE  Covered(r)'
  <1>t. TypeOK
    BY DEF IInv
  <1>1. CASE Told(r)
    BY <1>1, ToldStaysTold DEF Covered
  <1>2. CASE StoredByCharge(r)
    <2>1. PICK o \in Orders : ChargeRef[o] = r /\ payments[o].method = "GATEWAY"
      BY <1>2 DEF StoredByCharge
    <2>2. payments'[o].method = "GATEWAY"
      BY <1>t, <2>1, NothingTakenBack DEF Permanent
    <2> QED
      BY <2>1, <2>2 DEF Covered, StoredByCharge
  <1>3. CASE OnItsWay(r)
    <2>1. PICK k \in Callbacks :
             ref[k] = r /\ (pc[k] = "publish" \/ (pc[k] = "fetch" /\ HasPayment(order[k])))
      BY <1>3 DEF OnItsWay
    <2>2. HasPayment(order[k]) /\ order[k] \in Orders
      BY <2>1, CallbackKnows
    <2>3. payments'[order[k]] # NoPayment
      BY <1>t, <2>2, NothingTakenBack DEF Permanent
    <2>4. CASE pc'[k] = pc[k] /\ order'[k] = order[k] /\ ref'[k] = ref[k]
      BY <2>1, <2>3, <2>4 DEF Covered, OnItsWay
    <2>5. CASE CallbackFetch(k)
      <3>1. pc'[k] = "publish" /\ ref'[k] = r
        BY <1>t, <2>1, <2>2, <2>5, CallbackGoes
      <3> QED
        BY <3>1 DEF Covered, OnItsWay
    <2>6. CASE CallbackPublish(k)
      <3>1. ref'[k] = r /\ Told(ref[k])'
        BY <1>t, <2>1, <2>6, CallbackGoes, PublishTells
      <3> QED
        BY <3>1 DEF Covered, Told
    <2>7. CASE Abort(k)
      BY <2>1, <2>7 DEF Covered, Abort
    <2>8. /\ \A x \in Refs : ~CallbackLookup(k, x)
          /\ ~CallbackUpdate(k) /\ ~Reject(k)
      BY <1>t, <2>1, CallbackGoes DEF Reject, Arrive
    <2> QED
      BY <1>t, <2>4, <2>5, <2>6, <2>7, <2>8, CallbackMoves
  <1>4. CASE <<"cut off", r>> \in disturbed
    BY <1>4, DisturbedGrows DEF Covered
  <1> QED
    BY <1>1, <1>2, <1>3, <1>4 DEF Covered

LEMMA SilentStep == IInv /\ SilentInv /\ [Next]_vars => SilentInv'
  <1> SUFFICES ASSUME IInv, SilentInv, [Next]_vars
               PROVE  SilentInv'
    OBVIOUS
  <1>t. TypeOK
    BY DEF IInv
  <1>1. ASSUME NEW r \in Refs, RefStored(r)'
        PROVE  Covered(r)'
    <2>1. CASE RefStored(r)
      BY <2>1, CoveredStays DEF SilentInv
    <2>2. CASE ~RefStored(r)
      <3>1. PICK o \in Orders : HasPayment(o)' /\ payments'[o].ref = r
        BY <1>1 DEF RefStored
      <3>2. payments'[o].ref # payments[o].ref
        <4>1. payments[o] = NoPayment => payments[o].ref = NoRef
          OBVIOUS
        <4> QED
          BY <2>2, <3>1, <4>1 DEF RefStored
      <3>3. r # NoRef
        OBVIOUS
      <3>4. CASE r = ChargeRef[o] /\ payments'[o].method = "GATEWAY"
        BY <3>4 DEF Covered, StoredByCharge
      <3>5. ASSUME NEW k \in Callbacks, CallbackUpdate(k), order[k] = o, ref[k] = r
            PROVE  Covered(r)'
        <4>1. pc'[k] = "fetch" /\ ref'[k] = r /\ order'[k] = o
          BY <1>t, <3>5, CallbackGoes
        <4> QED
          BY <3>1, <4>1 DEF Covered, OnItsWay
      <3> QED
        BY <3>1, <3>2, <3>3, <3>4, <3>5, RefStep
    <2> QED
      BY <2>1, <2>2
  <1>2. ASSUME NEW k \in Callbacks, pc'[k] = "ok"
        PROVE  ref'[k] \in Refs /\ Covered(ref[k])'
    <2>1. CASE pc[k] = "ok" /\ ref'[k] = ref[k]
      BY <2>1, CoveredStays DEF SilentInv
    <2>2. ASSUME NEW r \in Refs, CallbackLookup(k, r)
          PROVE  ref'[k] \in Refs /\ Covered(ref[k])'
      <3>1. ref'[k] = r /\ RefStored(r)
        BY <1>t, <1>2, <2>2, CallbackGoes
      <3> QED
        BY <3>1, CoveredStays DEF SilentInv
    <2>3. CASE CallbackPublish(k)
      <3>1. ref'[k] = ref[k] /\ ref[k] \in Refs
        BY <1>t, <2>3, CallbackGoes, PublishCounts
      <3> QED
        BY <2>3, <3>1, PublishTells DEF Covered
    <2>4. ~CallbackUpdate(k) /\ ~CallbackFetch(k) /\ ~Reject(k) /\ ~Abort(k)
      BY <1>t, <1>2, CallbackGoes
    <2> QED
      BY <1>t, <1>2, <2>1, <2>2, <2>3, <2>4, CallbackMoves
  <1> QED
    BY <1>1, <1>2 DEF SilentInv

\* A callback answered 200 has had its event published, except for the causes that
\* SilentOnlyForCause names, whatever overlaps and fails.
THEOREM SilenceHasACause == Spec => []SilentOnlyForCause
  <1>1. SilentInv => SilentOnlyForCause
    BY DEF SilentInv, SilentOnlyForCause, Covered, Told
  <1> QED
    BY <1>1, SilentInit, SilentStep, Inductive, PTL DEF Spec

----------------------------------------------------------------------------
(* A transaction that was published twice.                                   *)

Working == {"update", "fetch", "publish"}

\* A cause that RepeatedOnlyForCause names.
Excused(r) == \E d \in Disturbance \ {"cut off"} : <<d, r>> \in disturbed

\* One callback at most works on the transaction, before its event, and the
\* reference of a processed transaction is stored.
Single(r) ==
    /\ Events(r) <= 1
    /\ \A k \in Callbacks : ref[k] = r /\ pc[k] \in Working =>
          /\ Events(r) = 0
          /\ \A j \in Callbacks : ref[j] = r /\ pc[j] \in Working => j = k
    /\ Processed(r) => RefStored(r)

OnceInv == \A r \in Refs : Excused(r) \/ Single(r)

LEMMA OnceInit == Init => OnceInv
  <1> SUFFICES ASSUME Init, NEW r \in Refs PROVE Single(r)
    BY DEF OnceInv
  <1>1. Events(r) = 0
    BY DEF Init, Events, EventTypes
  <1>2. \A k \in Callbacks : pc[k] = "new"
    BY DEF Init, Requests
  <1> QED
    BY <1>1, <1>2 DEF Single, Processed, Working

LEMMA ExcusedStays ==
    ASSUME [Next]_vars, NEW r \in Refs, Excused(r)
    PROVE  Excused(r)'
  BY DisturbedGrows DEF Excused

\* A processed reference is stored until a recorded disturbance erases it.
LEMMA StoredStays ==
    ASSUME IInv, [Next]_vars, NEW r \in Refs, RefStored(r), Processed(r), ~Excused(r)'
    PROVE  RefStored(r)'
  <1>1. PICK o \in Orders : HasPayment(o) /\ payments[o].ref = r
    BY DEF RefStored
  <1>2. payments'[o] # NoPayment
    BY <1>1, NothingTakenBack DEF IInv, Permanent
  <1>3. CASE payments'[o].ref = r
    BY <1>2, <1>3 DEF RefStored
  <1>4. CASE payments'[o].ref # r
    <2>1. ASSUME NEW x \in Refs \cup {NoRef}, x # r, Erases(o, x) \subseteq disturbed'
          PROVE  FALSE
      <3>1. <<"erased", r>> \in Erases(o, x)
        BY <1>1, <2>1 DEF Erases
      <3>2. "erased" \in Disturbance \ {"cut off"}
        BY DEF Disturbance
      <3> QED
        BY <2>1, <3>1, <3>2 DEF Excused
    <2>2. ASSUME NEW k \in Callbacks, CallbackUpdate(k), order[k] = o, payments'[o].ref = ref[k]
          PROVE  FALSE
      <3>1. ref[k] \in Refs /\ ref[k] # r
        BY <1>4, <2>2, CallbackWrites
      <3>2. Erases(o, ref[k]) \subseteq disturbed'
        BY <1>1, <2>2 DEF CallbackUpdate
      <3> QED
        BY <2>1, <3>1, <3>2
    <2>3. ASSUME NEW q, ConfirmUpdate(q) \/ RefundUpdate(q), order[q] = o
          PROVE  FALSE
      <3>1. Erases(o, NoRef) \subseteq disturbed'
        BY <2>3 DEF ConfirmUpdate, RefundUpdate
      <3> QED
        BY <2>1, <3>1
    <2> QED
      BY <1>1, <1>4, <2>2, <2>3, RefStep
  <1> QED
    BY <1>3, <1>4

\* A callback that starts to work on an undisturbed transaction is the first.
LEMMA FirstToWork ==
    ASSUME IInv, NEW r \in Refs, Single(r), ~Excused(r)', NEW k \in Callbacks,
           CallbackLookup(k, r), pc'[k] = "update"
    PROVE  ~Processed(r) /\ \A j \in Callbacks : ref[j] = r => pc[j] \notin Working
  <1>1. Overlap(r) \subseteq disturbed' /\ ~Processed(r)
    <2>1. "unchecked" \in Disturbance \ {"cut off"}
      BY DEF Disturbance
    <2>2. k \in Requests /\ pc \in [Requests -> {"new"} \cup InProgress \cup Answered]
      BY CallbackIs DEF IInv
    <2> QED
      BY <2>1, <2>2 DEF CallbackLookup, Arrive, Single, Excused
  <1>2. \A j \in Callbacks : ref[j] = r => pc[j] # "update"
    <2> SUFFICES ASSUME NEW j \in Callbacks, ref[j] = r, pc[j] = "update"
                 PROVE  FALSE
      OBVIOUS
    <2>1. <<"overlapped", r>> \in Overlap(r)
      BY DEF Overlap
    <2>2. "overlapped" \in Disturbance \ {"cut off"}
      BY DEF Disturbance
    <2> QED
      BY <1>1, <2>1, <2>2 DEF Excused
  <1> QED
    BY <1>1, <1>2 DEF Processed, Working

LEMMA OnceStep == IInv /\ OnceInv /\ [Next]_vars => OnceInv'
  <1> SUFFICES ASSUME IInv, OnceInv, [Next]_vars, NEW r \in Refs, ~Excused(r)'
               PROVE  Single(r)'
    BY DEF OnceInv
  <1>t. TypeOK
    BY DEF IInv
  <1>s. Single(r)
    BY ExcusedStays DEF OnceInv
  <1>e. Events(r) \in Nat
    BY <1>t, EventsNat
  \* Who works on the transaction after the step did so before, or is the first.
  <1>1. ASSUME NEW k \in Callbacks, ref'[k] = r, pc'[k] \in Working
        PROVE  \/ ref[k] = r /\ pc[k] \in Working
               \/ CallbackLookup(k, r) /\ pc'[k] = "update"
    <2>1. \A x \in Refs : CallbackLookup(k, x) => x = r /\ pc'[k] = "update"
      BY <1>t, <1>1, CallbackGoes DEF Working
    <2>2. ~CallbackPublish(k) /\ ~Reject(k) /\ ~Abort(k)
      BY <1>t, <1>1, CallbackGoes DEF Working
    <2>3. CallbackUpdate(k) \/ CallbackFetch(k) => ref[k] = r /\ pc[k] \in Working
      BY <1>t, <1>1, CallbackGoes DEF Working
    <2> QED
      BY <1>t, <1>1, <2>1, <2>2, <2>3, CallbackMoves
  <1>2. ASSUME NEW k \in Callbacks, CallbackPublish(k), ref[k] = r
        PROVE  /\ Events(r) = 0 /\ Processed(r)
               /\ \A j \in Callbacks : ref'[j] = r => pc'[j] \notin Working
    <2>1. pc[k] = "publish" /\ pc'[k] = "ok"
      BY <1>t, <1>2, CallbackGoes
    <2>2. Events(r) = 0 /\ Processed(r)
      BY <1>2, <1>s, <2>1 DEF Single, Working, Processed
    <2>3. ASSUME NEW j \in Callbacks, ref'[j] = r, pc'[j] \in Working
          PROVE  FALSE
      <3>1. ~(CallbackLookup(j, r) /\ pc'[j] = "update")
        BY <1>s, <2>2, FirstToWork
      <3>2. j = k
        BY <1>1, <1>2, <1>s, <2>1, <2>3, <3>1 DEF Single, Working
      <3> QED
        BY <2>1, <2>3, <3>2 DEF Working
    <2> QED
      BY <2>2, <2>3
  <1>3. Events(r)' <= 1
    BY <1>2, <1>e, <1>s, EventsStep DEF Single
  <1>4. ASSUME NEW k \in Callbacks, ref'[k] = r, pc'[k] \in Working
        PROVE  /\ Events(r)' = 0
               /\ \A j \in Callbacks : ref'[j] = r /\ pc'[j] \in Working => j = k
    <2>1. Events(r)' = Events(r)
      BY <1>2, <1>4, EventsStep
    <2>2. CASE \E j \in Callbacks : CallbackLookup(j, r) /\ pc'[j] = "update"
      <3>1. PICK j \in Callbacks : CallbackLookup(j, r) /\ pc'[j] = "update"
        BY <2>2
      <3>2. ~Processed(r) /\ \A i \in Callbacks : ref[i] = r => pc[i] \notin Working
        BY <1>s, <3>1, FirstToWork
      <3>3. Events(r) = 0
        BY <1>e, <3>2 DEF Processed
      <3>4. \A i \in Callbacks : i # j => ref'[i] = ref[i] /\ pc'[i] = pc[i]
        BY <1>t, <3>1, CallbackGoes DEF Requests
      <3>5. \A i \in Callbacks : ref'[i] = r /\ pc'[i] \in Working => i = j
        BY <3>2, <3>4
      <3> QED
        BY <1>4, <2>1, <3>3, <3>5
    <2>3. CASE ~\E j \in Callbacks : CallbackLookup(j, r) /\ pc'[j] = "update"
      BY <1>1, <1>4, <1>s, <2>1, <2>3 DEF Single
    <2> QED
      BY <2>2, <2>3
  <1>5. ASSUME Processed(r)'
        PROVE  RefStored(r)'
    <2>1. CASE Processed(r)
      BY <1>s, <2>1, StoredStays DEF Single
    <2>2. CASE ~Processed(r)
      <3>1. Events(r)' = Events(r) /\ ~(Events(r) > 0)
        BY <1>2, <2>2, EventsStep DEF Processed
      <3>2. PICK k \in Callbacks : ref'[k] = r /\ pc'[k] \in {"fetch", "publish"}
        BY <1>5, <3>1 DEF Processed
      <3>3. ~(ref[k] = r /\ pc[k] \in {"fetch", "publish"})
        BY <2>2 DEF Processed
      <3>4. ref[k] = r /\ pc[k] \in Working
        BY <1>1, <3>2 DEF Working
      <3>5. pc[k] = "update"
        BY <3>3, <3>4 DEF Working
      <3>6. CallbackUpdate(k)
        BY <1>t, <3>2, <3>5, CallbackMoves, CallbackGoes DEF Reject, Arrive
      <3>7. "overtook" \in Disturbance \ {"cut off"}
        BY DEF Disturbance
      <3>8. /\ order[k] \in Orders /\ UNCHANGED order
            /\ HasPayment(order[k])' /\ payments'[order[k]].ref = r
        BY <3>4, <3>6, <3>7, CallbackWrites DEF Excused, CallbackUpdate
      <3> QED
        BY <3>8 DEF RefStored
    <2> QED
      BY <2>1, <2>2
  <1> QED
    BY <1>3, <1>4, <1>5 DEF Single

\* Other services are told twice of a transaction only for the causes that
\* RepeatedOnlyForCause names, whatever overlaps and fails.
THEOREM RepetitionHasACause == Spec => []RepeatedOnlyForCause
  <1>1. IInv /\ OnceInv => RepeatedOnlyForCause
    <2> SUFFICES ASSUME IInv, OnceInv, NEW r \in Refs, Events(r) > 1
                 PROVE  Excused(r)
      BY DEF RepeatedOnlyForCause, Excused
    <2>1. Events(r) \in Nat
      BY EventsNat DEF IInv
    <2> QED
      BY <2>1 DEF OnceInv, Single
  <1> QED
    BY <1>1, OnceInit, OnceStep, Inductive, PTL DEF Spec
=============================================================================
