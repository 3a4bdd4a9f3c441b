--------------------------- MODULE PaymentLedger ---------------------------
(***************************************************************************)
(* What payment-service promises about the payment of an order, with the   *)
(* requests, the SQL statements and the gateway protocol abstracted away:  *)
(* a payment is opened once, its method never changes, it never becomes    *)
(* PENDING again, and a payment that goes through the gateway is shown as  *)
(* paid, failed or refunded only on a verdict of the gateway.              *)
(***************************************************************************)

CONSTANT Orders

VARIABLES
    entry,      \* entry[o] : method and status of the payment of order o
    verdicts    \* verdicts[o] : the outcomes the gateway has reported for o

vars == <<entry, verdicts>>

Verdict == {"SUCCESS", "FAILED"}

Unopened == [method |-> "NONE", status |-> "NONE"]

Init ==
    /\ entry = [o \in Orders |-> Unopened]
    /\ verdicts = [o \in Orders |-> {}]

Report(o, v) ==
    /\ verdicts' = [verdicts EXCEPT ![o] = @ \cup {v}]
    /\ UNCHANGED entry

Open(o, e) ==
    /\ entry[o] = Unopened
    /\ e \in {[method |-> "GATEWAY", status |-> "PENDING"],
              [method |-> "COD", status |-> "SUCCESS"]}
    /\ entry' = [entry EXCEPT ![o] = e]
    /\ UNCHANGED verdicts

SetStatus(o, s) ==
    /\ entry[o] # Unopened
    /\ entry' = [entry EXCEPT ![o] = [method |-> entry[o].method, status |-> s]]
    /\ UNCHANGED verdicts

Settle(o, v) == v \in verdicts[o] /\ SetStatus(o, v)

\* The courier hands over the cash of a cash-on-delivery order.
Collect(o) == entry[o].method = "COD" /\ SetStatus(o, "SUCCESS")

\* Only money that was received can be given back.
Refund(o) ==
    /\ entry[o].method = "COD" \/ "SUCCESS" \in verdicts[o]
    /\ SetStatus(o, "REFUNDED")

Next ==
    \E o \in Orders :
        \/ \E v \in Verdict : Report(o, v) \/ Settle(o, v)
        \/ \E e \in [method : {"GATEWAY", "COD"}, status : {"PENDING", "SUCCESS"}] :
              Open(o, e)
        \/ Collect(o)
        \/ Refund(o)

Spec == Init /\ [][Next]_vars
=============================================================================
