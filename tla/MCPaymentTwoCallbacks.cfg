\* The same callback is delivered twice at the same time.
CONSTANTS
    o1 = o1
    chg1 = chg1
    txn1 = txn1
    Orders = {o1}
    NoOrder = NoOrder
    Refs = {chg1, txn1}
    NoRef = NoRef
    OrderOf <- MCOrderOf
    ChargeRef <- MCChargeRef
    CallbackRefs = {txn1}
    Charges = {c1}
    Callbacks = {k1, k2}
    Confirms = {}
    Refunds = {}
    Faults = {}
    MaxInFlight = 2
SPECIFICATION Spec
INVARIANT
    PublishedOnce
CHECK_DEADLOCK FALSE
