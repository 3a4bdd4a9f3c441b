\* The callback names the reference that the charge stored.
CONSTANTS
    o1 = o1
    chg1 = chg1
    txn1 = txn1
    Orders = {o1}
    NoOrder = NoOrder
    Refs = {chg1, txn1}
    NoRef = NoRef
    OrderOf <- MCOrderOf
    ChargeRef <- MCChargeRef
    CallbackRefs = {chg1}
    Charges = {c1}
    Callbacks = {k1}
    Confirms = {}
    Refunds = {}
    Faults = {}
    MaxInFlight = 1
SPECIFICATION Spec
INVARIANT
    AckedCallbackPublished
CHECK_DEADLOCK FALSE
