\* One order, every endpoint, requests in any order, statements that fail.
CONSTANTS
    o1 = o1
    chg1 = chg1
    txn1 = txn1
    Orders = {o1}
    NoOrder = NoOrder
    Refs = {chg1, txn1}
    NoRef = NoRef
    OrderOf <- MCOrderOf
    ChargeRef <- MCChargeRef
    CallbackRefs = {chg1, txn1}
    Charges = {c1, c2}
    Callbacks = {k1, k2}
    Confirms = {m1, m2}
    Refunds = {f1}
    Faults = {"abort", "lookup"}
    MaxInFlight = 2
SPECIFICATION Spec
INVARIANTS
    TypeOK
    ReadsStable
    MoneyBacked
    EventTruthful
    CashAccounted
    PendingOnlyWhenOvertaken
    SilentOnlyForCause
    RepeatedOnlyForCause
PROPERTIES
    OpenedOnce
    LedgerSpec
SYMMETRY Symmetry
CHECK_DEADLOCK FALSE
