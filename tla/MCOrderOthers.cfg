\* One order, an update and a cancellation at the same time.
CONSTANTS
    Creates = {o1}
    Updates = {u1}
    Cancels = {x1}
    NoOrder = NoOrder
    MaxInFlight = 2
SPECIFICATION Spec
INVARIANTS
    OthersUnchanged
CHECK_DEADLOCK FALSE
