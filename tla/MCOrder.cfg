\* Two orders, four requests that overlap in any way.
CONSTANTS
    Creates = {o1, o2}
    Updates = {u1, u2, u3}
    Cancels = {x1}
    NoOrder = NoOrder
    MaxInFlight = 3
SPECIFICATION Spec
INVARIANTS
    TypeOK
    LostByOverlapOnly
    ChangesWereOpen
    WrittenOnce
SYMMETRY Symmetry
CHECK_DEADLOCK FALSE
