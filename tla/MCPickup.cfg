\* One pickup whose requests come one at a time, one whose requests overlap.
CONSTANTS
    Creates = {alone, shared}
    Assigns = {a1, a2}
    Updates = {u1, u2}
    Cancels = {x1}
    Exclusive = {alone}
    Couriers = {k1}
    NoCourier = NoCourier
    NoPickup = NoPickup
    MaxInFlight = 2
SPECIFICATION Spec
INVARIANTS
    TypeOK
    AssignedFirst
    AttemptsCounted
    AnnouncedIsWritten
PROPERTY
    LifecycleSpec
SYMMETRY Symmetry
CHECK_DEADLOCK FALSE
