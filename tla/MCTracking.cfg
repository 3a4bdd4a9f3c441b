\* Events out of order, overlapping transactions, a pool smaller than the load.
CONSTANTS
    Numbers = {n1, n2}
    Posts = {p1, p2, p3}
    Gets = {g1}
    MaxTime = 2
    MaxConns = 2
    NoEvent = NoEvent
    NoNumber = NoNumber
    Nobody = Nobody
SPECIFICATION FairSpec
INVARIANTS
    TypeOK
    SummaryIsLatest
    DraftIsCurrent
    AckedPersisted
    StatusNotBehindHistory
PROPERTIES
    NeverRegresses
    EveryRequestAnswered
    LogSpec
CHECK_DEADLOCK FALSE
