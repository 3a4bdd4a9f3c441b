\* An event is committed between the two reads of a GET.
CONSTANTS
    Numbers = {n1}
    Posts = {p1, p2}
    Gets = {g1}
    MaxTime = 2
    MaxConns = 2
    NoEvent = NoEvent
    NoNumber = NoNumber
    Nobody = Nobody
SPECIFICATION Spec
INVARIANT
    StatusIsInHistory
CHECK_DEADLOCK FALSE
