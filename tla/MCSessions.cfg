\* One account, tokens of one second and of two, two requests at a time.
CONSTANTS
    Users = {a}
    Registers = {n1}
    Logins = {l1, l2}
    Refreshes = {r1}
    Logouts = {x1, x2}
    Profiles = {p1, p2}
    Switches = {s1}
    NoUser = NoUser
    Empty = Empty
    NoToken = NoToken
    Lifetime = 1
    MaxTime = 1
    MaxInFlight = 2
SPECIFICATION Spec
INVARIANTS
    TypeOK
    TokensAccounted
    SessionsLast
    FlagIsLastSet
PROPERTY
    EmptyFieldsKept
SYMMETRY Symmetry
CHECK_DEADLOCK FALSE
