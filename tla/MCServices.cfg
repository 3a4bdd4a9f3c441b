\* One small instance of every part; see the README for the bounds.  Requests
\* of different parts share their model values, and so the symmetry.
CONSTANTS
    h1 = h1   h2 = h2   h3 = h3   h4 = h4
    e1 = e1   e2 = e2   l1 = l1   l2 = l2   s1 = s1   v1 = v1
\* the search
    Hubs = {h1, h2, h3, h4}
    Graphs <- MCGraphs
    Alpha = 1
    Beta = 1
    Infinity = Infinity
    NoEdge = NoEdge
\* routes between hubs
    RouteHubs = {h1, h2, h3}
    EdgeIds = {e1, e2}
    SeedNodes = {h1, h2}
    SeedEdges <- MCSeedEdges
    Finds = {q1, q2}
    NodeCreates = {n1}
    EdgeCreates = {c1}
    EdgeUpdates = {u1, u2}
    Asked <- MCAsked
    Ends <- MCEnds
    NoRow = NoRow
    NoFind = NoFind
    NoKey = NoKey
\* routes of a courier
    TourFinds = {q1, q2}
    Places = {0, 2, 3, 4}
    Nowhere = 0
    Distance <- MCDistance
    ParcelLists <- MCParcelLists
    NoTour = NoTour
\* delivery-service
    Parcels = {p1}
    DeliveryCouriers = {k1}
    Hires = {i1}
    Moves = {m1}
    Assigns = {u1, u2}
    Reports = {q1, q2}
    Absent = Absent
    MaxAtOnce = 2
\* warehouse-service
    Receipts = {q1, q2}
    Dispatches = {u1, u2}
    Quantities <- MCQuantities
    Shelves = {z1}
    Table = TRUE
    NoItem = NoItem
    NoShelf = NoShelf
\* notification-service
    Sends = {s1}
    StatusEvents = {v1}
    TemplateCreates = {tc}
    TemplateEdits = {te}
    Templates = {w1, w2}
    SeedTemplates = {w1}
    Channels = {push, email}
    Push = push
    NoTemplate = NoTemplate
    MaxAttempts <- MCAttempts
\* the tariffs
    Lanes = {l1, l2}
    Zones = {"Z1"}
    Services = {"REG", "YES", "OKE", "SAME_DAY"}
    ZoneOf <- MCZoneOf
    Rates <- MCRates
    Oversize = 50
    NotFound = NotFound
    Weights <- MCWeights
    Sides <- MCSides
    OrderWeights <- MCOrderWeights
    MaxAnswers = 2
SPECIFICATION Spec
INVARIANTS
    ServicesTypeOK
    SearchIsCorrect
    StaleOnlyByOverlap
    ToursComplete
    AttemptsAccounted
    StockAccounted
    LogsAgree
    PricesOrdered
SYMMETRY Symmetry
CHECK_DEADLOCK FALSE
