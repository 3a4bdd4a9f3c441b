\* The repository that main.go uses, one receipt and two dispatches: nothing
\* fails, so that only requests that overlap can lose a movement.
CONSTANTS
    Receipts = {r1}
    Dispatches = {d1, d2}
    Quantities = {1, 2}
    Shelves = {z1}
    Table = FALSE
    NoItem = NoItem
    NoShelf = NoShelf
SPECIFICATION StockSpec
INVARIANTS
    NoMovementLost
CHECK_DEADLOCK FALSE
