------------------------------- MODULE Stock -------------------------------
(***************************************************************************)
(* warehouse-service: the stock of an item.  Receiving and dispatching     *)
(* read the item, compute and save the whole item.  There are two          *)
(* repositories.  The map in memory, the one that main.go uses, has a      *)
(* mutex, but each of the two calls takes it by itself.  The table of the  *)
(* PostgreSQL repository has an upsert, and its statements may fail; a     *)
(* receipt takes every failure of the lookup to mean that the item is new. *)
(*                                                                         *)
(* Quantities are not validated: a receipt of a negative quantity takes    *)
(* stock away without a check, and a dispatch of one adds to it.           *)
(***************************************************************************)
EXTENDS Integers

CONSTANTS
    Receipts, Dispatches,   \* POST /receive and /dispatch, all for one item
    Quantities,             \* what they may say
    Shelves,                \* locations
    Table,                  \* whether the repository is the table, not the map
    NoItem,                 \* the item is not stored, or was not found
    NoShelf                 \* a receipt that names no location

Movements == Receipts \cup Dispatches

ASSUME StockAssumption ==
    /\ Receipts \cap Dispatches = {}
    /\ Quantities \subseteq Int
    /\ Table \in BOOLEAN
    /\ NoItem \notin [quantity : Int, shelf : Shelves \cup {NoShelf}]

VARIABLES
    item,       \* the stored item
    task,       \* task[q] : the next step of request q, or its answer
    found,      \* found[q] : the item that q has read
    amount,     \* amount[q] : its quantity
    booked,     \* history: the movements that were saved
    moved,      \* history: the sum of what they brought in and took out
    disturbed   \* history: two requests overlapped, or a lookup failed

stockVars == <<item, task, found, amount, booked, moved, disturbed>>

Item == [quantity : Int, shelf : Shelves \cup {NoShelf}]

StockInit ==
    /\ item = NoItem
    /\ task = [q \in Movements |-> "start"]
    /\ found = [q \in Movements |-> NoItem]
    /\ amount = [q \in Movements |-> 0]
    /\ booked = {}
    /\ moved = [came |-> 0, went |-> 0]
    /\ disturbed = FALSE

Proceed(q, next) == task' = [task EXCEPT ![q] = next]

\* What a receipt may take the item to be: a lookup that fails looks to it like
\* an item that is not there.
GetItemByID == IF Table THEN {item, NoItem} ELSE {item}

\* Request q reads the item for a movement of n.
Looks(q, seen, n) ==
    /\ task[q] = "start"
    /\ found' = [found EXCEPT ![q] = seen]
    /\ amount' = [amount EXCEPT ![q] = n]
    /\ disturbed' = (disturbed \/ seen # item \/ \E p \in Movements : task[p] = "save")
    /\ UNCHANGED <<item, booked, moved>>

ReceiveItem(q, n) ==
    /\ \E seen \in GetItemByID : Looks(q, seen, n)
    /\ Proceed(q, "save")

\* Mutant: the stock is not compared with the quantity.
DispatchItem_Unchecked(q, n) ==
    \/ item # NoItem /\ Looks(q, item, n) /\ Proceed(q, "save")
    \/ /\ task[q] = "start"
       /\ Table \/ item = NoItem
       /\ Proceed(q, "failed")
       /\ UNCHANGED <<item, found, amount, booked, moved, disturbed>>

InStock(n) == item # NoItem /\ item.quantity >= n

\* 400 for an unknown item or too little stock; 500 if the lookup failed.
DispatchItem(q, n) ==
    \/ /\ InStock(n)
       /\ Looks(q, item, n)
       /\ Proceed(q, "save")
    \/ /\ task[q] = "start"
       /\ Table \/ ~InStock(n)
       /\ Proceed(q, "failed")
       /\ UNCHANGED <<item, found, amount, booked, moved, disturbed>>

\* What a movement makes of the item that it has read.
Moved(q, shelf) ==
    IF q \in Dispatches THEN [quantity |-> found[q].quantity - amount[q],
                              shelf |-> found[q].shelf]
    ELSE IF found[q] = NoItem THEN [quantity |-> amount[q], shelf |-> shelf]
    ELSE [quantity |-> found[q].quantity + amount[q],
          shelf |-> IF shelf = NoShelf THEN found[q].shelf ELSE shelf]

\* A save to the table may fail, or take effect and still end in an error.
SaveItem(q, shelf) ==
    /\ task[q] = "save"
    /\ \/ /\ item' = Moved(q, shelf)
          /\ booked' = booked \cup {q}
          /\ moved' = IF q \in Dispatches
                      THEN [came |-> moved.came, went |-> moved.went + amount[q]]
                      ELSE [came |-> moved.came + amount[q], went |-> moved.went]
          /\ \E answer \in IF Table THEN {"ok", "failed"} ELSE {"ok"} : Proceed(q, answer)
       \/ /\ Table
          /\ Proceed(q, "failed")
          /\ UNCHANGED <<item, booked, moved>>
    /\ found' = [found EXCEPT ![q] = NoItem]
    /\ UNCHANGED <<amount, disturbed>>

ReceiveStep(q) ==
    \/ \E n \in Quantities : ReceiveItem(q, n)
    \/ \E shelf \in Shelves \cup {NoShelf} : SaveItem(q, shelf)

DispatchStep(q) ==
    \/ \E n \in Quantities : DispatchItem(q, n)
    \/ SaveItem(q, NoShelf)

StockNext ==
    \/ \E q \in Receipts : ReceiveStep(q)
    \/ \E q \in Dispatches : DispatchStep(q)

StockSpec == StockInit /\ [][StockNext]_stockVars
-----------------------------------------------------------------------------
(* Properties                                                               *)

StockTypeOK ==
    /\ item \in Item \cup {NoItem}
    /\ task \in [Movements -> {"start", "save", "ok", "failed"}]
    /\ found \in [Movements -> Item \cup {NoItem}]
    /\ amount \in [Movements -> Quantities \cup {0}]
    /\ booked \subseteq Movements
    /\ moved \in [came : Int, went : Int]
    /\ disturbed \in BOOLEAN

\* Positive movements never make the stock negative, whatever overlaps; and as
\* long as no two of them overlap and no lookup fails, it is what came in less
\* what went out.
StockAccounted ==
    LET stored == IF item = NoItem THEN 0 ELSE item.quantity
    IN  /\ (\A q \in booked : amount[q] >= 0) => stored >= 0
        /\ ~disturbed => stored = moved.came - moved.went

\* What warehouse-service/readme.md:22 says of the mutex, that only one request at a time changes
\* the stock: then no movement is lost.
NoMovementLost ==
    (IF item = NoItem THEN 0 ELSE item.quantity) = moved.came - moved.went
=============================================================================
