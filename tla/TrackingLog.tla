---------------------------- MODULE TrackingLog ----------------------------
(***************************************************************************)
(* What tracking-service promises: an append-only log of events and, for   *)
(* each tracking number, the event its current status comes from.  An      *)
(* event enters the log and the summary in one step, and the summary moves *)
(* only to a strictly newer event.                                         *)
(***************************************************************************)
EXTENDS Naturals

CONSTANTS Numbers, Events, NoEvent

VARIABLES
    log,        \* the events recorded
    current     \* current[n] : the event that gives the status of n

vars == <<log, current>>

\* The row of the summary once event e is recorded.
Later(row, e) == IF row = NoEvent \/ row.time < e.time THEN e ELSE row

Init ==
    /\ log = {}
    /\ current = [n \in Numbers |-> NoEvent]

Append(e) ==
    /\ e \notin log
    /\ log' = log \cup {e}
    /\ current' = [current EXCEPT ![e.num] = Later(current[e.num], e)]

Next == \E e \in Events : Append(e)

Spec == Init /\ [][Next]_vars
=============================================================================
