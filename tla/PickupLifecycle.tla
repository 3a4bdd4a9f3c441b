-------------------------- MODULE PickupLifecycle --------------------------
(***************************************************************************)
(* What pickup-service promises about a pickup: it is scheduled once and   *)
(* then moves along the status machine only.  Collected and cancelled      *)
(* pickups never move again, and the attempts are the failed ones.         *)
(***************************************************************************)
EXTENDS Naturals

CONSTANT Pickups

VARIABLE state      \* state[p] : status and number of failed attempts

None == [status |-> "NONE", attempts |-> 0]

Init == state = [p \in Pickups |-> None]

Move(p, from, to, failures) ==
    /\ state[p].status = from
    /\ state' = [state EXCEPT ![p] =
                    [status |-> to, attempts |-> state[p].attempts + failures]]

Next == \E p \in Pickups :
    \/ Move(p, "NONE", "SCHEDULED", 0)
    \/ Move(p, "SCHEDULED", "ASSIGNED", 0)
    \/ Move(p, "SCHEDULED", "CANCELLED", 0)
    \/ Move(p, "ASSIGNED", "PICKED_UP", 0)
    \/ Move(p, "ASSIGNED", "FAILED_ATTEMPT", 1)
    \/ Move(p, "FAILED_ATTEMPT", "SCHEDULED", 0)

Spec == Init /\ [][Next]_state
=============================================================================
