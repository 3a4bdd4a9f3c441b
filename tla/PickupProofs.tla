---------------------------- MODULE PickupProofs ----------------------------
(***************************************************************************)
(* Proofs about Pickup, for every set of pickups, couriers and requests,   *)
(* every choice of the exclusive pickups and every number of requests in   *)
(* flight.                                                                 *)
(***************************************************************************)
EXTENDS Pickup, FiniteSetTheorems, TLAPS

USE PickupAssumption

Rows == [Pickups -> Row \cup {NoPickup}]
Drafts == [Changes -> Row \cup {NoPickup}]
Steps == [Requests -> {"new"} \cup InProgress \cup Answered]

\* A request that is under way or has written knows its pickup and its row.
Attached ==
    \A q \in Changes : pc[q] \in InProgress \/ q \in written =>
        /\ target[q] \in Pickups
        /\ draft[q] \in Row
        /\ pickups[target[q]] # NoPickup

\* A request writes once, and a pickup has a row once its request was served.
OnceWritten ==
    /\ \A q \in Changes : pc[q] \in {"new", "write"} => q \notin written
    /\ \A q \in Changes : pc[q] = "notify" => q \in written /\ q \in Updates
    /\ \A p \in Pickups : pc[p] = "new" => pickups[p] = NoPickup

\* Two requests for one exclusive pickup are never both under way.
OneAtATime ==
    \A q, r \in Changes :
        /\ pc[q] \in InProgress /\ pc[r] \in InProgress
        /\ target[q] = target[r] /\ target[q] \in Exclusive
        => q = r

\* What a request is about to write obeys AssignedFirst and AttemptsCounted.
DraftSound ==
    \A q \in Changes : pc[q] = "write" =>
        /\ draft[q].status \in {"PICKED_UP", "FAILED_ATTEMPT"} =>
              Writers(target[q], "ASSIGNED") # {}
        /\ draft[q].attempts <=
              Cardinality(Writers(target[q], "FAILED_ATTEMPT"))
                + IF draft[q].status = "FAILED_ATTEMPT" THEN 1 ELSE 0

IInv ==
    /\ TypeOK
    /\ Attached
    /\ OnceWritten
    /\ OneAtATime
    /\ DraftIsFresh
    /\ AssignedFirst
    /\ DraftSound
    /\ AttemptsCounted
    /\ AnnouncedIsWritten

----------------------------------------------------------------------------
(* Operators                                                                *)

\* A status update is a change.
LEMMA UpdatesChange == Updates \subseteq Changes
  BY DEF Changes

\* The state machine counts an attempt exactly when it is missed.
LEMMA TransitionRow ==
  ASSUME NEW row \in Row, NEW to \in Status
  PROVE  /\ Transition(row, to) \in Row
         /\ Transition(row, to).status = to
         /\ Transition(row, to).attempts =
               row.attempts + IF to = "FAILED_ATTEMPT" THEN 1 ELSE 0
<1>1. CASE to = "FAILED_ATTEMPT"
  BY <1>1 DEF Transition, Row
<1>2. CASE to # "FAILED_ATTEMPT"
  BY <1>2 DEF Transition, Row
<1> QED BY <1>1, <1>2

\* The writers of a status are finitely many.
LEMMA WritersFinite ==
  ASSUME TypeOK, NEW p, NEW s
  PROVE  IsFiniteSet(Writers(p, s)) /\ Cardinality(Writers(p, s)) \in Nat
<1>1. Writers(p, s) \subseteq Changes
  BY DEF Writers, TypeOK
<1> QED BY <1>1, FS_Subset, FS_CardinalityType

\* Every request that changes a pickup starts with a Read that computes its row
\* by the transition.
LEMMA ReadStepReads ==
  ASSUME TypeOK, NEW q \in Changes, ReadStep(q)
  PROVE  \E p \in Pickups, to \in Status : \E row :
            /\ Read(q, p, to, row)
            /\ pickups[p] # NoPickup =>
                  /\ row \in Row
                  /\ row.status = to
                  /\ row.attempts = Transition(pickups[p], to).attempts
<1>1. PICK p \in Pickups :
        \/ \E k \in Couriers \cup {NoCourier} : AssignCourier(q, p, k)
        \/ \E s \in Status : UpdatePickupStatus(q, p, s)
        \/ CancelPickup(q, p)
  BY DEF ReadStep
<1>2. pickups[p] \in Row \cup {NoPickup}
  BY DEF TypeOK
<1>3. ASSUME NEW k \in Couriers \cup {NoCourier}, AssignCourier(q, p, k)
      PROVE  \E to \in Status : \E row :
                /\ Read(q, p, to, row)
                /\ pickups[p] # NoPickup =>
                      /\ row \in Row
                      /\ row.status = to
                      /\ row.attempts = Transition(pickups[p], to).attempts
  <2> DEFINE row == [Transition(pickups[p], "ASSIGNED") EXCEPT !.courier = k]
  <2>1. Read(q, p, "ASSIGNED", row)
    BY <1>3 DEF AssignCourier
  <2>2. "ASSIGNED" \in Status
    BY DEF Status
  <2>3. ASSUME pickups[p] # NoPickup
        PROVE  /\ row \in Row
               /\ row.status = "ASSIGNED"
               /\ row.attempts = Transition(pickups[p], "ASSIGNED").attempts
    <3>1. Transition(pickups[p], "ASSIGNED") \in Row
             /\ Transition(pickups[p], "ASSIGNED").status = "ASSIGNED"
      BY <1>2, <2>2, <2>3, TransitionRow
    <3> QED BY <3>1 DEF Row
  <2> HIDE DEF row
  <2> QED BY <2>1, <2>2, <2>3
<1>4. ASSUME NEW s \in Status, Read(q, p, s, Transition(pickups[p], s))
      PROVE  \E to \in Status : \E row :
                /\ Read(q, p, to, row)
                /\ pickups[p] # NoPickup =>
                      /\ row \in Row
                      /\ row.status = to
                      /\ row.attempts = Transition(pickups[p], to).attempts
  <2>1. pickups[p] # NoPickup =>
          Transition(pickups[p], s) \in Row /\ Transition(pickups[p], s).status = s
    BY <1>2, TransitionRow
  <2> QED BY <1>4, <2>1
<1>5. "CANCELLED" \in Status
  BY DEF Status
<1> QED BY <1>1, <1>3, <1>4, <1>5 DEF UpdatePickupStatus, CancelPickup

----------------------------------------------------------------------------
(* The inductive invariant                                                  *)

\* Nothing is under way in the initial state.
LEMMA InitInv == Init => IInv
<1> SUFFICES ASSUME Init PROVE IInv
  OBVIOUS
<1>1. \A q \in Requests : pc[q] = "new"
  BY DEF Init
<1>2. Changes \subseteq Requests /\ Pickups \subseteq Requests
  BY DEF Requests, Pickups
<1>3. TypeOK
  BY DEF Init, TypeOK
<1>4. Attached /\ OnceWritten /\ OneAtATime /\ DraftIsFresh /\ DraftSound
  BY <1>1, <1>2 DEF Init, Attached, OnceWritten, OneAtATime, DraftIsFresh, DraftSound, InProgress
<1>5. AssignedFirst /\ AttemptsCounted
  BY DEF Init, AssignedFirst, AttemptsCounted
<1>6. AnnouncedIsWritten
  BY <1>1, <1>2, UpdatesChange DEF Init, AnnouncedIsWritten
<1> QED BY <1>3, <1>4, <1>5, <1>6 DEF IInv

\* A request without statements, an announcement and an abort change no row,
\* no draft and not who has written.
LEMMA QuietStep ==
  ASSUME IInv,
         \/ \E q \in Requests : Reject(q)
         \/ \E q \in Changes : Notify(q) \/ Abort(q)
  PROVE  IInv'
<1> USE DEF IInv
<1>1. PICK q \in Requests :
        /\ \/ pc[q] = "new" /\ pc' = [pc EXCEPT ![q] = "failed"] /\ notified' = notified
           \/ /\ q \in Changes /\ pc[q] = "notify" /\ (\E answer \in Answered : pc' = [pc EXCEPT ![q] = answer])
              /\ notified' = notified \cup {q}
           \/ /\ q \in Changes /\ pc[q] \in InProgress /\ notified' = notified
              /\ pc' = [pc EXCEPT ![q] = "failed"]
        /\ UNCHANGED <<pickups, target, draft, written>>
  BY DEF Reject, Notify, Abort, Requests
<1>2. pc \in Steps /\ Changes \subseteq Requests /\ Pickups \subseteq Requests
  BY DEF TypeOK, Steps, Requests, Pickups
<1>3. \A r \in Requests : pc'[r] \in InProgress => pc[r] = pc'[r]
  BY <1>1, <1>2 DEF InProgress, Answered, Steps
<1>4. \A r \in Requests : pc'[r] = "new" => pc[r] = "new"
  BY <1>1, <1>2 DEF Answered, Steps
<1>5. q \in Updates \/ notified' = notified
  BY <1>1 DEF OnceWritten
<1>6. TypeOK'
  BY <1>1, <1>2, <1>5 DEF TypeOK, Steps, Answered
<1>7. Attached'
  BY <1>1, <1>2, <1>3 DEF Attached
<1>8. OnceWritten'
  BY <1>1, <1>2, <1>3, <1>4 DEF OnceWritten, InProgress
<1>9. OneAtATime'
  BY <1>1, <1>2, <1>3 DEF OneAtATime
<1>10. DraftIsFresh' /\ DraftSound'
  BY <1>1, <1>2, <1>3 DEF DraftIsFresh, DraftSound, InProgress, Writers
<1>11. AssignedFirst' /\ AttemptsCounted'
  BY <1>1 DEF AssignedFirst, AttemptsCounted, Writers
<1>12. AnnouncedIsWritten'
  BY <1>1, <1>2, UpdatesChange DEF AnnouncedIsWritten, OnceWritten, Steps
<1> QED BY <1>6, <1>7, <1>8, <1>9, <1>10, <1>11, <1>12

\* A new pickup has no row and no request, so nothing refers to it.
LEMMA RequestStep ==
  ASSUME IInv, NEW q \in Creates, RequestPickup(q)
  PROVE  IInv'
<1> USE DEF IInv
<1> DEFINE row == [status |-> "SCHEDULED", courier |-> NoCourier, attempts |-> 0]
<1>1. /\ pc[q] = "new" /\ pickups' = [pickups EXCEPT ![q] = row]
      /\ UNCHANGED <<target, draft, written, notified>>
  BY DEF RequestPickup
<1>2. PICK answer \in Answered : pc' = [pc EXCEPT ![q] = answer]
  BY DEF RequestPickup
<1>3. row \in Row
  BY DEF Row, Status
<1>4. pickups[q] = NoPickup /\ q \in Pickups /\ q \in Requests /\ q \notin Changes
  BY <1>1 DEF OnceWritten, Pickups, Requests
<1>5. pc \in Steps /\ pickups \in Rows /\ Changes \subseteq Requests /\ Pickups \subseteq Requests
  BY DEF TypeOK, Steps, Rows, Requests, Pickups
<1>6. \A r \in Changes : pc'[r] = pc[r]
  BY <1>2, <1>4, <1>5 DEF Steps
<1>7. \A p \in Pickups : p # q => pickups'[p] = pickups[p]
  BY <1>1, <1>5 DEF Rows
<1>8. pickups'[q] = row
  BY <1>1, <1>4, <1>5 DEF Rows
<1>9. row # NoPickup
  BY <1>3
<1>10. \A p, s : Writers(p, s)' = Writers(p, s)
  BY <1>1 DEF Writers
<1>11. \A s : Writers(q, s) = {}
  <2>1. written \subseteq Changes
    BY DEF TypeOK
  <2> QED BY <1>4, <2>1 DEF Writers, Attached
<1>12. \A r \in Changes : pc[r] \in InProgress => target[r] # q
  BY <1>4 DEF Attached
<1> HIDE DEF row
<1>13. TypeOK'
  BY <1>1, <1>2, <1>3, <1>5 DEF TypeOK, Steps, Rows, Answered
<1>14. Attached'
  BY <1>1, <1>6, <1>7, <1>8, <1>9 DEF Attached
<1>15. OnceWritten'
  BY <1>1, <1>2, <1>4, <1>5, <1>6, <1>7 DEF OnceWritten, Steps, Answered
<1>16. OneAtATime'
  BY <1>1, <1>6 DEF OneAtATime
<1>17. DraftIsFresh'
  BY <1>1, <1>6, <1>7, <1>12 DEF DraftIsFresh, Attached, InProgress
<1>18. DraftSound'
  BY <1>1, <1>6, <1>10 DEF DraftSound
<1>19. AssignedFirst'
  BY <1>7, <1>8, <1>10 DEF AssignedFirst, row
<1>20. AttemptsCounted'
  <2>1. Cardinality({}) = 0
    BY FS_EmptySet
  <2>2. \A p \in Pickups : p # q => pickups'[p] = pickups[p]
    BY <1>7
  <2>3. pickups'[q].attempts = Cardinality(Writers(q, "FAILED_ATTEMPT"))
    BY <1>8, <1>11, <2>1 DEF row
  <2>4. Cardinality(Writers(q, "FAILED_ATTEMPT")) \in Nat
    BY WritersFinite
  <2> QED BY <1>10, <2>2, <2>3, <2>4 DEF AttemptsCounted
<1>21. AnnouncedIsWritten'
  BY <1>1, <1>6, UpdatesChange DEF AnnouncedIsWritten
<1> QED BY <1>13, <1>14, <1>15, <1>16, <1>17, <1>18, <1>19, <1>20, <1>21

\* A request that has read an existing pickup and may move it is new to it: if
\* the pickup is exclusive, no other request is under way.
LEMMA ReadInv ==
  ASSUME IInv, NEW q \in Changes, ReadStep(q)
  PROVE  IInv'
<1> USE DEF IInv
<1>0. PICK p \in Pickups, to \in Status :
        \E row : /\ Read(q, p, to, row)
                 /\ pickups[p] # NoPickup =>
                       /\ row \in Row
                       /\ row.status = to
                       /\ row.attempts = Transition(pickups[p], to).attempts
  BY ReadStepReads
<1>1. PICK row :
        /\ Read(q, p, to, row)
        /\ pickups[p] # NoPickup =>
              /\ row \in Row
              /\ row.status = to
              /\ row.attempts = Transition(pickups[p], to).attempts
  BY <1>0
<1>2. /\ pc[q] = "new" /\ UNCHANGED <<pickups, written, notified>>
      /\ Changes \subseteq Requests /\ Pickups \subseteq Requests /\ q \notin Pickups
  BY <1>1 DEF Read, Requests, Pickups
<1>3. pc \in Steps /\ target \in [Changes -> Pickups \cup {NoPickup}] /\ draft \in Drafts
  BY DEF TypeOK, Steps, Drafts
<1>4. q \notin written
  BY <1>2 DEF OnceWritten
<1>5. \A r \in Requests : r # q => pc'[r] = pc[r]
  BY <1>1, <1>3 DEF Read, Steps
<1>6. \A r \in Changes : r # q => target'[r] = target[r] /\ draft'[r] = draft[r]
  BY <1>1, <1>3 DEF Read, Drafts
<1>7. \A p1, s : Writers(p1, s)' = Writers(p1, s)
  <2>1. written \subseteq Changes
    BY DEF TypeOK
  <2> QED BY <1>2, <1>4, <1>6, <2>1 DEF Writers
<1>8. CASE pc'[q] = "failed" /\ UNCHANGED <<target, draft>>
  <2>1. TypeOK'
    BY <1>1, <1>2, <1>3, <1>8 DEF TypeOK, Read, Steps, Answered, InProgress
  <2>2. Attached' /\ OnceWritten' /\ OneAtATime'
    BY <1>2, <1>5, <1>8 DEF Attached, OnceWritten, OneAtATime, InProgress
  <2>3. DraftIsFresh' /\ DraftSound'
    BY <1>2, <1>5, <1>7, <1>8 DEF DraftIsFresh, DraftSound
  <2>4. AssignedFirst' /\ AttemptsCounted'
    BY <1>2, <1>7 DEF AssignedFirst, AttemptsCounted
  <2>5. AnnouncedIsWritten'
    BY <1>2, <1>5, <1>8, UpdatesChange DEF AnnouncedIsWritten
  <2> QED BY <2>1, <2>2, <2>3, <2>4, <2>5
<1>9. CASE /\ pickups[p] # NoPickup /\ <<pickups[p].status, to>> \in Transitions
           /\ pc' = [pc EXCEPT ![q] = "write"]
           /\ target' = [target EXCEPT ![q] = p]
           /\ draft' = [draft EXCEPT ![q] = row]
  <2>1. pickups[p] \in Row /\ row \in Row /\ row.status = to
    BY <1>1, <1>9 DEF TypeOK
  <2>2. row.attempts = pickups[p].attempts + IF to = "FAILED_ATTEMPT" THEN 1 ELSE 0
    BY <1>1, <1>9, <2>1, TransitionRow
  <2>3. pc'[q] = "write" /\ target'[q] = p /\ draft'[q] = row
    BY <1>2, <1>3, <1>9 DEF Steps, Drafts
  <2>4. TypeOK'
    BY <1>2, <1>3, <1>9, <2>1 DEF TypeOK, Steps, Drafts, InProgress
  <2>5. Attached'
    BY <1>2, <1>4, <1>5, <1>6, <1>9, <2>1, <2>3 DEF Attached
  <2>6. OnceWritten'
    BY <1>2, <1>4, <1>5, <2>3 DEF OnceWritten
  <2>7. p \in Exclusive => \A r \in Changes : pc[r] \in InProgress => target[r] # p
    BY <1>1 DEF Read, Admit, Busy
  <2>8. OneAtATime'
    BY <1>2, <1>5, <1>6, <2>3, <2>7 DEF OneAtATime
  <2>9. DraftIsFresh'
    BY <1>1, <1>2, <1>5, <1>6, <1>9, <2>1, <2>3 DEF DraftIsFresh
  <2>10. DraftSound'
    <3>1. to \in {"PICKED_UP", "FAILED_ATTEMPT"} => pickups[p].status = "ASSIGNED"
      BY <1>9 DEF Transitions
    <3>2. pickups[p].status = "ASSIGNED" => Writers(p, "ASSIGNED") # {}
      BY <1>9 DEF AssignedFirst
    <3>3. pickups[p].attempts <= Cardinality(Writers(p, "FAILED_ATTEMPT"))
      BY <1>9 DEF AttemptsCounted
    <3>4. pickups[p].attempts \in Nat /\ Cardinality(Writers(p, "FAILED_ATTEMPT")) \in Nat
      BY <2>1, WritersFinite DEF Row
    <3>5. row.attempts <= Cardinality(Writers(p, "FAILED_ATTEMPT"))
                            + IF row.status = "FAILED_ATTEMPT" THEN 1 ELSE 0
      BY <2>1, <2>2, <3>3, <3>4
    <3> QED BY <1>2, <1>5, <1>6, <1>7, <2>1, <2>3, <3>1, <3>2, <3>5 DEF DraftSound
  <2>11. AssignedFirst' /\ AttemptsCounted'
    BY <1>2, <1>7 DEF AssignedFirst, AttemptsCounted
  <2>12. AnnouncedIsWritten'
    BY <1>2, <1>5, <1>6, <2>3, UpdatesChange DEF AnnouncedIsWritten
  <2> QED BY <2>4, <2>5, <2>6, <2>8, <2>9, <2>10, <2>11, <2>12
<1>10. pc' = [pc EXCEPT ![q] = "failed"] => pc'[q] = "failed"
  BY <1>2, <1>3 DEF Steps
<1> QED BY <1>1, <1>8, <1>9, <1>10 DEF Read

\* The UPDATE puts the draft in the place of the row; only its own pickup moves.
LEMMA UpdateInv ==
  ASSUME IInv, NEW q \in Changes, UpdatePickup(q)
  PROVE  IInv'
<1> USE DEF IInv
<1>a. PICK p, row : p = target[q] /\ row = draft[q]
  OBVIOUS
<1>1. /\ pc[q] = "write" /\ pickups' = [pickups EXCEPT ![p] = row]
      /\ written' = written \cup {q}
      /\ UNCHANGED <<target, draft, notified>>
  BY <1>a DEF UpdatePickup
<1>2. PICK next \in AfterUpdate(q) : pc' = [pc EXCEPT ![q] = next]
  BY DEF UpdatePickup
<1>3. p \in Pickups /\ row \in Row /\ pickups[p] # NoPickup /\ q \notin written
  BY <1>1, <1>a DEF Attached, OnceWritten, InProgress
<1>4. pc \in Steps /\ pickups \in Rows /\ Changes \subseteq Requests /\ Pickups \subseteq Requests
      /\ q \notin Pickups
  BY DEF TypeOK, Steps, Rows, Requests, Pickups
<1>5. next \in {"failed", "notify", "ok"} /\ pc'[q] = next
  BY <1>2, <1>4 DEF AfterUpdate, Steps
<1>6. next = "notify" => q \in Updates
  BY DEF AfterUpdate
<1>7. next = "ok" /\ q \in Updates => row.status # "FAILED_ATTEMPT"
  BY <1>a DEF AfterUpdate
<1>8. \A r \in Requests : r # q => pc'[r] = pc[r]
  BY <1>2, <1>4 DEF Steps
<1>9. pickups'[p] = row /\ \A p1 \in Pickups : p1 # p => pickups'[p1] = pickups[p1]
  BY <1>1, <1>3, <1>4 DEF Rows
<1>10. row # NoPickup
  BY <1>3
<1>11. \A p1, s : Writers(p1, s)' = IF p1 = p /\ s = row.status
                                   THEN Writers(p1, s) \cup {q} ELSE Writers(p1, s)
  BY <1>1, <1>a DEF Writers
<1>12. \A p1, s : Cardinality(Writers(p1, s))' =
                    Cardinality(Writers(p1, s)) + IF p1 = p /\ s = row.status THEN 1 ELSE 0
  <2> SUFFICES ASSUME NEW p1, NEW s
               PROVE  Cardinality(Writers(p1, s))' =
                        Cardinality(Writers(p1, s)) + IF p1 = p /\ s = row.status THEN 1 ELSE 0
    OBVIOUS
  <2>1. IsFiniteSet(Writers(p1, s)) /\ Cardinality(Writers(p1, s)) \in Nat
    BY WritersFinite
  <2>2. q \notin Writers(p1, s)
    BY <1>3 DEF Writers
  <2>3. CASE p1 = p /\ s = row.status
    <3>1. Writers(p1, s)' = Writers(p1, s) \cup {q}
      BY <1>11, <2>3
    <3>2. Cardinality(Writers(p1, s) \cup {q}) = Cardinality(Writers(p1, s)) + 1
      BY <2>1, <2>2, FS_AddElement
    <3> QED BY <2>3, <3>1, <3>2
  <2>4. CASE ~ (p1 = p /\ s = row.status)
    BY <1>11, <2>1, <2>4
  <2> QED BY <2>3, <2>4
<1>13. TypeOK'
  BY <1>1, <1>2, <1>3, <1>4, <1>5 DEF TypeOK, Steps, Rows, InProgress, Answered
<1>14. Attached'
  <2>1. \A p1 \in Pickups : pickups[p1] # NoPickup => pickups'[p1] # NoPickup
    BY <1>9, <1>10
  <2>2. \A r \in Changes : pc'[r] \in InProgress \/ r \in written' =>
          pc[r] \in InProgress \/ r \in written
    BY <1>1, <1>4, <1>8 DEF InProgress
  <2> QED BY <1>1, <2>1, <2>2 DEF Attached
<1>15. OnceWritten'
  BY <1>1, <1>3, <1>4, <1>5, <1>6, <1>8, <1>9 DEF OnceWritten, Attached, TypeOK, Pickups
<1>16. OneAtATime'
  BY <1>1, <1>4, <1>8 DEF OneAtATime, InProgress
<1>17. DraftIsFresh'
  <2> SUFFICES ASSUME NEW r \in Changes, pc'[r] = "write", target[r] \in Exclusive
               PROVE  /\ pickups'[target[r]] = pickups[target[r]]
                      /\ pc[r] = "write"
    BY <1>1 DEF DraftIsFresh
  <2>1. r # q /\ pc[r] = "write"
    BY <1>4, <1>5, <1>8
  <2>2. target[r] # p
    BY <1>1, <2>1, <1>a DEF OneAtATime, InProgress
  <2> QED BY <1>9, <2>1, <2>2 DEF Pickups
<1>18. DraftSound'
  <2> SUFFICES ASSUME NEW r \in Changes, pc'[r] = "write", NEW t, t = target[r]
               PROVE  /\ draft[r].status \in {"PICKED_UP", "FAILED_ATTEMPT"} =>
                            Writers(t, "ASSIGNED")' # {}
                      /\ draft[r].attempts <=
                            Cardinality(Writers(t, "FAILED_ATTEMPT"))'
                              + IF draft[r].status = "FAILED_ATTEMPT" THEN 1 ELSE 0
    BY <1>1 DEF DraftSound
  <2>1. pc[r] = "write"
    BY <1>4, <1>5, <1>8
  <2>2. Writers(t, "ASSIGNED") \subseteq Writers(t, "ASSIGNED")'
    BY <1>11
  <2>3. Cardinality(Writers(t, "FAILED_ATTEMPT")) \in Nat
    BY WritersFinite
  <2>4. Cardinality(Writers(t, "FAILED_ATTEMPT"))' \in Nat
        /\ Cardinality(Writers(t, "FAILED_ATTEMPT"))
             <= Cardinality(Writers(t, "FAILED_ATTEMPT"))'
    BY <1>12, <2>3
  <2>5. draft[r].attempts \in Nat
    BY <2>1 DEF Attached, InProgress, Row
  <2>6. /\ draft[r].status \in {"PICKED_UP", "FAILED_ATTEMPT"} => Writers(t, "ASSIGNED") # {}
        /\ draft[r].attempts <= Cardinality(Writers(t, "FAILED_ATTEMPT"))
                                  + IF draft[r].status = "FAILED_ATTEMPT" THEN 1 ELSE 0
    BY <2>1 DEF DraftSound
  <2> QED BY <2>2, <2>3, <2>4, <2>5, <2>6
<1>19. AssignedFirst'
  <2>1. \A p1 : Writers(p1, "ASSIGNED") \subseteq Writers(p1, "ASSIGNED")'
    BY <1>11
  <2>2. row.status \in {"PICKED_UP", "FAILED_ATTEMPT"} => Writers(p, "ASSIGNED") # {}
    BY <1>1, <1>a DEF DraftSound
  <2>3. row.status = "ASSIGNED" => q \in Writers(p, "ASSIGNED")'
    BY <1>11
  <2> QED BY <1>9, <2>1, <2>2, <2>3 DEF AssignedFirst
<1>20. AttemptsCounted'
  <2> SUFFICES ASSUME NEW p1 \in Pickups, pickups'[p1] # NoPickup
               PROVE  /\ pickups'[p1].attempts <= Cardinality(Writers(p1, "FAILED_ATTEMPT"))'
                      /\ p1 \in Exclusive =>
                           pickups'[p1].attempts = Cardinality(Writers(p1, "FAILED_ATTEMPT"))'
    BY DEF AttemptsCounted
  <2>1. Cardinality(Writers(p1, "FAILED_ATTEMPT")) \in Nat
    BY WritersFinite
  <2>2. CASE p1 # p
    BY <1>9, <1>12, <2>1, <2>2 DEF AttemptsCounted
  <2>3. CASE p1 = p
    <3>1. Cardinality(Writers(p, "FAILED_ATTEMPT"))' =
            Cardinality(Writers(p, "FAILED_ATTEMPT"))
              + IF row.status = "FAILED_ATTEMPT" THEN 1 ELSE 0
      BY <1>12
    <3>2. row.attempts <= Cardinality(Writers(p, "FAILED_ATTEMPT"))
                            + IF row.status = "FAILED_ATTEMPT" THEN 1 ELSE 0
      BY <1>1, <1>a DEF DraftSound
    <3>3. ASSUME p \in Exclusive
          PROVE  row.attempts = Cardinality(Writers(p, "FAILED_ATTEMPT"))
                                  + IF row.status = "FAILED_ATTEMPT" THEN 1 ELSE 0
      <4>1. row.attempts = Transition(pickups[p], row.status).attempts
        BY <1>1, <3>3, <1>a DEF DraftIsFresh
      <4>2. pickups[p] \in Row /\ row.status \in Status
        BY <1>3 DEF TypeOK, Row
      <4>3. Transition(pickups[p], row.status).attempts =
              pickups[p].attempts + IF row.status = "FAILED_ATTEMPT" THEN 1 ELSE 0
        BY <4>2, TransitionRow
      <4>4. pickups[p].attempts = Cardinality(Writers(p, "FAILED_ATTEMPT"))
        BY <1>3, <3>3 DEF AttemptsCounted
      <4> QED BY <4>1, <4>3, <4>4
    <3> QED BY <1>9, <2>3, <3>1, <3>2, <3>3
  <2> QED BY <2>2, <2>3
<1>21. AnnouncedIsWritten'
  BY <1>1, <1>4, <1>5, <1>7, <1>8, UpdatesChange, <1>a DEF AnnouncedIsWritten
<1> QED BY <1>13, <1>14, <1>15, <1>16, <1>17, <1>18, <1>19, <1>20, <1>21

\* Every step preserves the inductive invariant.
LEMMA NextInv == IInv /\ [Next]_vars => IInv'
<1> SUFFICES ASSUME IInv, [Next]_vars PROVE IInv'
  OBVIOUS
<1>1. ASSUME NEW q \in Creates, RequestPickup(q) PROVE IInv'
  BY <1>1, RequestStep
<1>2. ASSUME NEW q \in Requests, Reject(q) PROVE IInv'
  BY <1>2, QuietStep
<1>3. ASSUME NEW q \in Changes, ReadStep(q) PROVE IInv'
  BY <1>3, ReadInv
<1>4. ASSUME NEW q \in Changes, UpdatePickup(q) PROVE IInv'
  BY <1>4, UpdateInv
<1>5. ASSUME NEW q \in Changes, Notify(q) \/ Abort(q) PROVE IInv'
  BY <1>5, QuietStep
<1>6. CASE UNCHANGED vars
  <2>1. \A p, s : Writers(p, s)' = Writers(p, s)
    BY <1>6 DEF vars, Writers
  <2> QED BY <1>6, <2>1 DEF vars, IInv, TypeOK, Attached, OnceWritten, OneAtATime, DraftIsFresh,
                        AssignedFirst, DraftSound, AttemptsCounted, AnnouncedIsWritten
<1> QED BY <1>1, <1>2, <1>3, <1>4, <1>5, <1>6 DEF Next

----------------------------------------------------------------------------
(* Theorems                                                                 *)

\* The inductive invariant holds in every reachable state.
THEOREM Inductive == Spec => []IInv
  BY InitInv, NextInv, PTL DEF Spec

\* The table and the requests keep their types.
THEOREM TypeCorrect == Spec => []TypeOK
<1>1. IInv => TypeOK
  BY DEF IInv
<1> QED BY <1>1, Inductive, PTL

\* However requests overlap, no parcel is collected or missed unassigned.
THEOREM AssignmentsComeFirst == Spec => []AssignedFirst
<1>1. IInv => AssignedFirst
  BY DEF IInv
<1> QED BY <1>1, Inductive, PTL

\* Attempts are bounded by the failures written, and exact without overlap.
THEOREM AttemptsAreCounted == Spec => []AttemptsCounted
<1>1. IInv => AttemptsCounted
  BY DEF IInv
<1> QED BY <1>1, Inductive, PTL

\* What was announced or answered 200 is in the table.
THEOREM AnnouncedAreWritten == Spec => []AnnouncedIsWritten
<1>1. IInv => AnnouncedIsWritten
  BY DEF IInv
<1> QED BY <1>1, Inductive, PTL

\* Nobody touches an exclusive pickup between the read and the write of a request.
THEOREM DraftsAreFresh == Spec => []DraftIsFresh
<1>1. IInv => DraftIsFresh
  BY DEF IInv
<1> QED BY <1>1, Inductive, PTL

----------------------------------------------------------------------------
(* Refinement                                                               *)

\* The state of the lifecycle that row stands for.
Shown(row) == IF row = NoPickup
              THEN [status |-> "NONE", attempts |-> 0]
              ELSE [status |-> row.status, attempts |-> row.attempts]

\* A step that writes one row changes the state of that pickup only.
LEMMA StateAfterWrite ==
  ASSUME pickups \in Rows, NEW p \in Pickups, NEW row,
         pickups' = [pickups EXCEPT ![p] = row]
  PROVE  /\ p \in Exclusive => state' = [state EXCEPT ![p] = Shown(row)]
         /\ p \notin Exclusive => state' = state
<1>1. \A p1 \in Exclusive : p1 \in Pickups
  BY DEF Pickups
<1>2. state = [p1 \in Exclusive |-> Shown(pickups[p1])]
  BY DEF state, Shown
<1>3. state' = [p1 \in Exclusive |-> Shown(pickups'[p1])]
  BY DEF state, Shown
<1>4. \A p1 \in Exclusive : pickups'[p1] = IF p1 = p THEN row ELSE pickups[p1]
  BY <1>1 DEF Rows
<1> QED BY <1>2, <1>3, <1>4

\* Every step of the service is a move of the status machine or a stutter.
LEMMA StepIsMove ==
  ASSUME IInv, [Next]_vars
  PROVE  Lifecycle!Next \/ UNCHANGED state
<1> USE DEF IInv
<1>1. pickups \in Rows /\ Exclusive \subseteq Pickups
  BY DEF TypeOK, Rows, Pickups
<1>2. ASSUME NEW q \in Creates, RequestPickup(q) PROVE Lifecycle!Next \/ UNCHANGED state
  <2> DEFINE row == [status |-> "SCHEDULED", courier |-> NoCourier, attempts |-> 0]
  <2>1. pickups' = [pickups EXCEPT ![q] = row] /\ q \in Pickups /\ pickups[q] = NoPickup
    BY <1>2 DEF RequestPickup, OnceWritten, Pickups
  <2>2. row \in Row
    BY DEF Row, Status
  <2>3. Shown(row) = [status |-> "SCHEDULED", attempts |-> 0]
    BY <2>2 DEF Shown
  <2>4. CASE q \in Exclusive
    <3>1. state' = [state EXCEPT ![q] = Shown(row)]
      BY <1>1, <2>1, <2>4, StateAfterWrite
    <3>2. state[q] = [status |-> "NONE", attempts |-> 0]
      BY <2>1, <2>4 DEF state
    <3>3. state[q].status = "NONE" /\ state[q].attempts + 0 = 0
      BY <3>2
    <3>4. state' = [state EXCEPT ![q] = [status |-> "SCHEDULED", attempts |-> state[q].attempts + 0]]
      BY <2>3, <3>1, <3>3
    <3>5. Lifecycle!Move(q, "NONE", "SCHEDULED", 0)
      BY <3>3, <3>4 DEF Lifecycle!Move
    <3> QED BY <2>4, <3>5 DEF Lifecycle!Next
  <2>5. CASE q \notin Exclusive
    BY <1>1, <2>1, <2>5, StateAfterWrite
  <2> QED BY <2>4, <2>5
<1>3. ASSUME NEW q \in Changes, UpdatePickup(q) PROVE Lifecycle!Next \/ UNCHANGED state
  <2>1. PICK p, row : p = target[q] /\ row = draft[q]
    OBVIOUS
  <2>2. pc[q] = "write" /\ pickups' = [pickups EXCEPT ![p] = row]
    BY <1>3, <2>1 DEF UpdatePickup
  <2>3. p \in Pickups /\ row \in Row /\ pickups[p] \in Row
    BY <2>1, <2>2 DEF Attached, InProgress, TypeOK
  <2>4. CASE p \in Exclusive
    <3>1. <<pickups[p].status, row.status>> \in Transitions
          /\ row.attempts = Transition(pickups[p], row.status).attempts
      BY <2>1, <2>2, <2>4 DEF DraftIsFresh
    <3>2. row.attempts = pickups[p].attempts + IF row.status = "FAILED_ATTEMPT" THEN 1 ELSE 0
      BY <2>3, <3>1, TransitionRow DEF Row
    <3>3. state[p] = [status |-> pickups[p].status, attempts |-> pickups[p].attempts]
      BY <2>3, <2>4 DEF state
    <3>4. Shown(row) = [status |-> row.status, attempts |-> row.attempts]
      BY <2>3 DEF Shown
    <3>5. state' = [state EXCEPT ![p] = Shown(row)]
      BY <1>1, <2>2, <2>3, <2>4, StateAfterWrite
    <3>6. Lifecycle!Move(p, pickups[p].status, row.status,
                         IF row.status = "FAILED_ATTEMPT" THEN 1 ELSE 0)
      BY <3>2, <3>3, <3>4, <3>5 DEF Lifecycle!Move
    <3> QED BY <2>4, <3>1, <3>6 DEF Lifecycle!Next, Transitions
  <2>5. CASE p \notin Exclusive
    BY <1>1, <2>2, <2>3, <2>5, StateAfterWrite
  <2> QED BY <2>4, <2>5
<1>4. ASSUME pickups' = pickups PROVE UNCHANGED state
  BY <1>4 DEF state
<1>5. ASSUME NEW q \in Changes, ReadStep(q) PROVE pickups' = pickups
  BY <1>5 DEF ReadStep, AssignCourier, UpdatePickupStatus, CancelPickup, Read
<1>6. ASSUME NEW q \in Requests, Reject(q) PROVE pickups' = pickups
  BY <1>6 DEF Reject
<1>7. ASSUME NEW q \in Changes, Notify(q) \/ Abort(q) PROVE pickups' = pickups
  BY <1>7 DEF Notify, Abort
<1>8. CASE UNCHANGED vars
  BY <1>4, <1>8 DEF vars
<1> QED BY <1>2, <1>3, <1>4, <1>5, <1>6, <1>7, <1>8 DEF Next

\* Pickups whose requests do not overlap follow the status machine, however
\* much the requests of other pickups overlap around them.
THEOREM ImplementsLifecycle == Spec => LifecycleSpec
<1>1. Init => Lifecycle!Init
  BY DEF Init, Lifecycle!Init, Lifecycle!None, state, Pickups
<1>2. IInv /\ [Next]_vars => [Lifecycle!Next]_state
  BY StepIsMove
<1> QED BY <1>1, <1>2, Inductive, PTL DEF Spec, LifecycleSpec, Lifecycle!Spec
=============================================================================
