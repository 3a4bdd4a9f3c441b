--------------------------- MODULE TrackingProofs ---------------------------
(***************************************************************************)
(* Proofs about Tracking, for every set of tracking numbers and requests,  *)
(* every pool size and every range of timestamps.                          *)
(***************************************************************************)
EXTENDS Tracking, TLAPS

USE TrackingAssumption, NoEventAssumption

Rows == [Numbers -> Event \cup {NoEvent}]
Locks == [Numbers -> Posts \cup {Nobody}]

\* The events of requests that are being served.
EventBuilt ==
    \A q \in Posts : pc[q] \in {"begin"} \cup InTransaction =>
        event[q] \in Event /\ event[q].id = q

\* What a GET has read are stored events of the number it was asked for.
SeenStored ==
    \A g \in Gets :
        /\ seen[g] \subseteq events
        /\ pc[g] = "summary" =>
              /\ asked[g] \in Numbers
              /\ seen[g] # {}
              /\ \A e \in seen[g] : e.num = asked[g]

----------------------------------------------------------------------------
(* Types                                                                    *)

\* The upsert writes the new event or keeps the row.
LEMMA LaterRow ==
  ASSUME NEW row \in Event \cup {NoEvent}, NEW e \in Event
  PROVE  /\ Later(row, e) \in {row, e}
         /\ Later(row, e) \in Event
         /\ e.time <= Later(row, e).time
         /\ row # NoEvent => row.time <= Later(row, e).time
         /\ row # NoEvent => Later(row, e) = row \/ Later(row, e).time > row.time
  BY DEF Later, Event

\* The initial state has its types.
LEMMA TypeInit == Init => TypeOK
  BY DEF Init, TypeOK, InTransaction, Answered

\* A step of a POST keeps the types.
LEMMA TypePost ==
  ASSUME TypeOK, EventBuilt, NEW q \in Posts, PostStep(q)
  PROVE  TypeOK'
<1> USE DEF TypeOK, Continue, tables, reads, InTransaction, Answered
<1>1. ASSUME NEW n \in Numbers, NEW t \in 1 .. MaxTime, Submit(q, n, t) PROVE TypeOK'
  <2>1. [id |-> q, num |-> n, time |-> t] \in Event
    BY DEF Event
  <2> QED BY <1>1, <2>1 DEF Submit
<1>2. CASE Reject(q)
  BY <1>2 DEF Reject
<1>3. CASE Begin(q)
  BY <1>3 DEF Begin
<1>4. CASE LockSummary(q)
  <2>1. lock' \in Locks
    BY <1>4 DEF LockSummary, Locks
  <2> QED BY <1>4, <2>1 DEF LockSummary, Locks
<1>5. CASE InsertEvent(q)
  BY <1>5 DEF InsertEvent
<1>6. CASE UpsertSummary(q)
  <2>1. event[q] \in Event
    BY <1>6 DEF UpsertSummary, EventBuilt
  <2>2. summary[event[q].num] \in Event \cup {NoEvent}
    BY <2>1 DEF Event
  <2>3. Later(summary[event[q].num], event[q]) \in Event
    BY <2>1, <2>2, LaterRow
  <2> QED BY <1>6, <2>3 DEF UpsertSummary
<1>7. CASE Commit(q)
  <2>1. event[q] \in Event
    BY <1>7 DEF Commit, EventBuilt
  <2>2. lock' \in Locks /\ draft' \in [Posts -> Event \cup {NoEvent}]
    BY <1>7 DEF Commit, Finish, Locks
  <2>3. summary' \in Rows /\ events' \in SUBSET Event
    BY <1>7, <2>1 DEF Commit, Rows
  <2> QED BY <1>7, <2>2, <2>3 DEF Commit, Locks, Rows
<1>8. CASE Fail(q)
  <2>1. lock' \in Locks /\ draft' \in [Posts -> Event \cup {NoEvent}]
    BY <1>8 DEF Fail, Finish, Locks
  <2> QED BY <1>8, <2>1 DEF Fail, Locks
<1> QED
  BY <1>1, <1>2, <1>3, <1>4, <1>5, <1>6, <1>7, <1>8 DEF PostStep, Serve

\* A step of a GET keeps the types.
LEMMA TypeGet ==
  ASSUME TypeOK, SeenStored, NEW g \in Gets, GetStep(g)
  PROVE  TypeOK'
<1> USE DEF TypeOK, Continue, tables, reads, InTransaction, Answered
<1>1. ASSUME NEW n \in Numbers, ReadEvents(g, n) PROVE TypeOK'
  BY <1>1 DEF ReadEvents, EventsOf
<1>2. CASE ReadSummary(g)
  <2>1. asked[g] \in Numbers
    BY <1>2 DEF ReadSummary, SeenStored
  <2> QED BY <1>2, <2>1 DEF ReadSummary
<1>3. CASE FailRead(g)
  BY <1>3 DEF FailRead
<1> QED BY <1>1, <1>2, <1>3 DEF GetStep

----------------------------------------------------------------------------
(* Strengthening: what requests know                                        *)

\* A POST that is served keeps the event it was built with.
LEMMA BuiltStep == TypeOK /\ EventBuilt /\ [Next]_vars => EventBuilt'
<1> SUFFICES ASSUME TypeOK, EventBuilt, [Next]_vars, NEW q \in Posts,
                    pc'[q] \in {"begin"} \cup InTransaction
             PROVE  event'[q] \in Event /\ event'[q].id = q
  BY DEF EventBuilt
<1> USE DEF TypeOK, EventBuilt, Continue, tables, reads, InTransaction, Answered
<1>1. ASSUME NEW p \in Posts, PostStep(p) PROVE event'[q] \in Event /\ event'[q].id = q
  <2>1. ASSUME NEW n \in Numbers, NEW t \in 1 .. MaxTime, Submit(p, n, t)
        PROVE  event'[q] \in Event /\ event'[q].id = q
    <3>1. [id |-> p, num |-> n, time |-> t] \in Event
      BY DEF Event
    <3> QED BY <2>1, <3>1 DEF Submit
  <2>2. CASE Reject(p)
    BY <2>2 DEF Reject
  <2>3. CASE Serve(p)
    BY <2>3 DEF Serve, Begin, LockSummary, InsertEvent, UpsertSummary, Commit
  <2>4. CASE Fail(p)
    BY <2>4 DEF Fail
  <2> QED BY <1>1, <2>1, <2>2, <2>3, <2>4 DEF PostStep
<1>2. ASSUME NEW g \in Gets, GetStep(g) PROVE event'[q] \in Event /\ event'[q].id = q
  BY <1>2 DEF GetStep, ReadEvents, ReadSummary, FailRead
<1>3. CASE UNCHANGED vars
  BY <1>3 DEF vars
<1> QED BY <1>1, <1>2, <1>3 DEF Next

\* Only a commit changes the tables that others read.
LEMMA OnlyCommit ==
  ASSUME [Next]_vars
  PROVE  \/ UNCHANGED <<events, summary>>
         \/ \E q \in Posts : Commit(q)
  BY DEF Next, PostStep, Serve, GetStep, Submit, Reject, Begin, LockSummary,
         InsertEvent, UpsertSummary, Fail, ReadEvents, ReadSummary, FailRead,
         tables, vars

\* What a GET has read stays stored.
LEMMA SeenStep == TypeOK /\ SeenStored /\ [Next]_vars => SeenStored'
<1> SUFFICES ASSUME TypeOK, SeenStored, [Next]_vars PROVE SeenStored'
  OBVIOUS
<1>1. events \subseteq events'
  BY OnlyCommit DEF Commit
<1>2. ASSUME NEW p \in Posts, PostStep(p) PROVE SeenStored'
  <2>1. UNCHANGED reads /\ \A g \in Gets : pc'[g] = pc[g]
    BY <1>2 DEF PostStep, Submit, Reject, Serve, Begin, LockSummary, InsertEvent,
                UpsertSummary, Commit, Fail, Continue, TypeOK
  <2> QED BY <1>1, <2>1 DEF SeenStored, reads
<1>3. ASSUME NEW g \in Gets, GetStep(g) PROVE SeenStored'
  <2>1. ASSUME NEW n \in Numbers, ReadEvents(g, n) PROVE SeenStored'
    BY <1>1, <2>1 DEF ReadEvents, Continue, SeenStored, TypeOK, EventsOf
  <2>2. CASE ReadSummary(g) \/ FailRead(g)
    BY <1>1, <2>2 DEF ReadSummary, FailRead, Continue, SeenStored, TypeOK, reads
  <2> QED BY <1>3, <2>1, <2>2 DEF GetStep
<1>4. CASE UNCHANGED vars
  BY <1>1, <1>4 DEF vars, SeenStored
<1> QED BY <1>2, <1>3, <1>4 DEF Next

----------------------------------------------------------------------------
(* Safety                                                                   *)

\* Nobody changes a row between the upsert of a transaction and its commit.
LEMMA DraftStep == TypeOK /\ EventBuilt /\ DraftIsCurrent /\ [Next]_vars => DraftIsCurrent'
<1> SUFFICES ASSUME TypeOK, EventBuilt, DraftIsCurrent, [Next]_vars,
                    NEW q \in Posts, pc'[q] = "commit"
             PROVE  /\ lock'[event'[q].num] = q
                    /\ draft'[q] = Later(summary'[event'[q].num], event'[q])
  BY DEF DraftIsCurrent
<1> DEFINE n == event[q].num
           Goal == /\ lock'[event'[q].num] = q
                   /\ draft'[q] = Later(summary'[event'[q].num], event'[q])
<1> USE DEF TypeOK, Continue, tables, reads
<1>1. ASSUME NEW p \in Posts, PostStep(p), p # q PROVE Goal
  <2>1. pc[q] = "commit"
    BY <1>1 DEF PostStep, Submit, Reject, Serve, Begin, LockSummary, InsertEvent,
                UpsertSummary, Commit, Fail
  <2>2. event[q] \in Event /\ n \in Numbers
    BY <2>1 DEF EventBuilt, InTransaction, Event
  <2>3. lock[n] = q /\ draft[q] = Later(summary[n], event[q])
    BY <2>1 DEF DraftIsCurrent
  <2>4. event'[q] = event[q] /\ draft'[q] = draft[q]
    BY <1>1 DEF PostStep, Submit, Reject, Serve, Begin, LockSummary, InsertEvent,
                UpsertSummary, Commit, Fail, Finish
  <2>5. lock'[n] = q
    <3>1. CASE LockSummary(p)
      BY <1>1, <2>2, <2>3, <3>1 DEF LockSummary
    <3>2. CASE UpsertSummary(p)
      BY <1>1, <2>2, <2>3, <3>2 DEF UpsertSummary
    <3>3. CASE Commit(p) \/ Fail(p)
      BY <1>1, <2>2, <2>3, <3>3 DEF Commit, Fail, Finish
    <3> QED BY <1>1, <2>3, <3>1, <3>2, <3>3 DEF PostStep, Serve, Submit, Reject, Begin, InsertEvent
  <2>6. summary'[n] = summary[n]
    <3>1. CASE Commit(p)
      <4>1. lock[event[p].num] = p
        BY <3>1 DEF Commit, DraftIsCurrent
      <4> QED BY <1>1, <2>2, <2>3, <3>1, <4>1 DEF Commit
    <3> QED BY <1>1, <3>1 DEF PostStep, Serve, Submit, Reject, Begin, LockSummary,
                              InsertEvent, UpsertSummary, Fail
  <2> QED BY <2>3, <2>4, <2>5, <2>6
<1>2. CASE PostStep(q)
  <2>1. UpsertSummary(q)
    BY <1>2 DEF PostStep, Submit, Reject, Serve, Begin, LockSummary, InsertEvent, Commit,
                Fail, Answered
  <2>2. event[q] \in Event /\ n \in Numbers
    BY <2>1 DEF UpsertSummary, EventBuilt, InTransaction, Event
  <2> QED BY <2>1, <2>2 DEF UpsertSummary
<1>3. ASSUME NEW g \in Gets, GetStep(g) PROVE Goal
  BY <1>3 DEF GetStep, ReadEvents, ReadSummary, FailRead, DraftIsCurrent
<1>4. CASE UNCHANGED vars
  BY <1>4 DEF vars, DraftIsCurrent
<1> QED BY <1>1, <1>2, <1>3, <1>4 DEF Next

\* A commit adds its event and moves the summary to it if it is newer.
LEMMA CommitEffect ==
  ASSUME TypeOK, EventBuilt, DraftIsCurrent, NEW q \in Posts, Commit(q)
  PROVE  /\ event[q] \in Event /\ event[q].id = q /\ event[q].num \in Numbers
         /\ events' = events \cup {event[q]}
         /\ summary' = [summary EXCEPT ![event[q].num] =
                           Later(summary[event[q].num], event[q])]
<1>1. event[q] \in Event /\ event[q].id = q
  BY DEF Commit, Continue, EventBuilt, InTransaction
<1>2. event[q].num \in Numbers
  BY <1>1 DEF Event
<1>3. draft[q] = Later(summary[event[q].num], event[q])
  BY DEF Commit, Continue, DraftIsCurrent
<1> QED BY <1>1, <1>2, <1>3 DEF Commit

\* A summary shows the newest of its number's events after a commit, too.
LEMMA LatestStep ==
  TypeOK /\ EventBuilt /\ DraftIsCurrent /\ SummaryIsLatest /\ [Next]_vars => SummaryIsLatest'
<1> SUFFICES ASSUME TypeOK, EventBuilt, DraftIsCurrent, SummaryIsLatest, [Next]_vars
             PROVE  SummaryIsLatest'
  OBVIOUS
<1>1. CASE UNCHANGED <<events, summary>>
  BY <1>1 DEF SummaryIsLatest, EventsOf
<1>2. ASSUME NEW q \in Posts, Commit(q) PROVE SummaryIsLatest'
  <2> DEFINE e == event[q]
             n == e.num
  <2>1. /\ e \in Event /\ n \in Numbers
        /\ events' = events \cup {e}
        /\ summary' = [summary EXCEPT ![n] = Later(summary[n], e)]
    BY <1>2, CommitEffect
  <2> SUFFICES ASSUME NEW m \in Numbers
               PROVE  IF EventsOf(m)' = {}
                      THEN summary'[m] = NoEvent
                      ELSE /\ summary'[m] \in EventsOf(m)'
                           /\ \A f \in EventsOf(m)' : f.time <= summary'[m].time
    BY DEF SummaryIsLatest, EventsOf
  <2>2. EventsOf(m)' = IF m = n THEN EventsOf(m) \cup {e} ELSE EventsOf(m)
    BY <2>1 DEF EventsOf
  <2>3. CASE m # n
    BY <2>1, <2>2, <2>3 DEF SummaryIsLatest, TypeOK
  <2>4. CASE m = n
    <3>1. summary'[m] = Later(summary[m], e)
      BY <2>1, <2>4 DEF TypeOK
    <3>2. CASE EventsOf(m) = {}
      <4>1. summary'[m] = e
        BY <3>1, <3>2 DEF SummaryIsLatest, Later
      <4> QED BY <2>1, <2>2, <2>4, <3>2, <4>1 DEF Event
    <3>3. CASE EventsOf(m) # {}
      <4>1. summary[m] \in EventsOf(m) /\ \A f \in EventsOf(m) : f.time <= summary[m].time
        BY <3>3 DEF SummaryIsLatest
      <4>2. summary[m] \in Event /\ summary[m] # NoEvent
        BY <4>1 DEF TypeOK, EventsOf
      <4>3. /\ summary'[m] \in {summary[m], e}
            /\ e.time <= summary'[m].time /\ summary[m].time <= summary'[m].time
            /\ summary'[m] \in Event
        BY <2>1, <3>1, <4>2, LaterRow
      <4>4. ASSUME NEW f \in EventsOf(m)' PROVE f.time <= summary'[m].time
        <5>1. f = e \/ (f \in EventsOf(m) /\ f \in Event)
          BY <2>2, <2>4 DEF EventsOf, TypeOK
        <5>2. CASE f = e
          BY <4>3, <5>2
        <5>3. CASE f \in EventsOf(m) /\ f \in Event
          <6>1. f.time \in Nat /\ summary[m].time \in Nat /\ summary'[m].time \in Nat
            BY <4>2, <4>3, <5>3 DEF Event
          <6> QED BY <4>1, <4>3, <5>3, <6>1
        <5> QED BY <5>1, <5>2, <5>3
      <4> QED BY <2>2, <2>4, <4>1, <4>3, <4>4
    <3> QED BY <3>2, <3>3
  <2> QED BY <2>3, <2>4
<1> QED BY <1>1, <1>2, OnlyCommit

\* An event is stored exactly when its request has passed the commit.
LEMMA AckedStep ==
  TypeOK /\ EventBuilt /\ DraftIsCurrent /\ AckedPersisted /\ [Next]_vars => AckedPersisted'
<1> SUFFICES ASSUME TypeOK, EventBuilt, DraftIsCurrent, AckedPersisted, [Next]_vars
             PROVE  AckedPersisted'
  OBVIOUS
<1> USE DEF TypeOK, Continue, tables, reads, InTransaction, Answered
<1>1. ASSUME NEW p \in Posts, PostStep(p) PROVE AckedPersisted'
  <2>1. CASE Commit(p)
    <3>1. event[p] \in Event /\ event[p].id = p /\ events' = events \cup {event[p]}
      BY <2>1, CommitEffect
    <3>2. \A e \in events : e \in Event /\ e.id \in Posts
      BY DEF Event
    <3> QED BY <2>1, <3>1, <3>2 DEF Commit, AckedPersisted
  <2>2. CASE ~ Commit(p)
    <3>1. /\ events' = events /\ pc[p] \notin Answered /\ pc'[p] # "ok"
          /\ \A q \in Posts \ {p} : pc'[q] = pc[q] /\ event'[q] = event[q]
      BY <1>1, <2>2 DEF PostStep, Submit, Reject, Serve, Begin, LockSummary, InsertEvent,
                        UpsertSummary, Fail
    <3>2. \A e \in events : e.id \in Posts /\ e.id # p
      BY <3>1 DEF AckedPersisted, Event
    <3> QED BY <3>1, <3>2 DEF AckedPersisted
  <2> QED BY <2>1, <2>2
<1>2. ASSUME NEW g \in Gets, GetStep(g) PROVE AckedPersisted'
  <2>1. UNCHANGED <<events, event>> /\ \A q \in Posts : pc'[q] = pc[q]
    BY <1>2 DEF GetStep, ReadEvents, ReadSummary, FailRead
  <2>2. \A e \in events : e.id \in Posts
    BY DEF Event
  <2> QED BY <2>1, <2>2 DEF AckedPersisted
<1>3. CASE UNCHANGED vars
  BY <1>3 DEF vars, AckedPersisted
<1> QED BY <1>1, <1>2, <1>3 DEF Next

\* Between the two reads of a GET the summary only moves forward.
LEMMA StatusStep ==
  /\ TypeOK /\ TypeOK' /\ SeenStored /\ SummaryIsLatest /\ SummaryIsLatest'
  /\ StatusNotBehindHistory /\ [Next]_vars
  => StatusNotBehindHistory'
<1> SUFFICES ASSUME TypeOK, TypeOK', SeenStored, SummaryIsLatest, SummaryIsLatest',
                    StatusNotBehindHistory, [Next]_vars, NEW g \in Gets
             PROVE  /\ pc'[g] = "summary" => summary'[asked'[g]] # NoEvent
                    /\ pc'[g] = "ok" => \A e \in seen'[g] : e.time <= shown'[g].time
  BY DEF StatusNotBehindHistory
<1> DEFINE Goal == /\ pc'[g] = "summary" => summary'[asked'[g]] # NoEvent
                   /\ pc'[g] = "ok" => \A e \in seen'[g] : e.time <= shown'[g].time
<1> USE DEF TypeOK, Continue, tables, reads
<1>1. ASSUME NEW n \in Numbers, EventsOf(n) # {} PROVE summary[n] \in EventsOf(n)
  BY <1>1 DEF SummaryIsLatest
<1>2. ASSUME pc'[g] = pc[g], asked'[g] = asked[g], seen'[g] = seen[g], shown'[g] = shown[g]
      PROVE  Goal
  <2>1. CASE pc[g] = "summary"
    <3>1. asked[g] \in Numbers /\ EventsOf(asked[g]) # {}
      BY <2>1 DEF SeenStored, EventsOf
    <3>2. events \subseteq events'
      BY OnlyCommit DEF Commit
    <3>3. EventsOf(asked[g])' # {}
      BY <1>2, <3>1, <3>2 DEF EventsOf
    <3>4. summary'[asked[g]] \in events'
      BY <1>2, <3>1, <3>3 DEF SummaryIsLatest, EventsOf
    <3>5. summary'[asked[g]] # NoEvent
      BY <3>4
    <3> QED BY <1>2, <2>1, <3>5
  <2>2. CASE pc[g] # "summary"
    BY <1>2, <2>2 DEF StatusNotBehindHistory
  <2> QED BY <2>1, <2>2
<1>3. ASSUME NEW p \in Posts, PostStep(p) PROVE Goal
  <2>1. pc'[g] = pc[g] /\ UNCHANGED reads
    BY <1>3 DEF PostStep, Serve, Submit, Reject, Begin, LockSummary, InsertEvent,
                UpsertSummary, Commit, Fail
  <2> QED BY <1>2, <2>1
<1>4. ASSUME NEW h \in Gets, GetStep(h), h # g PROVE Goal
  <2>1. pc'[g] = pc[g] /\ asked'[g] = asked[g] /\ seen'[g] = seen[g] /\ shown'[g] = shown[g]
    BY <1>4 DEF GetStep, ReadEvents, ReadSummary, FailRead
  <2> QED BY <1>2, <2>1
<1>5. CASE GetStep(g)
  <2>1. ASSUME NEW n \in Numbers, ReadEvents(g, n) PROVE Goal
    <3>1. asked'[g] = n /\ summary' = summary /\ pc'[g] # "ok"
      BY <2>1 DEF ReadEvents
    <3>2. CASE EventsOf(n) = {}
      BY <2>1, <3>1, <3>2 DEF ReadEvents
    <3>3. CASE EventsOf(n) # {}
      BY <1>1, <3>1, <3>3 DEF EventsOf
    <3> QED BY <3>2, <3>3
  <2>2. CASE ReadSummary(g)
    <3>1. /\ asked[g] \in Numbers
          /\ \A e \in seen[g] : e \in EventsOf(asked[g])
          /\ seen[g] # {}
      BY <2>2 DEF ReadSummary, SeenStored, EventsOf
    <3>2. \A e \in seen[g] : e.time <= summary[asked[g]].time
      BY <3>1 DEF SummaryIsLatest
    <3>3. shown'[g] = summary[asked[g]] /\ seen' = seen /\ pc'[g] # "summary"
      BY <2>2, <3>1 DEF ReadSummary
    <3> QED BY <3>2, <3>3
  <2>3. CASE FailRead(g)
    BY <2>3 DEF FailRead
  <2> QED BY <1>5, <2>1, <2>2, <2>3 DEF GetStep
<1>6. CASE UNCHANGED vars
  BY <1>2, <1>6 DEF vars
<1> QED BY <1>3, <1>4, <1>5, <1>6 DEF Next

----------------------------------------------------------------------------
(* The inductive invariant                                                  *)

\* Everything the steps need to know of each other.
IInv ==
    /\ TypeOK
    /\ EventBuilt
    /\ SeenStored
    /\ DraftIsCurrent
    /\ SummaryIsLatest
    /\ AckedPersisted
    /\ StatusNotBehindHistory

\* The inductive invariant holds of the empty tables.
LEMMA IInvInit == Init => IInv
<1> SUFFICES ASSUME Init PROVE IInv
  OBVIOUS
<1>1. TypeOK
  BY TypeInit
<1>2. EventBuilt /\ SeenStored /\ DraftIsCurrent
  BY DEF Init, EventBuilt, SeenStored, DraftIsCurrent, InTransaction
<1>3. SummaryIsLatest /\ AckedPersisted /\ StatusNotBehindHistory
  BY DEF Init, SummaryIsLatest, AckedPersisted, StatusNotBehindHistory, EventsOf
<1> QED BY <1>1, <1>2, <1>3 DEF IInv

\* Every step of the service preserves the inductive invariant.
LEMMA IInvStep == IInv /\ [Next]_vars => IInv'
<1> SUFFICES ASSUME IInv, [Next]_vars PROVE IInv'
  OBVIOUS
<1>1. TypeOK'
  <2>1. CASE UNCHANGED vars
    BY <2>1 DEF vars, TypeOK, IInv
  <2> QED BY <2>1, TypePost, TypeGet DEF Next, IInv
<1>2. EventBuilt' /\ SeenStored' /\ DraftIsCurrent' /\ AckedPersisted'
  BY BuiltStep, SeenStep, DraftStep, AckedStep DEF IInv
<1>3. SummaryIsLatest'
  BY LatestStep DEF IInv
<1>4. StatusNotBehindHistory'
  BY <1>1, <1>3, StatusStep DEF IInv
<1> QED BY <1>1, <1>2, <1>3, <1>4 DEF IInv

\* The inductive invariant holds in every reachable state.
THEOREM Inductive == Spec => []IInv
  BY IInvInit, IInvStep, PTL DEF Spec

\* The variables keep their types, for any number of requests.
THEOREM TypeCorrect == Spec => []TypeOK
<1>1. IInv => TypeOK
  BY DEF IInv
<1> QED BY <1>1, Inductive, PTL

\* The summary always shows the newest event of its number.
THEOREM SummariesAreLatest == Spec => []SummaryIsLatest
<1>1. IInv => SummaryIsLatest
  BY DEF IInv
<1> QED BY <1>1, Inductive, PTL

\* What a transaction is about to commit fits the row as it still is.
THEOREM DraftsAreCurrent == Spec => []DraftIsCurrent
<1>1. IInv => DraftIsCurrent
  BY DEF IInv
<1> QED BY <1>1, Inductive, PTL

\* An event that was answered 201 is stored, and nothing else is but answered ones.
THEOREM AckedArePersisted == Spec => []AckedPersisted
<1>1. IInv => AckedPersisted
  BY DEF IInv
<1> QED BY <1>1, Inductive, PTL

\* A history answer never shows a status older than its own last entry.
THEOREM StatusesNotBehind == Spec => []StatusNotBehindHistory
<1>1. IInv => StatusNotBehindHistory
  BY DEF IInv
<1> QED BY <1>1, Inductive, PTL

\* Events are never lost and summaries never go back in time.
THEOREM NoRegress == Spec => NeverRegresses
<1> DEFINE Forward ==
      /\ events \subseteq events'
      /\ \A n \in Numbers : summary[n] # NoEvent =>
            \/ summary'[n] = summary[n]
            \/ summary'[n].time > summary[n].time
<1>1. IInv /\ [Next]_vars => Forward
  <2> SUFFICES ASSUME IInv, [Next]_vars PROVE Forward
    OBVIOUS
  <2>1. CASE UNCHANGED <<events, summary>>
    BY <2>1
  <2>2. ASSUME NEW q \in Posts, Commit(q) PROVE Forward
    <3>1. /\ event[q] \in Event /\ event[q].num \in Numbers
          /\ events' = events \cup {event[q]}
          /\ summary' = [summary EXCEPT ![event[q].num] =
                            Later(summary[event[q].num], event[q])]
      BY <2>2, CommitEffect DEF IInv
    <3>2. \A n \in Numbers : summary[n] \in Event \cup {NoEvent}
      BY DEF IInv, TypeOK
    <3>3. summary \in [Numbers -> Event \cup {NoEvent}]
      BY DEF IInv, TypeOK
    <3>4. ASSUME NEW n \in Numbers, summary[n] # NoEvent
          PROVE  summary'[n] = summary[n] \/ summary'[n].time > summary[n].time
      <4>1. CASE n = event[q].num
        <5>1. summary'[n] = Later(summary[n], event[q])
          BY <3>1, <3>3, <4>1
        <5> QED BY <3>1, <3>2, <3>4, <5>1, LaterRow
      <4>2. CASE n # event[q].num
        BY <3>1, <3>3, <4>2
      <4> QED BY <4>1, <4>2
    <3> QED BY <3>1, <3>4
  <2> QED BY <2>1, <2>2, OnlyCommit
<1>2. IInv /\ [Next]_vars => [Forward]_vars
  BY <1>1
<1> QED BY <1>2, Inductive, PTL DEF Spec, NeverRegresses

----------------------------------------------------------------------------
(* Refinement                                                               *)

\* The transactions implement the log with its summary: a commit is the
\* atomic append, every other step leaves the log alone.
THEOREM ImplementsLog == Spec => LogSpec
<1>1. Init => Log!Init
  BY DEF Init, Log!Init
<1>2. IInv /\ [Next]_vars => [Log!Next]_(Log!vars)
  <2> SUFFICES ASSUME IInv, [Next]_vars PROVE [Log!Next]_(Log!vars)
    OBVIOUS
  <2>1. CASE UNCHANGED <<events, summary>>
    BY <2>1 DEF Log!vars
  <2>2. ASSUME NEW q \in Posts, Commit(q) PROVE Log!Next
    <3>1. /\ event[q] \in Event /\ event[q].id = q
          /\ events' = events \cup {event[q]}
          /\ summary' = [summary EXCEPT ![event[q].num] =
                            Later(summary[event[q].num], event[q])]
      BY <2>2, CommitEffect DEF IInv
    <3>2. event[q] \notin events
      BY <2>2, <3>1 DEF Commit, Continue, IInv, AckedPersisted, Answered
    <3>3. Log!Append(event[q])
      BY <3>1, <3>2 DEF Log!Append, Log!Later, Later
    <3> QED BY <3>1, <3>3 DEF Log!Next
  <2> QED BY <2>1, <2>2, OnlyCommit
<1> QED BY <1>1, <1>2, Inductive, PTL DEF Spec, LogSpec, Log!Spec
=============================================================================
