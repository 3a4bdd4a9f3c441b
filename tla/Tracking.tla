------------------------------ MODULE Tracking ------------------------------
(***************************************************************************)
(* tracking-service.  POST /tracking/events stores an event and brings the *)
(* summary of its tracking number up to date in one PostgreSQL transaction *)
(* (READ COMMITTED); GET /tracking/{number} answers from two statements.   *)
(* Each request is a process, a statement is a step, and the statements of *)
(* concurrent requests interleave.                                         *)
(*                                                                         *)
(* A transaction takes a connection of the pool for as long as it is open. *)
(* PostgreSQL's part is modelled as far as the statements use it: a row    *)
(* lock that is held until the end of the transaction, and the conflicting *)
(* insert that waits for the transaction which inserted the row.           *)
(***************************************************************************)
EXTENDS Naturals, FiniteSets

CONSTANTS
    Numbers,    \* tracking numbers
    Posts,      \* POST requests; the generated event_id is the request itself
    Gets,       \* GET requests
    MaxTime,    \* bound: timestamps of events are in 1 .. MaxTime
    MaxConns,   \* size of the connection pool
    NoEvent,    \* no row, or an event not built yet
    NoNumber,   \* the number of a GET that has not arrived
    Nobody      \* the holder of a lock that is free

ASSUME TrackingAssumption ==
    /\ MaxTime \in Nat \ {0}
    /\ MaxConns \in Nat \ {0}
    /\ Posts \cap Gets = {}
    /\ Nobody \notin Posts
    /\ NoNumber \notin Numbers

\* An event stands for its status, too: the row of the summary is the event
\* whose status and timestamp it shows.
Event == [id : Posts, num : Numbers, time : 1 .. MaxTime]

ASSUME NoEventAssumption == NoEvent \notin Event

VARIABLES
    events,     \* table tracking_events, as committed
    summary,    \* table tracking_summary, as committed
    lock,       \* lock[n] : the transaction that holds the row of n in tracking_summary
    draft,      \* draft[q] : the row that the open transaction q has written
    pc,         \* pc[q] : the next statement of a request, or its answer
    event,      \* event[q] : the event in the body of POST q
    asked,      \* asked[g] : the number in the path of GET g
    seen,       \* seen[g] : the events that GET g has read
    shown       \* shown[g] : the row of the summary that GET g has read

vars == <<events, summary, lock, draft, pc, event, asked, seen, shown>>
tables == <<events, summary, lock, draft>>
reads == <<asked, seen, shown>>

InTransaction == {"lock", "insert", "upsert", "commit"}
Answered == {"ok", "error"}    \* 200 and 201; 400, 404, 422, 500 and 503

EventsOf(n) == {e \in events : e.num = n}

Continue(q, from, to) ==
    /\ pc[q] = from
    /\ pc' = [pc EXCEPT ![q] = to]

\* database/sql hands out at most MaxConns connections.
ConnectionFree == Cardinality({q \in Posts : pc[q] \in InTransaction}) < MaxConns

----------------------------------------------------------------------------
(* POST /tracking/events                                                    *)

Submit_NoTimestamp(q, n, t) ==
    /\ Continue(q, "new", "begin")
    /\ event' = [event EXCEPT ![q] = [id |-> q, num |-> n, time |-> 0]]
    /\ UNCHANGED <<tables, reads>>

\* The body is decoded and validated, the event built.
Submit(q, n, t) ==
    /\ Continue(q, "new", "begin")
    /\ event' = [event EXCEPT ![q] = [id |-> q, num |-> n, time |-> t]]
    /\ UNCHANGED <<tables, reads>>

Reject(q) ==
    /\ Continue(q, "new", "error")
    /\ UNCHANGED <<tables, event, reads>>

Begin(q) ==
    /\ ConnectionFree
    /\ Continue(q, "begin", "lock")
    /\ UNCHANGED <<tables, event, reads>>

\* SELECT ... FOR UPDATE: waits for the row, if there is a committed one.
LockSummary(q) ==
    LET n == event[q].num
    IN  /\ Continue(q, "lock", "insert")
        /\ IF summary[n] = NoEvent
           THEN UNCHANGED lock
           ELSE lock[n] = Nobody /\ lock' = [lock EXCEPT ![n] = q]
        /\ UNCHANGED <<events, summary, draft, event, reads>>

\* INSERT INTO tracking_events: nobody else sees it before the commit.
InsertEvent(q) ==
    /\ Continue(q, "insert", "upsert")
    /\ UNCHANGED <<tables, event, reads>>

Later_Always(row, e) == e

\* ON CONFLICT DO UPDATE ... WHERE updated_at < EXCLUDED.updated_at
Later(row, e) == IF row = NoEvent \/ row.time < e.time THEN e ELSE row

UpsertSummary_NoWait(q) ==
    LET n == event[q].num
    IN  /\ Continue(q, "upsert", "commit")
        /\ lock' = [lock EXCEPT ![n] = q]
        /\ draft' = [draft EXCEPT ![q] = Later(summary[n], event[q])]
        /\ UNCHANGED <<events, summary, event, reads>>

\* INSERT INTO tracking_summary ... ON CONFLICT: waits for a transaction that
\* holds the row or has inserted one, and locks the row it leaves alone, too.
UpsertSummary(q) ==
    LET n == event[q].num
    IN  /\ Continue(q, "upsert", "commit")
        /\ lock[n] \in {Nobody, q}
        /\ lock' = [lock EXCEPT ![n] = q]
        /\ draft' = [draft EXCEPT ![q] = Later(summary[n], event[q])]
        /\ UNCHANGED <<events, summary, event, reads>>

\* The end of a transaction: its locks and what it has not committed are gone.
Finish(q) ==
    /\ lock' = [n \in Numbers |-> IF lock[n] = q THEN Nobody ELSE lock[n]]
    /\ draft' = [draft EXCEPT ![q] = NoEvent]

Commit_SummaryOnly(q) ==
    /\ \E answer \in Answered : Continue(q, "commit", answer)
    /\ summary' = [summary EXCEPT ![event[q].num] = draft[q]]
    /\ Finish(q)
    /\ UNCHANGED <<events, event, reads>>

\* The commit takes effect; when its answer is lost or late the client reads
\* an error all the same.
Commit(q) ==
    /\ \E answer \in Answered : Continue(q, "commit", answer)
    /\ events' = events \cup {event[q]}
    /\ summary' = [summary EXCEPT ![event[q].num] = draft[q]]
    /\ Finish(q)
    /\ UNCHANGED <<event, reads>>

Fail_KeepsLock(q) ==
    /\ pc[q] \in {"begin"} \cup InTransaction
    /\ pc' = [pc EXCEPT ![q] = "error"]
    /\ UNCHANGED <<tables, event, reads>>

\* No connection before the deadline, a statement that fails or is cancelled,
\* a process that stops: the deferred Rollback, or PostgreSQL itself, undoes
\* the transaction.  The repository turns every missed deadline into
\* ErrPoolExhausted (503); any other error is a 500.
Fail(q) ==
    /\ pc[q] \in {"begin"} \cup InTransaction
    /\ pc' = [pc EXCEPT ![q] = "error"]
    /\ Finish(q)
    /\ UNCHANGED <<events, summary, event, reads>>

----------------------------------------------------------------------------
(* GET /tracking/{tracking_number}                                          *)

ReadEvents(g, n) ==
    /\ ConnectionFree
    /\ Continue(g, "new", IF EventsOf(n) = {} THEN "error" ELSE "summary")
    /\ asked' = [asked EXCEPT ![g] = n]
    /\ seen' = [seen EXCEPT ![g] = EventsOf(n)]
    /\ UNCHANGED <<tables, event, shown>>

ReadSummary(g) ==
    LET row == summary[asked[g]]
    IN  /\ ConnectionFree
        /\ Continue(g, "summary", IF row = NoEvent THEN "error" ELSE "ok")
        /\ shown' = [shown EXCEPT ![g] = row]
        /\ UNCHANGED <<tables, event, asked, seen>>

FailRead(g) ==
    /\ pc[g] \in {"new", "summary"}
    /\ pc' = [pc EXCEPT ![g] = "error"]
    /\ UNCHANGED <<tables, event, reads>>

----------------------------------------------------------------------------
Init ==
    /\ events = {}
    /\ summary = [n \in Numbers |-> NoEvent]
    /\ lock = [n \in Numbers |-> Nobody]
    /\ draft = [q \in Posts |-> NoEvent]
    /\ pc = [q \in Posts \cup Gets |-> "new"]
    /\ event = [q \in Posts |-> NoEvent]
    /\ asked = [g \in Gets |-> NoNumber]
    /\ seen = [g \in Gets |-> {}]
    /\ shown = [g \in Gets |-> NoEvent]

\* The service moves a POST that it has accepted.
Serve(q) ==
    Begin(q) \/ LockSummary(q) \/ InsertEvent(q) \/ UpsertSummary(q) \/ Commit(q)

PostStep(q) ==
    \/ \E n \in Numbers, t \in 1 .. MaxTime : Submit(q, n, t)
    \/ Reject(q)
    \/ Serve(q)
    \/ Fail(q)

GetStep(g) ==
    \/ \E n \in Numbers : ReadEvents(g, n)
    \/ ReadSummary(g)
    \/ FailRead(g)

Next ==
    \/ \E q \in Posts : PostStep(q)
    \/ \E g \in Gets : GetStep(g)

Spec == Init /\ [][Next]_vars

\* The goroutine of a request and the database go on; clients need not come,
\* and nothing has to fail.
Fairness ==
    /\ \A q \in Posts : WF_vars(Serve(q))
    /\ \A g \in Gets : WF_vars(ReadSummary(g))

FairSpec == Spec /\ Fairness

----------------------------------------------------------------------------
(* Properties                                                               *)

\* Every variable has its type.
TypeOK ==
    /\ events \in SUBSET Event
    /\ summary \in [Numbers -> Event \cup {NoEvent}]
    /\ lock \in [Numbers -> Posts \cup {Nobody}]
    /\ draft \in [Posts -> Event \cup {NoEvent}]
    /\ pc \in [Posts \cup Gets -> {"new", "begin", "summary"} \cup InTransaction \cup Answered]
    /\ event \in [Posts -> Event \cup {NoEvent}]
    /\ asked \in [Gets -> Numbers \cup {NoNumber}]
    /\ seen \in [Gets -> SUBSET Event]
    /\ shown \in [Gets -> Event \cup {NoEvent}]

\* The summary of a number exists exactly if the number has events, and it
\* shows an event of that number that no other one is newer than: although
\* the events come in any order of their timestamps and transactions overlap.
SummaryIsLatest ==
    \A n \in Numbers :
        IF EventsOf(n) = {}
        THEN summary[n] = NoEvent
        ELSE /\ summary[n] \in EventsOf(n)
             /\ \A e \in EventsOf(n) : e.time <= summary[n].time

\* What a transaction is about to commit was computed from the row as it
\* still is: nobody changes the row between its upsert and its commit.
DraftIsCurrent ==
    \A q \in Posts : pc[q] = "commit" =>
        /\ lock[event[q].num] = q
        /\ draft[q] = Later(summary[event[q].num], event[q])

\* An event that was answered 201 is stored, and what is stored belongs to a
\* request that has been answered: nothing of an open or failed transaction
\* is ever visible.
AckedPersisted ==
    /\ \A q \in Posts : pc[q] = "ok" => event[q] \in events
    /\ \A e \in events : pc[e.id] \in Answered /\ event[e.id] = e

\* A history answer never shows a status older than its own last entry: the
\* events are read first, and the summary only moves forward in between.
StatusNotBehindHistory ==
    \A g \in Gets :
        /\ pc[g] = "summary" => summary[asked[g]] # NoEvent
        /\ pc[g] = "ok" => \A e \in seen[g] : e.time <= shown[g].time

\* Events are never lost, a summary never disappears and never goes back in time.
NeverRegresses ==
    [][/\ events \subseteq events'
       /\ \A n \in Numbers : summary[n] # NoEvent =>
             \/ summary'[n] = summary[n]
             \/ summary'[n].time > summary[n].time]_vars

\* Every accepted POST and every GET that has read the events is answered,
\* without help of the deadline: transactions never block each other for good.
EveryRequestAnswered ==
    /\ \A q \in Posts : pc[q] = "begin" ~> pc[q] \in Answered
    /\ \A g \in Gets : pc[g] = "summary" ~> pc[g] \in Answered

\* Requirement 2: the current status of an answer is that of the most recent
\* event of the number, and the history has one entry per event.
StatusIsInHistory ==
    \A g \in Gets : pc[g] = "ok" => shown[g] \in seen[g]

----------------------------------------------------------------------------
(* Refinement                                                               *)

Log == INSTANCE TrackingLog WITH Events <- Event, log <- events, current <- summary

\* The transactions implement the log of events with its summary.
LogSpec == Log!Spec
=============================================================================
