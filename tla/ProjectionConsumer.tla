-------------------------- MODULE ProjectionConsumer --------------------------
(***************************************************************************)
(* The incident persistence consumer                                       *)
(* (crates/simulation/src/projection_consumer.rs) over the shared consume  *)
(* loop: every record is folded into the in-memory projection and written  *)
(* through to Postgres (incident rows, job rows) and ClickHouse (analytics *)
(* rows, append only). Each event type has its own topic, so only the      *)
(* records of one partition come in order. The projection is empty after   *)
(* a restart (IncidentProjection::new), the stores are not.                *)
(*                                                                         *)
(* skipped is history: records committed after a permanent fault.          *)
(***************************************************************************)
EXTENDS ConsumerLoop, IncidentFold

CONSTANTS
    MaxFaults,      \* bound: store faults, rebalances and restarts together
    MaxCrashes      \* bound: restarts of the service among them

ASSUME BoundsAssumption == MaxFaults \in Nat /\ MaxCrashes \in Nat

\* The events of the five topics: they carry a time, and an incident id is
\* minted for one alert.
ASSUME EventAssumption ==
    /\ \A r \in Record :
          /\ r.type \in {"requested", "completed", "created", "retract", "finalize"}
          /\ r.at \in Nat \ {0}
          /\ r.type = "created" => r.incident # None
    /\ \A r, s \in Record :
          r.type = "created" /\ s.type = "created" /\ r.incident = s.incident =>
              r.alert = s.alert

VARIABLES proj, store, jobs, analytics, skipped, faults, crashes

vars == <<pos, committed, proj, store, jobs, analytics, skipped, faults, crashes>>

Offset == UNION {{<<p, i>> : i \in DOMAIN Log[p]} : p \in Partition}

Init ==
    /\ LoopInit
    /\ proj = EmptyProjection
    /\ store = << >>
    /\ jobs = << >>
    /\ analytics = [o \in Offset |-> 0]
    /\ skipped = {}
    /\ faults = 0
    /\ crashes = 0

-----------------------------------------------------------------------------
\* JobUpdate::from_event
HasJob(e) == e.type \in {"requested", "completed"}

\* Mutant of RecordJob: the last event to arrive decides the job's status.
RecordJobLast(js, e) ==
    LET old == IF e.alert \in DOMAIN js THEN js[e.alert]
               ELSE [status |-> "none", requestedAt |-> 0, completedAt |-> 0]
    IN With(js, e.alert, [old EXCEPT !.status = e.type])

\* record_job: a completed job stays completed, a time once set stays.
RecordJob(js, e) ==
    LET old == IF e.alert \in DOMAIN js THEN js[e.alert]
               ELSE [status |-> "none", requestedAt |-> 0, completedAt |-> 0]
        first(t, type) == IF t = 0 /\ e.type = type THEN e.at ELSE t
    IN With(js, e.alert,
            [status |-> IF old.status = "completed" THEN "completed" ELSE e.type,
             requestedAt |-> first(old.requestedAt, "requested"),
             completedAt |-> first(old.completedAt, "completed")])

JobWritten(e) == jobs' = IF HasJob(e) THEN RecordJob(jobs, e) ELSE jobs

\* upsert_incident: every column is overwritten with the fold's row.
Upsert(rows, p, e) ==
    [a \in DOMAIN rows \cup RowOf(p, e) |->
        IF a \in RowOf(p, e) THEN p.rows[a] ELSE rows[a]]

Appended(p) == [analytics EXCEPT ![<<p, pos[p] + 1>>] = @ + 1]

\* Whether the record in hand is upserted, and appended, once folded.
Upserts(e) == RowOf(Apply(proj, e).proj, e) # {}
Appends(e) == Upserts(e) /\ Apply(proj, e).verdict = "Updated"

\* Mutant of Handle: appends to the analytics on every verdict.
HandleAppendAlways(p) ==
    LET e == Received(p)
    IN /\ HasRecord(p)
       /\ JobWritten(e)
       /\ proj' = Apply(proj, e).proj
       /\ store' = Upsert(store, proj', e)
       /\ analytics' = IF Upserts(e) THEN Appended(p) ELSE analytics
       /\ Commits(p)
       /\ UNCHANGED <<skipped, faults, crashes>>

\* Mutant of Handle: persists only what the fold calls an update.
HandleUpdatedOnly(p) ==
    LET e == Received(p)
    IN /\ HasRecord(p)
       /\ JobWritten(e)
       /\ proj' = Apply(proj, e).proj
       /\ store' = IF Appends(e) THEN Upsert(store, proj', e) ELSE store
       /\ analytics' = IF Appends(e) THEN Appended(p) ELSE analytics
       /\ Commits(p)
       /\ UNCHANGED <<skipped, faults, crashes>>

\* handle, when every write succeeds.
Handle(p) ==
    LET e == Received(p)
    IN /\ HasRecord(p)
       /\ JobWritten(e)
       /\ proj' = Apply(proj, e).proj
       /\ store' = Upsert(store, proj', e)
       /\ analytics' = IF Appends(e) THEN Appended(p) ELSE analytics
       /\ Commits(p)
       /\ UNCHANGED <<skipped, faults, crashes>>

\* handled_for: a transient fault is retried, a permanent one is committed.
Fault(p) ==
    /\ faults + crashes < MaxFaults
    /\ faults' = faults + 1
    /\ UNCHANGED crashes
    /\ \/ Retries(p) /\ UNCHANGED skipped
       \/ Commits(p) /\ skipped' = skipped \cup {<<p, pos[p] + 1>>}

\* record_job fails: the handler returns before the fold. The write itself
\* may have landed.
JobFails(p) ==
    /\ HasRecord(p)
    /\ HasJob(Received(p))
    /\ Fault(p)
    /\ JobWritten(Received(p)) \/ UNCHANGED jobs
    /\ UNCHANGED <<proj, store, analytics>>

\* upsert_incident fails: the fold has already taken the event.
UpsertFails(p) ==
    LET e == Received(p)
    IN /\ HasRecord(p)
       /\ Upserts(e)
       /\ Fault(p)
       /\ JobWritten(e)
       /\ proj' = Apply(proj, e).proj
       /\ store' = Upsert(store, proj', e) \/ UNCHANGED store
       /\ UNCHANGED analytics

\* The analytics append fails; ClickHouse faults are always transient.
AppendFails(p) ==
    LET e == Received(p)
    IN /\ HasRecord(p)
       /\ Appends(e)
       /\ faults + crashes < MaxFaults
       /\ faults' = faults + 1
       /\ JobWritten(e)
       /\ proj' = Apply(proj, e).proj
       /\ store' = Upsert(store, proj', e)
       /\ analytics' = Appended(p) \/ UNCHANGED analytics
       /\ Retries(p)
       /\ UNCHANGED <<skipped, crashes>>

Rebalance(p) ==
    /\ faults + crashes < MaxFaults
    /\ faults' = faults + 1
    /\ Reassign(p)
    /\ UNCHANGED <<proj, store, jobs, analytics, skipped, crashes>>

Restart ==
    /\ crashes < MaxCrashes
    /\ faults + crashes < MaxFaults
    /\ crashes' = crashes + 1
    /\ Resume
    /\ proj' = EmptyProjection
    /\ UNCHANGED <<store, jobs, analytics, skipped, faults>>

Next ==
    \/ \E p \in Partition :
        Handle(p) \/ JobFails(p) \/ UpsertFails(p) \/ AppendFails(p) \/ Rebalance(p)
    \/ Restart

Spec == Init /\ [][Next]_vars

-----------------------------------------------------------------------------
\* What the read model should say of an alert, from the set of events alone:
\* the highest rung of the lifecycle, the figures and details of the latest
\* event that carries them.
Events == {Log[o[1]][o[2]] : o \in Offset}

Rank(e) ==
    CASE e.type = "finalize" -> Finalized
      [] e.type = "retract" -> Retracted
      [] e.type = "created" -> Confirmed
      [] e.type = "completed" -> IF e.confirmed THEN Confirmed ELSE Unconfirmed

Results(a) ==
    {e \in Events : e.type \in {"completed", "created"} /\ e.alert = a}

Incidents(a) == {e.incident : e \in {r \in Results(a) : r.type = "created"}}

Terminals(a, type) ==
    {e \in Events : e.type = type /\ e.incident \in Incidents(a)}

Concerning(a) == Results(a) \cup Terminals(a, "retract") \cup Terminals(a, "finalize")

IsLatest(e, S) == e \in S /\ \A f \in S : f.at <= e.at

Alerts == {e.alert : e \in {r \in Events : r.type \in {"completed", "created"}}}

AllHandled == \A p \in Partition : pos[p] = Len(Log[p])

\* The properties below that depend on the fold's memory are stated for the
\* first session of the service, crashes = 0.

\* Whatever the order in which the topics are consumed, and however often
\* records are redelivered or writes retried: once every record has been
\* handled, the stored rows are the reference rows.
ConvergesToReference ==
    AllHandled /\ skipped = {} /\ crashes = 0 =>
        \A a \in Alerts :
            /\ a \in DOMAIN store
            /\ \E e \in Concerning(a) :
                /\ Rank(e) = store[a].status
                /\ \A f \in Concerning(a) : Rank(f) <= Rank(e)
            /\ \E e \in Results(a) :
                IsLatest(e, Results(a)) /\ store[a].profit = e.profit
            /\ Terminals(a, "retract") # {} => \E e \in Terminals(a, "retract") :
                IsLatest(e, Terminals(a, "retract")) /\ store[a].reason = e.detail
            /\ Terminals(a, "finalize") # {} => \E e \in Terminals(a, "finalize") :
                IsLatest(e, Terminals(a, "finalize")) /\ store[a].block = e.detail

\* The IncidentCreated of the incident is still to be handed out, or was
\* skipped.
LinkPending(incident) ==
    \E o \in Offset :
        /\ Log[o[1]][o[2]].type = "created"
        /\ Log[o[1]][o[2]].incident = incident
        /\ o[2] > committed[o[1]] \/ o \in skipped

\* An event whose offset the broker will not hand out again is in the stored
\* row, or is a terminal that the fold holds until its IncidentCreated has
\* been written through: the offset commits only after the write succeeded.
CommittedIsPersisted ==
    crashes = 0 => \A p \in Partition : \A i \in 1..committed[p] :
        LET e == Log[p][i] IN
        <<p, i>> \in skipped \/ e.type = "requested" \/
        IF e.type \in {"completed", "created"}
        THEN /\ e.alert \in DOMAIN store
             /\ store[e.alert].status >= Rank(e)
             /\ store[e.alert].figuresAt >= e.at
        ELSE \/ e.incident \in Live(proj.orphans)
             \/ /\ LinkPending(e.incident)
                /\ \E a \in DOMAIN proj.rows :
                    e.incident \in Incidents(a) /\ proj.rows[a].status >= Rank(e)
             \/ \E a \in DOMAIN store :
                    e.incident \in Incidents(a) /\ store[a].status >= Rank(e)

\* A stored row only moves forward: its status up the ladder, its figures and
\* its terminal details to later events, and its incident id is set once.
RowNeverRegresses ==
    [][ crashes' = 0 => \A a \in DOMAIN store :
            /\ store'[a].status >= store[a].status
            /\ store'[a].figuresAt >= store[a].figuresAt
            /\ store'[a].retractedAt >= store[a].retractedAt
            /\ store'[a].finalizedAt >= store[a].finalizedAt
            /\ store[a].incident # None => store'[a].incident = store[a].incident ]_vars

\* One event adds at most one analytics row, however often it is redelivered
\* or its writes are retried within a session.
AnalyticsNotDoubled == crashes = 0 => \A o \in Offset : analytics[o] <= 1

\* Once every record has been handled, the job row of an alert with a result
\* says completed and carries the times of a request and of a result.
JobsConverge ==
    AllHandled /\ skipped = {} =>
        \A e \in Events : HasJob(e) =>
            /\ e.alert \in DOMAIN jobs
            /\ e.type = "completed" => jobs[e.alert].status = "completed"
            /\ \E f \in Events :
                /\ f.type = e.type /\ f.alert = e.alert
                /\ f.at = IF e.type = "completed" THEN jobs[e.alert].completedAt
                          ELSE jobs[e.alert].requestedAt
===============================================================================
