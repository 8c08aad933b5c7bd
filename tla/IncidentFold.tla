----------------------------- MODULE IncidentFold -----------------------------
(***************************************************************************)
(* The incident read-model fold (crates/simulation/src/projection.rs), as  *)
(* operators on a value p with                                             *)
(*   p.rows      by_alert: alert -> row,                                   *)
(*   p.alertOf   the incident -> alert links learnt so far,                *)
(*   p.orphans   the bounded buffer of terminals that came before the link.*)
(*                                                                         *)
(* A row keeps its incident id (for the whole identity, which is set       *)
(* together), status as its rank, profit (for both figures), and reason    *)
(* and block with their event times; 0 stands for an absent time.          *)
(* An event is a record with its type, its time at, and the fields of its  *)
(* type: alert, incident, confirmed, profit, detail.                       *)
(***************************************************************************)
EXTENDS BoundedFifoMap

Unconfirmed == 0
Confirmed == 1
Finalized == 2
Retracted == 3

None == "none"

EmptyProjection == [rows |-> << >>, alertOf |-> << >>, orphans |-> EmptyMap]

\* A row under change: its new value and whether anything visible changed.
Unchanged(row) == [row |-> row, changed |-> FALSE]

FreshRow(incident, status, profit, at) ==
    [incident |-> incident, status |-> status, profit |-> profit,
     figuresAt |-> at, reason |-> None, retractedAt |-> 0,
     block |-> None, finalizedAt |-> 0]

\* Mutant of AdvanceStatus: the latest event decides the status.
AssignStatus(c, status) ==
    [row |-> [c.row EXCEPT !.status = status],
     changed |-> c.changed \/ status # c.row.status]

AdvanceStatus(c, status) ==
    IF status > c.row.status
    THEN [row |-> [c.row EXCEPT !.status = status], changed |-> TRUE]
    ELSE c

SetFigures(c, profit, at) ==
    IF at <= c.row.figuresAt THEN c
    ELSE [row |-> [c.row EXCEPT !.profit = profit, !.figuresAt = at],
          changed |-> c.changed \/ c.row.profit # profit]

SetIdentity(c, incident) ==
    IF c.row.incident # None THEN c
    ELSE [row |-> [c.row EXCEPT !.incident = incident], changed |-> TRUE]

Retract(c, t) ==
    LET up == AdvanceStatus(c, Retracted)
    IN IF t.at <= up.row.retractedAt THEN up
       ELSE [row |-> [up.row EXCEPT !.reason = t.detail, !.retractedAt = t.at],
             changed |-> up.changed \/ up.row.reason # t.detail]

Finalize(c, t) ==
    LET up == AdvanceStatus(c, Finalized)
    IN IF t.at <= up.row.finalizedAt THEN up
       ELSE [row |-> [up.row EXCEPT !.block = t.detail, !.finalizedAt = t.at],
             changed |-> up.changed \/ up.row.block # t.detail]

TerminalOnRow(c, t) == IF t.type = "retract" THEN Retract(c, t) ELSE Finalize(c, t)

\* OrphanBuffer::buffer: an identical terminal is held once.
Holds(orphans, incident, t) ==
    incident \in Live(orphans) /\ t \in {orphans.entries[incident][i] :
                                        i \in DOMAIN orphans.entries[incident]}

Buffer(orphans, incident, t) ==
    IF Holds(orphans, incident, t) THEN orphans
    ELSE Put(orphans, incident,
             IF incident \in Live(orphans)
             THEN Append(orphans.entries[incident], t) ELSE <<t>>)

Verdict(changed) == IF changed THEN "Updated" ELSE "Duplicate"

WithRow(p, alert, c) == [p EXCEPT !.rows = With(@, alert, c.row)]

ApplyCompleted(p, e) ==
    LET status == IF e.confirmed THEN Confirmed ELSE Unconfirmed
        c == IF e.alert \notin DOMAIN p.rows
             THEN [row |-> FreshRow(None, status, e.profit, e.at), changed |-> TRUE]
             ELSE SetFigures(AdvanceStatus(Unchanged(p.rows[e.alert]), status),
                             e.profit, e.at)
    IN [proj |-> WithRow(p, e.alert, c), verdict |-> Verdict(c.changed)]

\* The row an IncidentCreated leaves, before orphans are replayed on it.
CreatedRow(p, e) ==
    IF e.alert \notin DOMAIN p.rows
    THEN [row |-> FreshRow(e.incident, Confirmed, e.profit, e.at), changed |-> TRUE]
    ELSE SetFigures(
            AdvanceStatus(SetIdentity(Unchanged(p.rows[e.alert]), e.incident),
                          Confirmed),
            e.profit, e.at)

\* The orphans of an incident on its row, in the order they came.
Replay(c, waiting) ==
    LET f[n \in 0..Len(waiting)] ==
            IF n = 0 THEN c ELSE TerminalOnRow(f[n - 1], waiting[n])
    IN f[Len(waiting)]

\* Mutant of ApplyCreated: the orphans of the incident are not replayed.
ApplyCreatedNoReplay(p, e) ==
    LET c == CreatedRow(p, e)
    IN [proj |-> [WithRow(p, e.alert, c) EXCEPT
                    !.alertOf = With(@, e.incident, e.alert)],
        verdict |-> Verdict(c.changed)]

ApplyCreated(p, e) ==
    LET waiting == IF e.incident \in Live(p.orphans)
                   THEN p.orphans.entries[e.incident] ELSE << >>
        c == Replay(CreatedRow(p, e), waiting)
    IN [proj |-> [WithRow(p, e.alert, c) EXCEPT
                    !.alertOf = With(@, e.incident, e.alert),
                    !.orphans = Take(@, e.incident)],
        verdict |-> Verdict(c.changed)]

ApplyTerminal(p, e) ==
    LET t == [type |-> e.type, detail |-> e.detail, at |-> e.at]
    IN IF e.incident \notin DOMAIN p.alertOf
       THEN [proj |-> [p EXCEPT !.orphans = Buffer(@, e.incident, t)],
             verdict |-> Verdict(~Holds(p.orphans, e.incident, t))]
       ELSE LET alert == p.alertOf[e.incident]
                c == TerminalOnRow(Unchanged(p.rows[alert]), t)
            IN [proj |-> WithRow(p, alert, c), verdict |-> Verdict(c.changed)]

Apply(p, e) ==
    CASE e.type = "completed" -> ApplyCompleted(p, e)
      [] e.type = "created" -> ApplyCreated(p, e)
      [] e.type \in {"retract", "finalize"} -> ApplyTerminal(p, e)
      [] OTHER -> [proj |-> p, verdict |-> "Ignored"]

\* record_of: the alert whose row an event concerns, if the fold knows it.
RowOf(p, e) ==
    IF e.type \in {"completed", "created"} THEN {e.alert}
    ELSE IF e.type \in {"retract", "finalize"} /\ e.incident \in DOMAIN p.alertOf
    THEN {p.alertOf[e.incident]} ELSE {}
===============================================================================
