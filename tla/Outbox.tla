-------------------------------- MODULE Outbox --------------------------------
(***************************************************************************)
(* The transactional outbox (crates/outbox/src/lib.rs), its two kinds of   *)
(* caller, and the flushers of the service's replicas that claim pending   *)
(* rows under a lease, publish them and stamp them published.              *)
(*                                                                         *)
(* writes[w] is a write that is announced through the outbox, such as the  *)
(* promotion of a sanctions list: a transaction that is open, committed or *)
(* aborted. rows[id] is a row of the outbox table: write is the write it   *)
(* announces, Pool when the row is itself the write (a feedback verdict),  *)
(* and tx the transaction it was inserted in, Pool for a statement of its  *)
(* own; claimed stands for a claimed_until in the future, poison for an    *)
(* envelope that cannot be decoded; sent counts how often the broker       *)
(* received it. batch[f] holds the ids flusher f has still to stamp in its *)
(* pass, held[f] the one it has published and not yet stamped, 0 if there  *)
(* is none. The loop of run_flusher takes one pass after another; a        *)
(* shutdown is one last pass and a pause until the replica is started      *)
(* again.                                                                  *)
(***************************************************************************)
EXTENDS Integers, Sequences, FiniteSets

CONSTANTS
    Key,            \* idempotency keys
    NoKey,          \* an enqueue without one
    Flusher,        \* the replicas
    Batch,          \* BATCH
    MaxRows,        \* bound: rows inserted
    MaxWrites,      \* bound: transactions of announced writes
    MaxFailures     \* bound: failed publishes and stamps, crashes, slow passes

ASSUME OutboxAssumption ==
    /\ NoKey \notin Key
    /\ IsFiniteSet(Flusher)
    /\ Batch \in Nat \ {0}
    /\ MaxRows \in Nat /\ MaxWrites \in Nat /\ MaxFailures \in Nat

VARIABLES writes, rows, batch, held, failures

vars == <<writes, rows, batch, held, failures>>

Ids == DOMAIN rows
Writes == DOMAIN writes

\* The executor that is no transaction: each statement commits by itself.
Pool == 0

Row == [key : Key \cup {NoKey}, poison : BOOLEAN, claimed : BOOLEAN, sent : Nat,
        write : Nat, tx : Nat, state : {"pending", "published"}]

\* Postgres, read committed: what the other connections see, and what is gone.
Visible(i) == rows[i].tx = Pool \/ writes[rows[i].tx] = "committed"
RolledBack(i) == rows[i].tx # Pool /\ writes[rows[i].tx] = "aborted"

Init ==
    /\ writes = << >>
    /\ rows = << >>
    /\ batch = [f \in Flusher |-> {}]
    /\ held = [f \in Flusher |-> 0]
    /\ failures = 0

MayFail ==
    /\ failures < MaxFailures
    /\ failures' = failures + 1

-----------------------------------------------------------------------------
\* enqueue: an insert through the caller's executor. One whose key a row has
\* does nothing (AlreadyQueued); one whose key another open transaction has
\* inserted waits for that transaction to end.
Enqueue(write, tx, k, bad) ==
    /\ Len(rows) < MaxRows
    /\ k # NoKey => \A i \in Ids : rows[i].key = k => RolledBack(i)
    /\ rows' = Append(rows, [key |-> k, poison |-> bad, claimed |-> FALSE, sent |-> 0,
                             write |-> write, tx |-> tx, state |-> "pending"])
    /\ UNCHANGED <<writes, batch, held, failures>>

\* promote begins its transaction and writes the list.
Begin ==
    /\ Len(writes) < MaxWrites
    /\ writes' = Append(writes, "open")
    /\ UNCHANGED <<rows, batch, held, failures>>

\* Mutant of Announce: the announcement is inserted through the pool.
AnnounceOnPool(w, k, bad) ==
    /\ writes[w] = "open"
    /\ Enqueue(w, Pool, k, bad)

\* One of the write's announcements is queued, in its own transaction.
Announce(w, k, bad) ==
    /\ writes[w] = "open"
    /\ Enqueue(w, w, k, bad)

\* A feedback verdict: the row is the write.
Feedback(k, bad) == Enqueue(Pool, Pool, k, bad)

\* The transaction commits, or an error or a crash rolls it back.
EndTransaction(w, end) ==
    /\ writes[w] = "open"
    /\ writes' = [writes EXCEPT ![w] = end]
    /\ UNCHANGED <<rows, batch, held, failures>>

\* The oldest rows among some, up to BATCH.
Oldest(ids) == {i \in ids : Cardinality({j \in ids : j < i}) < Batch}

\* Mutant of Claimable: takes pending rows whatever their lease.
ClaimableLeased == {i \in Ids : Visible(i) /\ rows[i].state = "pending"}

\* The rows a claim selects: those it sees, not published, their lease over.
Claimable == {i \in Ids : Visible(i) /\ rows[i].state = "pending" /\ ~rows[i].claimed}

\* flush_once claims a batch. A pass that finds nothing changes nothing.
Claim(f) ==
    /\ batch[f] = {}
    /\ Claimable # {}
    /\ batch' = [batch EXCEPT ![f] = Oldest(Claimable)]
    /\ rows' = [i \in Ids |-> IF i \in Oldest(Claimable)
                              THEN [rows[i] EXCEPT !.claimed = TRUE] ELSE rows[i]]
    /\ UNCHANGED <<writes, held, failures>>

\* The next row of the batch: RETURNING has no order. The broker takes its
\* event; an envelope that cannot be decoded goes to the stamp unpublished.
Publish(f, i) ==
    /\ i \in batch[f]
    /\ held[f] = 0
    /\ rows' = [rows EXCEPT ![i].sent = IF rows[i].poison THEN @ ELSE @ + 1]
    /\ held' = [held EXCEPT ![f] = i]
    /\ UNCHANGED <<writes, batch, failures>>

\* The flusher leaves its pass: what it has not stamped stays under its lease.
Abandon(f) ==
    /\ batch' = [batch EXCEPT ![f] = {}]
    /\ held' = [held EXCEPT ![f] = 0]

\* Mutant of PublishFails: stamps the row whose publish failed.
PublishFailsStamps(f, i) ==
    /\ i \in batch[f]
    /\ held[f] = 0
    /\ ~rows[i].poison
    /\ MayFail
    /\ rows' = [rows EXCEPT ![i].state = "published", ![i].claimed = FALSE]
    /\ Abandon(f)
    /\ UNCHANGED writes

\* A publish that fails ends the pass; the broker may have the event all the
\* same.
PublishFails(f, i) ==
    /\ i \in batch[f]
    /\ held[f] = 0
    /\ ~rows[i].poison
    /\ MayFail
    /\ \E n \in {0, 1} : rows' = [rows EXCEPT ![i].sent = @ + n]
    /\ Abandon(f)
    /\ UNCHANGED writes

\* mark_published, of whatever the row has become in the meantime.
Stamp(f) ==
    /\ held[f] # 0
    /\ rows' = [rows EXCEPT ![held[f]].state = "published",
                            ![held[f]].claimed = FALSE]
    /\ batch' = [batch EXCEPT ![f] = @ \ {held[f]}]
    /\ held' = [held EXCEPT ![f] = 0]
    /\ UNCHANGED <<writes, failures>>

\* A stamp that fails ends the pass with an error, a crash ends it anywhere.
PassFails(f) ==
    /\ batch[f] # {}
    /\ MayFail
    /\ Abandon(f)
    /\ UNCHANGED <<writes, rows>>

\* Mutant of Expire: the claim compares claimed_until with NULL only.
ExpireNever(i) == FALSE /\ UNCHANGED vars

\* The lease of a row nobody is working on any more runs out.
Expire(i) ==
    /\ rows[i].claimed
    /\ \A f \in Flusher : i \notin batch[f]
    /\ rows' = [rows EXCEPT ![i].claimed = FALSE]
    /\ UNCHANGED <<writes, batch, held, failures>>

\* A lease runs out while its flusher is still working on the batch.
ExpireEarly(i) ==
    /\ rows[i].claimed
    /\ \E f \in Flusher : i \in batch[f]
    /\ MayFail
    /\ rows' = [rows EXCEPT ![i].claimed = FALSE]
    /\ UNCHANGED <<writes, batch, held>>

Flush(f) ==
    \/ Claim(f)
    \/ \E i \in batch[f] : Publish(f, i) \/ PublishFails(f, i)
    \/ Stamp(f)
    \/ PassFails(f)

Next ==
    \/ Begin
    \/ \E w \in Writes, k \in Key \cup {NoKey}, bad \in BOOLEAN : Announce(w, k, bad)
    \/ \E k \in Key \cup {NoKey}, bad \in BOOLEAN : Feedback(k, bad)
    \/ \E w \in Writes, end \in {"committed", "aborted"} : EndTransaction(w, end)
    \/ \E f \in Flusher : Flush(f)
    \/ \E i \in Ids : Expire(i) \/ ExpireEarly(i)

\* The loop of run_flusher never ends for good, and leases are finite.
Fairness ==
    /\ \A f \in Flusher : WF_vars(Flush(f))
    /\ \A i \in 1..MaxRows : WF_vars(i \in Ids /\ Expire(i))

Spec == Init /\ [][Next]_vars /\ Fairness

-----------------------------------------------------------------------------
\* Rows are well formed and a flusher works on ids of the table.
OutboxTypeOK ==
    /\ writes \in Seq({"open", "committed", "aborted"})
    /\ rows \in Seq(Row)
    /\ \A i \in Ids : {rows[i].write, rows[i].tx} \subseteq Writes \cup {Pool}
    /\ batch \in [Flusher -> SUBSET Ids]
    /\ held \in [Flusher -> Nat]
    /\ \A f \in Flusher : held[f] \in batch[f] \cup {0}
    /\ failures \in 0..MaxFailures

\* Nothing is announced that was not written: when the broker has the
\* announcement of a write, that write has committed, however its transaction
\* interleaves with the flushers (enqueue shares the caller's commit).
AnnouncedWasWritten ==
    \A i \in Ids : rows[i].sent > 0 /\ rows[i].write # Pool =>
                        writes[rows[i].write] = "committed"

\* What was written is announced: a row counts as published only after the
\* broker took it, unless its envelope cannot be decoded; failed publishes,
\* failed stamps, crashes and lapsed leases never stamp one by mistake.
StampedWasSent ==
    \A i \in Ids : rows[i].state = "published" => rows[i].poison \/ rows[i].sent > 0

\* The copies the broker has of a row beyond the first one.
Duplicates == UNION {{i} \X (2..rows[i].sent) : i \in Ids}

\* The lease keeps the replicas from publishing each other's rows: every
\* second copy at the broker is paid for by a failure or a lapsed lease.
DuplicatesNeedFailures == Cardinality(Duplicates) <= failures

\* The announcement of a committed write is published in the end: no crash,
\* failure, lease or poison row strands it.
EveryAnnouncementPublished ==
    \A i \in 1..MaxRows :
        (i \in Ids /\ (rows[i].write # Pool => writes[rows[i].write] = "committed"))
            ~> (i \in Ids /\ rows[i].state = "published")
===============================================================================
