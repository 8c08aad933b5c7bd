----------------------------- MODULE OutboxProofs -----------------------------
(***************************************************************************)
(* Proofs about the transactional outbox, for any number of replicas,      *)
(* writes, rows, keys and failures and any batch size.                     *)
(*                                                                         *)
(* AnnouncedWasWritten and StampedWasSent are not inductive: whether a     *)
(* publish announces a committed write depends on the transaction its row  *)
(* was inserted in and on what was in the batch, and whether a stamp comes *)
(* after its publish on what the flusher holds. The strengthening says     *)
(* that announcements share the transaction of their write                 *)
(* (InOwnTransaction), that work is on rows the flushers could see         *)
(* (BatchVisible, SentVisible) and that what is held was sent              *)
(* (HeldWasSent). It needs no lease: two flushers may work on the same     *)
(* row.                                                                    *)
(***************************************************************************)
EXTENDS Outbox, TLAPS, FiniteSetTheorems

\* An announcement is inserted in the transaction of its write.
InOwnTransaction == \A i \in Ids : rows[i].tx = rows[i].write

\* A flusher works only on rows that every connection sees.
BatchVisible == \A f \in Flusher : \A i \in batch[f] : Visible(i)

\* The broker has nothing of a transaction that may still be rolled back.
SentVisible == \A i \in Ids : rows[i].sent > 0 => Visible(i)

\* The row a flusher is about to stamp is at the broker or cannot be decoded.
HeldWasSent ==
    \A f \in Flusher : held[f] # 0 => rows[held[f]].poison \/ rows[held[f]].sent > 0

OInv ==
    /\ OutboxTypeOK
    /\ InOwnTransaction
    /\ BatchVisible
    /\ SentVisible
    /\ HeldWasSent
    /\ StampedWasSent

\* Row r, after a step, is row q with more copies at the broker perhaps.
Keeps(q, r) ==
    /\ r \in Row
    /\ r.poison = q.poison
    /\ r.write = q.write /\ r.tx = q.tx
    /\ r.sent >= q.sent
    /\ r.state = "published" => r.poison \/ r.sent > 0

RowKept(i) == Keeps(rows[i], rows'[i]) /\ (rows'[i].sent > 0 => Visible(i))

\* The fields of a row, and what an update of one leaves of the others.
LEMMA RowFields == \A q \in Row : q.sent \in Nat /\ q.poison \in BOOLEAN
  BY DEF Row

LEMMA LeaseUpdate ==
    ASSUME NEW q \in Row, NEW c \in BOOLEAN
    PROVE  LET r == [q EXCEPT !.claimed = c]
           IN /\ r \in Row /\ r.poison = q.poison /\ r.sent = q.sent
              /\ r.state = q.state /\ r.write = q.write /\ r.tx = q.tx
  BY DEF Row

LEMMA SentUpdate ==
    ASSUME NEW q \in Row, NEW n \in {0, 1}
    PROVE  LET r == [q EXCEPT !.sent = @ + n]
           IN /\ r \in Row /\ r.poison = q.poison /\ r.state = q.state
              /\ r.sent = q.sent + n /\ q.sent \in Nat
              /\ r.write = q.write /\ r.tx = q.tx
  BY DEF Row

LEMMA StampUpdate ==
    ASSUME NEW q \in Row
    PROVE  LET r == [q EXCEPT !.state = "published", !.claimed = FALSE]
           IN /\ r \in Row /\ r.poison = q.poison /\ r.sent = q.sent
              /\ r.state = "published" /\ r.write = q.write /\ r.tx = q.tx
  BY DEF Row

LEMMA RowsTyped ==
    ASSUME OInv
    PROVE  \A i \in Ids : rows[i] \in Row
  BY DEF OInv, OutboxTypeOK, Ids

\* A table whose rows are rewritten in place is a table of as many rows.
LEMMA Rewritten ==
    ASSUME NEW s \in Seq(Row), NEW t,
           t = [i \in DOMAIN s |-> t[i]],
           \A i \in DOMAIN s : t[i] \in Row
    PROVE  t \in Seq(Row) /\ DOMAIN t = DOMAIN s
  <1>1. DOMAIN s = 1..Len(s) /\ Len(s) \in Nat  OBVIOUS
  <1>2. t \in [1..Len(s) -> Row]  BY <1>1
  <1> QED  BY <1>1, <1>2

\* A step that rewrites rows in place and gives the flushers no other work
\* than they had keeps the invariant, if it keeps it row by row.
LEMMA InPlace ==
    ASSUME OInv,
           writes' = writes,
           rows' = [i \in Ids |-> rows'[i]],
           \A i \in Ids : RowKept(i),
           batch' \in [Flusher -> SUBSET Ids],
           \A f \in Flusher : \A i \in batch'[f] : Visible(i),
           held' \in [Flusher -> Nat],
           \A f \in Flusher : held'[f] \in batch'[f] \cup {0},
           \A f \in Flusher : held'[f] # 0 =>
               held'[f] = held[f] \/ rows'[held'[f]].poison \/ rows'[held'[f]].sent > 0,
           failures' \in 0..MaxFailures
    PROVE  OInv'
  <1>1. \A i \in Ids : rows[i] \in Row
    BY RowsTyped
  <1>2. rows' \in Seq(Row) /\ Ids' = Ids
    BY Rewritten DEF OInv, OutboxTypeOK, Ids, RowKept, Keeps
  <1>3. \A i \in Ids : /\ rows'[i].write = rows[i].write /\ rows'[i].tx = rows[i].tx
                       /\ Visible(i)' = Visible(i)
    BY DEF RowKept, Keeps, Visible
  <1>4. OutboxTypeOK'
    <2>1. Writes' = Writes
      BY DEF Writes
    <2>2. \A i \in Ids' : {rows'[i].write, rows'[i].tx} \subseteq Writes' \cup {Pool}
      <3>1. \A i \in Ids : {rows[i].write, rows[i].tx} \subseteq Writes \cup {Pool}
        BY DEF OInv, OutboxTypeOK
      <3> QED BY <1>2, <1>3, <2>1, <3>1
    <2>3. writes' \in Seq({"open", "committed", "aborted"})
      BY DEF OInv, OutboxTypeOK
    <2> QED BY <1>2, <2>2, <2>3 DEF OutboxTypeOK
  <1>5. HeldWasSent'
    <2> SUFFICES ASSUME NEW f \in Flusher, held'[f] # 0
                 PROVE  rows'[held'[f]].poison \/ rows'[held'[f]].sent > 0
      BY DEF HeldWasSent
    <2>1. held'[f] \in Ids
      BY <1>2
    <2>2. CASE held'[f] = held[f]
      <3>1. rows[held[f]].poison \/ rows[held[f]].sent > 0
        BY <2>2 DEF OInv, HeldWasSent
      <3>2. rows[held[f]].sent \in Nat /\ rows'[held[f]].sent \in Nat
        BY <1>1, <2>1, <2>2, RowFields DEF RowKept, Keeps
      <3> QED BY <2>1, <2>2, <3>1, <3>2 DEF RowKept, Keeps
    <2> QED BY <2>2
  <1>6. InOwnTransaction'
    BY <1>2, <1>3 DEF OInv, InOwnTransaction
  <1>7. BatchVisible' /\ SentVisible'
    BY <1>2, <1>3 DEF BatchVisible, SentVisible, RowKept
  <1>8. StampedWasSent'
    BY <1>2 DEF StampedWasSent, RowKept, Keeps
  <1> QED BY <1>4, <1>5, <1>6, <1>7, <1>8 DEF OInv

\* The empty table satisfies the invariant.
LEMMA OInvInit == Init => OInv
  <1> SUFFICES ASSUME Init PROVE OInv
    OBVIOUS
  <1>1. rows \in Seq(Row) /\ Ids = {} /\ writes \in Seq({"open", "committed", "aborted"})
    BY DEF Init, Ids
  <1>2. OutboxTypeOK
    BY <1>1, OutboxAssumption DEF Init, OutboxTypeOK
  <1> QED
    BY <1>1, <1>2 DEF Init, OInv, InOwnTransaction, BatchVisible, SentVisible, HeldWasSent,
                      StampedWasSent

\* An insert in the transaction of the write it announces, or of a row that
\* is its own write, adds a row that is not sent, and changes none.
LEMMA EnqueueStep ==
    ASSUME OInv, NEW w \in Writes \cup {Pool}, NEW k \in Key \cup {NoKey}, NEW bad \in BOOLEAN,
           Enqueue(w, w, k, bad)
    PROVE  OInv'
  <1> DEFINE r == [key |-> k, poison |-> bad, claimed |-> FALSE, sent |-> 0,
                   write |-> w, tx |-> w, state |-> "pending"]
  <1>0. w \in Nat
    BY DEF Writes, Pool, OInv, OutboxTypeOK
  <1>1. rows \in Seq(Row) /\ r \in Row
    BY <1>0 DEF OInv, OutboxTypeOK, Row
  <1>2. /\ rows' = Append(rows, r) /\ batch' = batch /\ held' = held
        /\ failures' = failures /\ writes' = writes
    BY DEF Enqueue
  <1>3. /\ Ids = 1..Len(rows) /\ Len(rows) \in Nat
        /\ Ids' = Ids \cup {Len(rows) + 1}
        /\ rows'[Len(rows) + 1] = r
        /\ rows' \in Seq(Row)
    BY <1>1, <1>2 DEF Ids
  <1>4. \A i \in Ids : rows'[i] = rows[i] /\ Visible(i)' = Visible(i)
    BY <1>1, <1>2, <1>3 DEF Visible
  <1>5. OutboxTypeOK'
    <2>1. Writes' = Writes
      BY <1>2 DEF Writes
    <2>2. \A i \in Ids' : {rows'[i].write, rows'[i].tx} \subseteq Writes' \cup {Pool}
      BY <1>3, <1>4, <2>1 DEF OInv, OutboxTypeOK
    <2> QED BY <1>2, <1>3, <2>2 DEF OInv, OutboxTypeOK
  <1>6. BatchVisible' /\ HeldWasSent'
    BY <1>2, <1>4 DEF OInv, OutboxTypeOK, BatchVisible, HeldWasSent
  <1>7. InOwnTransaction' /\ SentVisible' /\ StampedWasSent'
    BY <1>3, <1>4 DEF OInv, InOwnTransaction, SentVisible, StampedWasSent
  <1> QED BY <1>5, <1>6, <1>7 DEF OInv

\* A transaction that begins or ends rolls back no commit: what was visible
\* stays so.
LEMMA WritesStep ==
    ASSUME OInv, writes' \in Seq({"open", "committed", "aborted"}), Writes \subseteq Writes',
           \A w \in Writes : writes[w] = "committed" => writes'[w] = "committed",
           rows' = rows, batch' = batch, held' = held, failures' = failures
    PROVE  OInv'
  <1>1. Ids' = Ids
    BY DEF Ids
  <1>2. \A i \in Ids : Visible(i) => Visible(i)'
    BY DEF OInv, OutboxTypeOK, Visible
  <1>3. OutboxTypeOK'
    BY <1>1 DEF OInv, OutboxTypeOK
  <1>4. BatchVisible' /\ SentVisible'
    BY <1>1, <1>2 DEF OInv, OutboxTypeOK, BatchVisible, SentVisible
  <1>5. InOwnTransaction' /\ HeldWasSent' /\ StampedWasSent'
    BY <1>1 DEF OInv, InOwnTransaction, HeldWasSent, StampedWasSent
  <1> QED BY <1>3, <1>4, <1>5 DEF OInv

LEMMA BeginStep ==
    ASSUME OInv, Begin
    PROVE  OInv'
  <1>1. writes' = Append(writes, "open") /\ writes \in Seq({"open", "committed", "aborted"})
    BY DEF Begin, OInv, OutboxTypeOK
  <1>2. writes' \in Seq({"open", "committed", "aborted"}) /\ Writes \subseteq Writes'
        /\ \A w \in Writes : writes'[w] = writes[w]
    BY <1>1 DEF Writes
  <1> QED BY <1>2, WritesStep DEF Begin

LEMMA EndStep ==
    ASSUME OInv, NEW w \in Writes, NEW end \in {"committed", "aborted"}, EndTransaction(w, end)
    PROVE  OInv'
  <1>1. /\ writes[w] = "open" /\ writes' = [writes EXCEPT ![w] = end]
        /\ writes \in Seq({"open", "committed", "aborted"})
    BY DEF EndTransaction, OInv, OutboxTypeOK
  <1>2. writes' \in Seq({"open", "committed", "aborted"}) /\ Writes' = Writes
        /\ \A v \in Writes : writes[v] = "committed" => writes'[v] = "committed"
    BY <1>1 DEF Writes
  <1> QED BY <1>2, WritesStep DEF EndTransaction

\* Every other action keeps the invariant row by row.
LEMMA ClaimStep ==
    ASSUME OInv, NEW f \in Flusher, Claim(f)
    PROVE  OInv'
  <1>1. \A i \in Ids : rows[i] \in Row
    BY RowsTyped
  <1>2. Oldest(Claimable) \subseteq {i \in Ids : Visible(i)}
    BY DEF Oldest, Claimable
  <1>3. /\ rows' = [i \in Ids |-> IF i \in Oldest(Claimable)
                                 THEN [rows[i] EXCEPT !.claimed = TRUE] ELSE rows[i]]
        /\ batch' = [batch EXCEPT ![f] = Oldest(Claimable)]
        /\ held' = held /\ failures' = failures /\ writes' = writes
        /\ batch[f] = {}
    BY DEF Claim
  <1>4. ASSUME NEW i \in Ids PROVE RowKept(i)
    <2>1. rows'[i] = [rows[i] EXCEPT !.claimed = TRUE] \/ rows'[i] = rows[i]
      BY <1>3
    <2>2. /\ rows'[i] \in Row /\ rows'[i].poison = rows[i].poison
          /\ rows'[i].sent = rows[i].sent /\ rows'[i].state = rows[i].state
          /\ rows'[i].write = rows[i].write /\ rows'[i].tx = rows[i].tx
      BY <1>1, <2>1, LeaseUpdate
    <2>3. rows[i].sent \in Nat
      BY <1>1, RowFields
    <2> QED
      BY <2>2, <2>3 DEF RowKept, Keeps, OInv, SentVisible, StampedWasSent
  <1>5. rows' = [i \in Ids |-> rows'[i]]
    BY <1>3
  <1>6. batch' \in [Flusher -> SUBSET Ids]
    BY <1>2, <1>3 DEF OInv, OutboxTypeOK
  <1>7. \A g \in Flusher : \A i \in batch'[g] : Visible(i)
    BY <1>2, <1>3 DEF OInv, OutboxTypeOK, BatchVisible
  <1>8. \A g \in Flusher : held'[g] \in batch'[g] \cup {0}
    BY <1>3 DEF OInv, OutboxTypeOK
  <1> QED BY <1>3, <1>4, <1>5, <1>6, <1>7, <1>8, InPlace DEF OInv, OutboxTypeOK

\* A step that rewrites one row and keeps it keeps every row.
LEMMA OneRow ==
    ASSUME OInv, NEW i \in Ids, NEW r, Keeps(rows[i], r), r.sent > 0 => Visible(i),
           rows' = [rows EXCEPT ![i] = r]
    PROVE  /\ rows' = [j \in Ids |-> rows'[j]]
           /\ \A j \in Ids : RowKept(j)
  <1>1. \A j \in Ids : rows[j] \in Row
    BY RowsTyped
  <1>2. rows = [j \in Ids |-> rows[j]]
    BY DEF OInv, OutboxTypeOK, Ids
  <1>3. rows' = [j \in Ids |-> rows'[j]] /\ rows'[i] = r
        /\ \A j \in Ids \ {i} : rows'[j] = rows[j]
    BY <1>2 DEF Ids
  <1>4. ASSUME NEW j \in Ids, j # i PROVE RowKept(j)
    <2>1. rows'[j] = rows[j] /\ rows[j] \in Row /\ rows[j].sent \in Nat
      BY <1>1, <1>3, <1>4, RowFields
    <2> QED
      BY <2>1 DEF RowKept, Keeps, OInv, SentVisible, StampedWasSent
  <1>5. RowKept(i)
    BY <1>3 DEF RowKept, Keeps
  <1> QED BY <1>3, <1>4, <1>5

\* A publish, successful or not: the row's transaction has committed.
LEMMA SentStep ==
    ASSUME OInv, NEW f \in Flusher, NEW i \in batch[f], NEW n \in {0, 1},
           rows' = [rows EXCEPT ![i].sent = @ + n]
    PROVE  /\ i \in Ids
           /\ rows' = [j \in Ids |-> rows'[j]]
           /\ \A j \in Ids : RowKept(j)
           /\ rows'[i].sent = rows[i].sent + n
           /\ rows[i].sent \in Nat
  <1>0. i \in Ids
    BY DEF OInv, OutboxTypeOK
  <1>1. i \in Ids /\ rows[i] \in Row /\ rows[i].sent \in Nat
    BY <1>0, RowsTyped, RowFields
  <1> DEFINE r == [rows[i] EXCEPT !.sent = @ + n]
  <1>2. /\ r \in Row /\ r.poison = rows[i].poison /\ r.state = rows[i].state
        /\ r.sent = rows[i].sent + n /\ r.write = rows[i].write /\ r.tx = rows[i].tx
    BY <1>1, SentUpdate, Zenon
  <1>3. rows' = [rows EXCEPT ![i] = r]
    OBVIOUS
  <1>4. Visible(i)
    BY DEF OInv, BatchVisible
  <1>5. rows[i].state = "published" => rows[i].poison \/ r.sent > 0
    BY <1>1, <1>2 DEF OInv, StampedWasSent
  <1>6. rows'[i] = r
    BY <1>1, <1>3 DEF OInv, OutboxTypeOK, Ids
  <1> HIDE DEF r
  <1>7. Keeps(rows[i], r)
    BY <1>1, <1>2, <1>5 DEF Keeps
  <1> QED BY <1>1, <1>2, <1>3, <1>4, <1>6, <1>7, OneRow

\* The row published is held until it is stamped.
LEMMA PublishStep ==
    ASSUME OInv, NEW f \in Flusher, NEW i \in batch[f], Publish(f, i)
    PROVE  OInv'
  <1>0. i \in Ids /\ rows[i] \in Row
    BY RowsTyped DEF OInv, OutboxTypeOK
  <1>1. PICK n \in {0, 1} : /\ rows' = [rows EXCEPT ![i].sent = @ + n]
                            /\ rows[i].poison \/ n = 1
    <2>1. CASE rows[i].poison
      <3>1. rows' = [rows EXCEPT ![i].sent = rows[i].sent]
        BY <2>1 DEF Publish
      <3>2. rows[i].sent + 0 = rows[i].sent
        BY <1>0, RowFields
      <3> QED BY <2>1, <3>1, <3>2
    <2>2. CASE ~rows[i].poison
      BY <2>2 DEF Publish
    <2> QED BY <2>1, <2>2
  <1>2. /\ rows' = [j \in Ids |-> rows'[j]]
        /\ \A j \in Ids : RowKept(j)
        /\ rows'[i].sent = rows[i].sent + n /\ rows[i].sent \in Nat
    BY <1>1, SentStep
  <1>3. /\ batch' = batch /\ failures' = failures /\ held' = [held EXCEPT ![f] = i]
        /\ writes' = writes
        /\ i \in Nat
    BY <1>0 DEF Publish, Ids, OInv, OutboxTypeOK
  <1>4. rows'[i].poison \/ rows'[i].sent > 0
    BY <1>0, <1>1, <1>2 DEF RowKept, Keeps
  <1>5. \A g \in Flusher : held'[g] = held[g] \/ (g = f /\ held'[g] = i)
    BY <1>3
  <1>6. \A g \in Flusher : held'[g] \in batch'[g] \cup {0}
    BY <1>3, <1>5 DEF OInv, OutboxTypeOK
  <1> QED
    BY <1>2, <1>3, <1>4, <1>5, <1>6, InPlace DEF OInv, OutboxTypeOK, BatchVisible

\* Leaving a pass leaves work to others, and adds none.
LEMMA AbandonStep ==
    ASSUME OInv, NEW f \in Flusher, Abandon(f), failures' \in 0..MaxFailures,
           writes' = writes, rows' = [j \in Ids |-> rows'[j]], \A j \in Ids : RowKept(j)
    PROVE  OInv'
  <1>1. batch' = [batch EXCEPT ![f] = {}] /\ held' = [held EXCEPT ![f] = 0]
    BY DEF Abandon
  <1>2. batch' \in [Flusher -> SUBSET Ids] /\ \A g \in Flusher : batch'[g] \subseteq batch[g]
    BY <1>1 DEF OInv, OutboxTypeOK
  <1>3. \A g \in Flusher : held'[g] \in batch'[g] \cup {0} /\ (held'[g] # 0 => held'[g] = held[g])
    BY <1>1 DEF OInv, OutboxTypeOK
  <1>4. held' \in [Flusher -> Nat]
    BY <1>1 DEF OInv, OutboxTypeOK
  <1> QED BY <1>2, <1>3, <1>4, InPlace DEF OInv, BatchVisible

\* A stamp comes after its publish.
LEMMA StampStep ==
    ASSUME OInv, NEW f \in Flusher, Stamp(f)
    PROVE  OInv'
  <1> DEFINE i == held[f]
             r == [rows[i] EXCEPT !.state = "published", !.claimed = FALSE]
  <1>0. i \in Ids
    BY DEF Stamp, OInv, OutboxTypeOK
  <1>1. /\ i \in Ids /\ rows[i] \in Row /\ rows[i].sent \in Nat
        /\ rows[i].poison \/ rows[i].sent > 0
    BY <1>0, RowsTyped, RowFields DEF Stamp, OInv, HeldWasSent
  <1>2. /\ r \in Row /\ r.poison = rows[i].poison /\ r.state = "published"
        /\ r.sent = rows[i].sent /\ r.write = rows[i].write /\ r.tx = rows[i].tx
    BY <1>1, StampUpdate
  <1>3. rows' = [rows EXCEPT ![i] = r]
    BY DEF Stamp
  <1>4. /\ batch' = [batch EXCEPT ![f] = @ \ {i}] /\ held' = [held EXCEPT ![f] = 0]
        /\ failures' = failures /\ writes' = writes
    BY DEF Stamp
  <1> HIDE DEF i, r
  <1>5. Keeps(rows[i], r)
    BY <1>1, <1>2 DEF Keeps
  <1>6. rows' = [j \in Ids |-> rows'[j]] /\ \A j \in Ids : RowKept(j)
    BY <1>0, <1>2, <1>3, <1>5, OneRow DEF OInv, SentVisible
  <1>7. batch' \in [Flusher -> SUBSET Ids] /\ \A g \in Flusher : batch'[g] \subseteq batch[g]
    BY <1>4 DEF OInv, OutboxTypeOK
  <1>8. \A g \in Flusher : held'[g] \in batch'[g] \cup {0} /\ (held'[g] # 0 => held'[g] = held[g])
    BY <1>4 DEF OInv, OutboxTypeOK
  <1> QED BY <1>4, <1>6, <1>7, <1>8, InPlace DEF OInv, OutboxTypeOK, BatchVisible

\* A lease that runs out changes neither the row's state nor its copies.
LEMMA LeaseStep ==
    ASSUME OInv, NEW i \in Ids, rows' = [rows EXCEPT ![i].claimed = FALSE],
           writes' = writes, batch' = batch, held' = held, failures' \in 0..MaxFailures
    PROVE  OInv'
  <1> DEFINE r == [rows[i] EXCEPT !.claimed = FALSE]
  <1>1. rows[i] \in Row /\ rows[i].sent \in Nat
    BY RowsTyped, RowFields
  <1>2. /\ r \in Row /\ r.poison = rows[i].poison /\ r.state = rows[i].state
        /\ r.sent = rows[i].sent /\ r.write = rows[i].write /\ r.tx = rows[i].tx
        /\ rows' = [rows EXCEPT ![i] = r]
    BY <1>1, LeaseUpdate
  <1> HIDE DEF r
  <1>3. Keeps(rows[i], r)
    BY <1>1, <1>2 DEF Keeps, OInv, StampedWasSent
  <1>4. rows' = [j \in Ids |-> rows'[j]] /\ \A j \in Ids : RowKept(j)
    BY <1>2, <1>3, OneRow DEF OInv, SentVisible
  <1> QED BY <1>4, InPlace DEF OInv, OutboxTypeOK, BatchVisible

\* The inductive step: one case per action.
LEMMA OInvNext == OInv /\ [Next]_vars => OInv'
  <1> SUFFICES ASSUME OInv, [Next]_vars PROVE OInv'
    OBVIOUS
  <1>0. CASE Begin
    BY <1>0, BeginStep
  <1>1. ASSUME NEW k \in Key \cup {NoKey}, NEW bad \in BOOLEAN,
               \/ \E w \in Writes : Announce(w, k, bad)
               \/ Feedback(k, bad)
        PROVE  OInv'
    BY <1>1, EnqueueStep DEF Announce, Feedback
  <1>2. ASSUME NEW w \in Writes, NEW end \in {"committed", "aborted"}, EndTransaction(w, end)
        PROVE  OInv'
    BY <1>2, EndStep
  <1>3. ASSUME NEW f \in Flusher, Flush(f)
        PROVE  OInv'
    <2>1. CASE Claim(f)
      BY <2>1, ClaimStep
    <2>2. ASSUME NEW i \in batch[f], Publish(f, i) PROVE OInv'
      BY <2>2, PublishStep
    <2>3. ASSUME NEW i \in batch[f], PublishFails(f, i) PROVE OInv'
      <3>1. PICK n \in {0, 1} : rows' = [rows EXCEPT ![i].sent = @ + n]
        BY <2>3 DEF PublishFails
      <3>2. Abandon(f) /\ failures' \in 0..MaxFailures /\ writes' = writes
        BY <2>3, OutboxAssumption DEF PublishFails, MayFail, OInv, OutboxTypeOK
      <3> QED BY <3>1, <3>2, SentStep, AbandonStep
    <2>4. CASE Stamp(f)
      BY <2>4, StampStep
    <2>5. CASE PassFails(f)
      <3>1. Abandon(f) /\ failures' \in 0..MaxFailures /\ rows' = rows /\ writes' = writes
        BY <2>5, OutboxAssumption DEF PassFails, MayFail, OInv, OutboxTypeOK
      <3>2. rows = [j \in Ids |-> rows[j]]
        BY DEF OInv, OutboxTypeOK, Ids
      <3>3. ASSUME NEW j \in Ids PROVE RowKept(j)
        <4>1. rows'[j] \in Row /\ rows'[j] = rows[j] /\ rows[j].sent \in Nat
          BY <3>1, RowsTyped, RowFields
        <4> QED BY <4>1 DEF RowKept, Keeps, OInv, SentVisible, StampedWasSent
      <3> QED BY <3>1, <3>2, <3>3, AbandonStep
    <2> QED BY <1>3, <2>1, <2>2, <2>3, <2>4, <2>5 DEF Flush
  <1>4. ASSUME NEW i \in Ids, Expire(i) \/ ExpireEarly(i)
        PROVE  OInv'
    <2>1. /\ rows' = [rows EXCEPT ![i].claimed = FALSE] /\ batch' = batch
          /\ held' = held /\ failures' \in 0..MaxFailures /\ writes' = writes
      BY <1>4, OutboxAssumption DEF Expire, ExpireEarly, MayFail, OInv, OutboxTypeOK
    <2> QED BY <2>1, LeaseStep
  <1>5. CASE UNCHANGED vars
    BY <1>5 DEF vars, OInv, OutboxTypeOK, Ids, Writes, InOwnTransaction, Visible,
               BatchVisible, SentVisible, HeldWasSent, StampedWasSent
  <1> QED BY <1>0, <1>1, <1>2, <1>3, <1>4, <1>5 DEF Next

\* The outbox keeps its invariant: announcements share the transaction of
\* their write, work is on visible rows and a stamp follows a publish.
THEOREM OutboxInvariant == Spec => []OInv
  <1>1. Init => OInv  BY OInvInit
  <1>2. OInv /\ [Next]_vars => OInv'  BY OInvNext
  <1> QED BY <1>1, <1>2, PTL DEF Spec

\* The broker never has the announcement of a write that is still open or was
\* rolled back, however transactions, replicas and failures interleave
\* (promote enqueues in the transaction of the write).
THEOREM OnlyCommittedSent == Spec => []AnnouncedWasWritten
  <1>1. OInv => AnnouncedWasWritten
    BY DEF OInv, InOwnTransaction, SentVisible, Visible, AnnouncedWasWritten
  <1> QED BY <1>1, OutboxInvariant, PTL

\* No row is stamped published that the broker has not received, unless it
\* cannot be decoded (flush_once, mark_published).
THEOREM NothingStampedUnsent == Spec => []StampedWasSent
  <1>1. OInv => StampedWasSent  BY DEF OInv
  <1> QED BY <1>1, OutboxInvariant, PTL
-----------------------------------------------------------------------------
(***************************************************************************)
(* Duplicates and failures. DuplicatesNeedFailures says nothing of the     *)
(* copies still to come: a row that two flushers work on is about to be    *)
(* sent twice. The invariant counts, with the copies a row has, the ones   *)
(* it gets if nothing fails any more: one from every flusher that has it   *)
(* in its batch and has not sent it, and one from the next claim if the    *)
(* row is pending and free or will be when its lease is over. Only a       *)
(* failure or an early lapse adds to that number, and only for one row.    *)
(***************************************************************************)

\* The flushers about to publish row i.
Workers(i) == {f \in Flusher : i \in batch[f] /\ held[f] # i}

\* Another claim will find row i.
Due(i) ==
    /\ rows[i].state = "pending"
    /\ ~rows[i].claimed \/ \A f \in Flusher : i \notin batch[f]

\* The copies of row i, those to come included.
Copies(i) == rows[i].sent + Cardinality(Workers(i)) + (IF Due(i) THEN 1 ELSE 0)

Surplus == UNION {{i} \X (2..Copies(i)) : i \in Ids}

SurplusPaid == IsFiniteSet(Surplus) /\ Cardinality(Surplus) <= failures

LEMMA WorkersFinite ==
    ASSUME NEW W, W \subseteq Flusher
    PROVE  IsFiniteSet(W) /\ Cardinality(W) \in Nat
  BY OutboxAssumption, FS_Subset, FS_CardinalityType

LEMMA CopiesTyped ==
    ASSUME OInv
    PROVE  \A i \in Ids : Copies(i) \in Nat
  <1> SUFFICES ASSUME NEW i \in Ids PROVE Copies(i) \in Nat
    OBVIOUS
  <1>1. rows[i].sent \in Nat
    BY RowsTyped, RowFields
  <1>2. Workers(i) \subseteq Flusher
    BY DEF Workers
  <1>3. Cardinality(Workers(i)) \in Nat
    BY <1>2, WorkersFinite
  <1> QED BY <1>1, <1>3 DEF Copies

\* The same of the state after a step.
LEMMA NextCopiesTyped ==
    ASSUME OInv'
    PROVE  \A i \in Ids' : Copies(i)' \in Nat
  <1> SUFFICES ASSUME NEW i \in Ids' PROVE Copies(i)' \in Nat
    OBVIOUS
  <1>1. rows'[i].sent \in Nat
    <2>1. rows'[i] \in Row
      BY DEF OInv, OutboxTypeOK, Ids
    <2> QED BY <2>1, RowFields
  <1>2. Workers(i)' \subseteq Flusher
    BY DEF Workers
  <1>3. Cardinality(Workers(i)') \in Nat
    BY <1>2, WorkersFinite
  <1> QED BY <1>1, <1>3 DEF Copies

\* No copy is added: nothing is to be paid.
LEMMA NoMoreCopies ==
    ASSUME OInv, OInv', SurplusPaid, Ids \subseteq Ids', failures' = failures,
           \A i \in Ids : Copies(i)' <= Copies(i),
           \A i \in Ids' \ Ids : Copies(i)' <= 1
    PROVE  SurplusPaid'
  <1>1. /\ \A i \in Ids : Copies(i) \in Nat
        /\ \A i \in Ids' : Copies(i)' \in Nat
    BY CopiesTyped, NextCopiesTyped
  <1>2. ASSUME NEW i \in Ids', NEW c \in 2..(Copies(i)')
        PROVE  i \in Ids /\ c \in 2..Copies(i)
    BY <1>1
  <1>3. Surplus' \subseteq Surplus
    <2> HIDE DEF Copies, Ids
    <2> QED BY <1>2 DEF Surplus
  <1>4. IsFiniteSet(Surplus') /\ Cardinality(Surplus') <= Cardinality(Surplus)
    BY <1>3, FS_Subset DEF SurplusPaid
  <1>5. Cardinality(Surplus) \in Nat /\ Cardinality(Surplus') \in Nat /\ failures \in Nat
    BY <1>4, FS_CardinalityType, OutboxAssumption DEF SurplusPaid, OInv, OutboxTypeOK
  <1> QED BY <1>4, <1>5 DEF SurplusPaid

\* A failure pays for one more copy of one row.
LEMMA OneMoreCopy ==
    ASSUME OInv, OInv', SurplusPaid, NEW j \in Ids, Ids' = Ids, failures' = failures + 1,
           \A i \in Ids \ {j} : Copies(i)' <= Copies(i),
           Copies(j)' <= Copies(j) + 1
    PROVE  SurplusPaid'
  <1>1. \A i \in Ids : Copies(i) \in Nat /\ Copies(i)' \in Nat
    BY CopiesTyped, NextCopiesTyped
  <1> DEFINE d == <<j, Copies(j) + 1>>
  <1>2. ASSUME NEW i \in Ids, NEW c \in 2..(Copies(i)')
        PROVE  c \in 2..Copies(i) \/ <<i, c>> = d
    <2>1. CASE i # j
      BY <1>1, <2>1
    <2>2. CASE i = j
      <3>1. c \in 2..Copies(j) \/ c = Copies(j) + 1
        BY <1>1, <2>2
      <3> QED BY <2>2, <3>1
    <2> QED BY <2>1, <2>2
  <1>3. Surplus' \subseteq Surplus \cup {d}
    <2> HIDE DEF d
    <2> QED BY <1>2 DEF Surplus
  <1> HIDE DEF d
  <1>4. /\ IsFiniteSet(Surplus \cup {d})
        /\ Cardinality(Surplus \cup {d}) =
              IF d \in Surplus THEN Cardinality(Surplus) ELSE Cardinality(Surplus) + 1
    BY FS_AddElement DEF SurplusPaid
  <1>5. /\ IsFiniteSet(Surplus')
        /\ Cardinality(Surplus') <= Cardinality(Surplus \cup {d})
    BY <1>3, <1>4, FS_Subset
  <1>6. Cardinality(Surplus) \in Nat /\ Cardinality(Surplus') \in Nat /\ failures \in Nat
    BY <1>5, FS_CardinalityType, OutboxAssumption DEF SurplusPaid, OInv, OutboxTypeOK
  <1> QED BY <1>4, <1>5, <1>6 DEF SurplusPaid

\* A row that the step does not touch: no row is sent, no flusher changes its
\* mind about it.
LEMMA SameCopies ==
    ASSUME NEW i, rows'[i] = rows[i],
           \A f \in Flusher : i \in batch'[f] <=> i \in batch[f],
           \A f \in Flusher : held'[f] = i <=> held[f] = i
    PROVE  Copies(i)' = Copies(i)
  <1>1. Workers(i)' = Workers(i)
    BY DEF Workers
  <1>2. Due(i)' = Due(i)
    BY DEF Due
  <1> QED BY <1>1, <1>2 DEF Copies

\* A row that flusher f was about to publish and is no longer.
LEMMA OneWorkerLess ==
    ASSUME NEW i, NEW f \in Flusher,
           Workers(i)' = Workers(i) \ {f}, f \in Workers(i)
    PROVE  /\ Cardinality(Workers(i)) \in Nat
           /\ Cardinality(Workers(i)') = Cardinality(Workers(i)) - 1
  <1>1. Workers(i) \subseteq Flusher
    BY DEF Workers
  <1>2. IsFiniteSet(Workers(i)) /\ Cardinality(Workers(i)) \in Nat
    BY <1>1, WorkersFinite
  <1> QED BY <1>2, FS_RemoveElement

\* The empty table has no copies.
LEMMA SurplusInit == Init => SurplusPaid
  <1> SUFFICES ASSUME Init PROVE SurplusPaid
    OBVIOUS
  <1>1. Ids = {} /\ failures = 0
    BY DEF Init, Ids
  <1>2. Surplus = {}
    BY <1>1 DEF Surplus
  <1>3. Cardinality(Surplus) = 0 /\ IsFiniteSet(Surplus)
    BY <1>2, FS_EmptySet
  <1> QED BY <1>1, <1>3 DEF SurplusPaid

\* A new row is sent once.
LEMMA SurplusEnqueue ==
    ASSUME OInv, OInv', SurplusPaid, NEW w \in Writes \cup {Pool}, NEW k \in Key \cup {NoKey},
           NEW bad \in BOOLEAN, Enqueue(w, w, k, bad)
    PROVE  SurplusPaid'
  <1> DEFINE r == [key |-> k, poison |-> bad, claimed |-> FALSE, sent |-> 0,
                   write |-> w, tx |-> w, state |-> "pending"]
  <1>0. PICK n : n = Len(rows) + 1
    OBVIOUS
  <1>1. /\ rows \in Seq(Row) /\ rows' = Append(rows, r)
        /\ batch' = batch /\ held' = held /\ failures' = failures
        /\ batch \in [Flusher -> SUBSET Ids]
    BY DEF Enqueue, OInv, OutboxTypeOK
  <1>2. /\ Ids' = Ids \cup {n} /\ n \notin Ids /\ \A i \in Ids : rows'[i] = rows[i]
        /\ rows'[n] = r
    BY <1>0, <1>1 DEF Ids
  <1>3. \A i \in Ids : Copies(i)' = Copies(i)
    BY <1>1, <1>2, SameCopies
  <1>4. Copies(n)' <= 1
    <2>1. Workers(n)' = {}
      BY <1>1, <1>2 DEF Workers
    <2>2. Cardinality(Workers(n)') = 0
      BY <2>1, FS_EmptySet
    <2>3. rows'[n].sent = 0
      BY <1>2
    <2>4. Copies(n)' = rows'[n].sent + Cardinality(Workers(n)') + (IF Due(n)' THEN 1 ELSE 0)
      BY DEF Copies
    <2> QED BY <2>2, <2>3, <2>4
  <1>5. /\ Ids \subseteq Ids' /\ Ids' \ Ids = {n}
    BY <1>2
  <1>6. \A i \in Ids : Copies(i)' <= Copies(i)
    BY <1>3, CopiesTyped
  <1> QED BY <1>1, <1>4, <1>5, <1>6, NoMoreCopies

\* The rows of a step that rewrites one of them.
LEMMA OtherRows ==
    ASSUME OInv, NEW i \in Ids, NEW r, rows' = [rows EXCEPT ![i] = r]
    PROVE  Ids' = Ids /\ rows'[i] = r /\ \A j \in Ids \ {i} : rows'[j] = rows[j]
  BY DEF OInv, OutboxTypeOK, Ids

\* The transactions send nothing.
LEMMA SurplusWrites ==
    ASSUME SurplusPaid, Begin \/ \E w \in Writes, end \in {"committed", "aborted"} :
                                     EndTransaction(w, end)
    PROVE  SurplusPaid'
  <1>1. rows' = rows /\ batch' = batch /\ held' = held /\ failures' = failures
    BY DEF Begin, EndTransaction
  <1>2. Surplus' = Surplus
    BY <1>1 DEF Surplus, Copies, Workers, Due, Ids
  <1> QED BY <1>1, <1>2 DEF SurplusPaid

\* A claim turns the copy a row is due into one its flusher is to send.
LEMMA SurplusClaim ==
    ASSUME OInv, OInv', SurplusPaid, NEW f \in Flusher, Claim(f)
    PROVE  SurplusPaid'
  <1> DEFINE O == Oldest(Claimable)
  <1>1. /\ O \subseteq Ids
        /\ \A i \in O : rows[i].state = "pending" /\ ~rows[i].claimed
    BY DEF Oldest, Claimable
  <1>2. /\ rows' = [i \in Ids |-> IF i \in O THEN [rows[i] EXCEPT !.claimed = TRUE]
                                 ELSE rows[i]]
        /\ batch' = [batch EXCEPT ![f] = O]
        /\ held' = held /\ failures' = failures /\ batch[f] = {} /\ held[f] = 0
        /\ batch \in [Flusher -> SUBSET Ids]
    BY DEF Claim, OInv, OutboxTypeOK
  <1>3. Ids' = Ids
    BY <1>2 DEF Ids
  <1> HIDE DEF O
  <1>4. ASSUME NEW i \in Ids, i \notin O PROVE Copies(i)' = Copies(i)
    <2>1. rows'[i] = rows[i]
      BY <1>2, <1>4
    <2>2. \A g \in Flusher : i \in batch'[g] <=> i \in batch[g]
      BY <1>2, <1>4
    <2> QED BY <1>2, <2>1, <2>2, SameCopies
  <1>5. ASSUME NEW i \in O PROVE Copies(i)' = Copies(i)
    <2>0. i \in Ids /\ i # 0 /\ rows[i] \in Row
      BY <1>1, <1>5, RowsTyped DEF OInv, OutboxTypeOK, Ids
    <2>1. rows'[i] = [rows[i] EXCEPT !.claimed = TRUE]
      BY <1>2, <1>5, <2>0
    <2>2. rows'[i].sent = rows[i].sent /\ rows'[i].claimed = TRUE /\ rows[i].sent \in Nat
      BY <2>0, <2>1 DEF Row
    <2>3. Workers(i)' = Workers(i) \cup {f} /\ f \notin Workers(i)
      BY <1>2, <1>5, <2>0 DEF Workers
    <2>4. Workers(i) \subseteq Flusher
      BY DEF Workers
    <2>5. /\ Cardinality(Workers(i)) \in Nat
          /\ Cardinality(Workers(i)') = Cardinality(Workers(i)) + 1
      BY <2>3, <2>4, WorkersFinite, FS_AddElement
    <2>6. Due(i)
      BY <1>1, <1>5 DEF Due
    <2>7. ~Due(i)'
      BY <1>2, <1>5, <2>2 DEF Due
    <2> QED BY <2>2, <2>5, <2>6, <2>7 DEF Copies
  <1>6. \A i \in Ids : Copies(i)' <= Copies(i)
    BY <1>4, <1>5, CopiesTyped
  <1> QED BY <1>2, <1>3, <1>6, NoMoreCopies

\* A publish sends the copy its flusher had to send.
LEMMA SurplusPublish ==
    ASSUME OInv, OInv', SurplusPaid, NEW f \in Flusher, NEW i \in batch[f], Publish(f, i)
    PROVE  SurplusPaid'
  <1> DEFINE r == [rows[i] EXCEPT !.sent = IF rows[i].poison THEN @ ELSE @ + 1]
  <1>0. i \in Ids /\ i # 0 /\ rows[i] \in Row /\ rows[i].sent \in Nat
    <2>1. i \in Ids
      BY DEF OInv, OutboxTypeOK
    <2> QED BY <2>1, RowsTyped, RowFields DEF OInv, OutboxTypeOK, Ids
  <1>1. /\ held[f] = 0 /\ rows' = [rows EXCEPT ![i] = r] /\ held' = [held EXCEPT ![f] = i]
        /\ batch' = batch /\ failures' = failures /\ held \in [Flusher -> Nat]
    BY DEF Publish, OInv, OutboxTypeOK
  <1>2. Ids' = Ids /\ rows'[i] = r /\ \A j \in Ids \ {i} : rows'[j] = rows[j]
    BY <1>0, <1>1, OtherRows
  <1>3. /\ r.sent \in Nat /\ r.sent <= rows[i].sent + 1
        /\ r.state = rows[i].state /\ r.claimed = rows[i].claimed
    BY <1>0 DEF Row
  <1> HIDE DEF r
  <1>4. ASSUME NEW j \in Ids \ {i} PROVE Copies(j)' = Copies(j)
    <2>1. j # 0
      BY DEF OInv, OutboxTypeOK, Ids
    <2>2. \A g \in Flusher : held'[g] = j <=> held[g] = j
      BY <1>1, <2>1
    <2> QED BY <1>1, <1>2, <2>2, SameCopies
  <1>5. Copies(i)' <= Copies(i)
    <2>1. Workers(i)' = Workers(i) \ {f} /\ f \in Workers(i)
      BY <1>0, <1>1 DEF Workers
    <2>2. /\ Cardinality(Workers(i)) \in Nat
          /\ Cardinality(Workers(i)') = Cardinality(Workers(i)) - 1
      BY <2>1, OneWorkerLess
    <2>3. Due(i)' = Due(i)
      BY <1>1, <1>2, <1>3 DEF Due
    <2> QED BY <1>0, <1>2, <1>3, <2>2, <2>3 DEF Copies
  <1>6. \A j \in Ids : Copies(j)' <= Copies(j)
    BY <1>4, <1>5, CopiesTyped
  <1> QED BY <1>1, <1>2, <1>6, NoMoreCopies

\* Leaving a pass: a row not yet sent is due again at most, so that nothing
\* is added unless the row was sent.
LEMMA AbandonCopies ==
    ASSUME OInv, NEW f \in Flusher, Abandon(f), NEW i \in Ids,
           NEW n \in Nat, rows'[i].sent = rows[i].sent + n,
           rows'[i].state = rows[i].state, rows'[i].claimed = rows[i].claimed
    PROVE  /\ held[f] # i => Copies(i)' <= Copies(i) + n
           /\ Copies(i)' <= Copies(i) + n + 1
  <1>0. /\ i # 0 /\ rows[i].sent \in Nat
        /\ batch' = [batch EXCEPT ![f] = {}] /\ held' = [held EXCEPT ![f] = 0]
        /\ batch \in [Flusher -> SUBSET Ids] /\ held \in [Flusher -> Nat]
    BY RowsTyped, RowFields DEF OInv, OutboxTypeOK, Abandon, Ids
  <1>1. Workers(i) \subseteq Flusher
    BY DEF Workers
  <1>2. Cardinality(Workers(i)) \in Nat
    BY <1>1, WorkersFinite
  <1>3. CASE i \in batch[f] /\ held[f] # i
    <2>1. Workers(i)' = Workers(i) \ {f} /\ f \in Workers(i)
      BY <1>0, <1>3 DEF Workers
    <2>2. Cardinality(Workers(i)') = Cardinality(Workers(i)) - 1
      BY <2>1, OneWorkerLess
    <2> QED BY <1>0, <1>2, <2>2 DEF Copies
  <1>4. CASE i \in batch[f] /\ held[f] = i
    <2>1. Workers(i)' = Workers(i)
      BY <1>0, <1>4 DEF Workers
    <2> QED BY <1>0, <1>2, <1>4, <2>1 DEF Copies
  <1>5. CASE i \notin batch[f]
    <2>1. Workers(i)' = Workers(i)
      BY <1>0, <1>5 DEF Workers
    <2>2. Due(i)' = Due(i)
      BY <1>0, <1>5 DEF Due
    <2> QED BY <1>0, <1>2, <2>1, <2>2 DEF Copies
  <1> QED BY <1>3, <1>4, <1>5

\* A failed publish pays for the copy the broker may have.
LEMMA SurplusPublishFails ==
    ASSUME OInv, OInv', SurplusPaid, NEW f \in Flusher, NEW i \in batch[f], PublishFails(f, i)
    PROVE  SurplusPaid'
  <1>0. i \in Ids /\ rows[i] \in Row /\ rows[i].sent \in Nat
    <2>1. i \in Ids
      BY DEF OInv, OutboxTypeOK
    <2> QED BY <2>1, RowsTyped, RowFields
  <1>1. PICK n \in {0, 1} : rows' = [rows EXCEPT ![i].sent = @ + n]
    BY DEF PublishFails
  <1> DEFINE r == [rows[i] EXCEPT !.sent = @ + n]
  <1>2. rows' = [rows EXCEPT ![i] = r]
    BY <1>1
  <1>3. Ids' = Ids /\ rows'[i] = r /\ \A j \in Ids \ {i} : rows'[j] = rows[j]
    BY <1>0, <1>2, OtherRows
  <1>4. r.sent = rows[i].sent + n /\ r.state = rows[i].state /\ r.claimed = rows[i].claimed
    BY <1>0 DEF Row
  <1>5. Abandon(f) /\ failures' = failures + 1 /\ held[f] = 0
    BY DEF PublishFails, MayFail
  <1> HIDE DEF r
  <1>6. \A j \in Ids : j # 0
    BY DEF OInv, OutboxTypeOK, Ids
  <1>7. ASSUME NEW j \in Ids \ {i} PROVE Copies(j)' <= Copies(j)
    <2>1. rows[j].sent \in Nat
      BY RowsTyped, RowFields
    <2>2. rows'[j].sent = rows[j].sent + 0 /\ rows'[j] = rows[j]
      BY <1>3, <2>1
    <2>3. Copies(j)' <= Copies(j) + 0
      BY <1>5, <1>6, <2>2, AbandonCopies
    <2> QED BY <2>3, CopiesTyped
  <1>8. Copies(i)' <= Copies(i) + 1
    <2>1. Copies(i)' <= Copies(i) + n
      BY <1>0, <1>3, <1>4, <1>5, <1>6, AbandonCopies
    <2>2. Copies(i)' \in Nat /\ Copies(i) \in Nat
      BY <1>0, <1>3, CopiesTyped, NextCopiesTyped
    <2> QED BY <2>1, <2>2
  <1> QED BY <1>0, <1>3, <1>5, <1>7, <1>8, OneMoreCopy

\* A pass that fails may leave one row sent and not stamped.
LEMMA SurplusPassFails ==
    ASSUME OInv, OInv', SurplusPaid, NEW f \in Flusher, PassFails(f)
    PROVE  SurplusPaid'
  <1>1. Abandon(f) /\ failures' = failures + 1 /\ rows' = rows /\ batch[f] # {}
    BY DEF PassFails, MayFail
  <1>2. Ids' = Ids
    BY <1>1 DEF Ids
  <1>3. PICK j \in Ids : held[f] # 0 => held[f] = j
    BY <1>1 DEF OInv, OutboxTypeOK
  <1>4. ASSUME NEW i \in Ids PROVE /\ i # j => Copies(i)' <= Copies(i)
                                   /\ Copies(i)' <= Copies(i) + 1
    <2>1. rows[i].sent \in Nat /\ i # 0 /\ Copies(i) \in Nat
      BY RowsTyped, RowFields, CopiesTyped DEF OInv, OutboxTypeOK, Ids
    <2>2. rows'[i].sent = rows[i].sent + 0
      BY <1>1, <2>1
    <2>3. /\ held[f] # i => Copies(i)' <= Copies(i) + 0
          /\ Copies(i)' <= Copies(i) + 0 + 1
      BY <1>1, <2>2, AbandonCopies
    <2> QED BY <1>3, <2>1, <2>3
  <1> QED BY <1>1, <1>2, <1>4, OneMoreCopy

\* A stamped row is due no more.
LEMMA SurplusStamp ==
    ASSUME OInv, OInv', SurplusPaid, NEW f \in Flusher, Stamp(f)
    PROVE  SurplusPaid'
  <1>i. PICK i : i = held[f]
    OBVIOUS
  <1> DEFINE r == [rows[i] EXCEPT !.state = "published", !.claimed = FALSE]
  <1>0. i \in Ids /\ i # 0 /\ rows[i] \in Row /\ rows[i].sent \in Nat
    <2>1. i \in Ids /\ i # 0
      BY <1>i DEF Stamp, OInv, OutboxTypeOK
    <2> QED BY <2>1, RowsTyped, RowFields
  <1>1. /\ rows' = [rows EXCEPT ![i] = r] /\ batch' = [batch EXCEPT ![f] = @ \ {i}]
        /\ held' = [held EXCEPT ![f] = 0] /\ failures' = failures
        /\ batch \in [Flusher -> SUBSET Ids] /\ held \in [Flusher -> Nat]
    BY <1>i DEF Stamp, OInv, OutboxTypeOK
  <1>2. Ids' = Ids /\ rows'[i] = r /\ \A j \in Ids \ {i} : rows'[j] = rows[j]
    BY <1>0, <1>1, OtherRows
  <1>3. r.sent = rows[i].sent /\ r.state = "published"
    BY <1>0 DEF Row
  <1> HIDE DEF r
  <1>4. ASSUME NEW j \in Ids \ {i} PROVE Copies(j)' = Copies(j)
    <2>1. j # 0
      BY DEF OInv, OutboxTypeOK, Ids
    <2>2. \A g \in Flusher : held'[g] = j <=> held[g] = j
      BY <1>i, <1>1, <2>1
    <2>3. \A g \in Flusher : j \in batch'[g] <=> j \in batch[g]
      BY <1>1
    <2> QED BY <1>2, <2>2, <2>3, SameCopies
  <1>5. Copies(i)' <= Copies(i)
    <2>1. Workers(i)' = Workers(i)
      BY <1>i, <1>0, <1>1 DEF Workers
    <2>2. ~Due(i)'
      BY <1>2, <1>3 DEF Due
    <2>3. Workers(i) \subseteq Flusher
      BY DEF Workers
    <2>4. Cardinality(Workers(i)) \in Nat
      BY <2>3, WorkersFinite
    <2> QED BY <1>0, <1>2, <1>3, <2>1, <2>2, <2>4 DEF Copies
  <1>6. \A j \in Ids : Copies(j)' <= Copies(j)
    BY <1>4, <1>5, CopiesTyped
  <1> QED BY <1>1, <1>2, <1>6, NoMoreCopies

\* A lease that ends with no flusher at work changes nothing, an early end
\* pays for the flusher still at work.
LEMMA SurplusExpire ==
    ASSUME OInv, OInv', SurplusPaid, NEW i \in Ids, Expire(i) \/ ExpireEarly(i)
    PROVE  SurplusPaid'
  <1> DEFINE r == [rows[i] EXCEPT !.claimed = FALSE]
  <1>0. rows[i] \in Row /\ rows[i].sent \in Nat
    BY RowsTyped, RowFields
  <1>1. rows' = [rows EXCEPT ![i] = r] /\ batch' = batch /\ held' = held
    BY DEF Expire, ExpireEarly
  <1>2. Ids' = Ids /\ rows'[i] = r /\ \A j \in Ids \ {i} : rows'[j] = rows[j]
    BY <1>1, OtherRows
  <1>3. r.sent = rows[i].sent /\ r.state = rows[i].state
    BY <1>0 DEF Row
  <1> HIDE DEF r
  <1>4. \A j \in Ids \ {i} : Copies(j)' = Copies(j)
    BY <1>1, <1>2, SameCopies
  <1>5. Workers(i)' = Workers(i)
    BY <1>1 DEF Workers
  <1>6. Workers(i) \subseteq Flusher
    BY DEF Workers
  <1>7. Cardinality(Workers(i)) \in Nat
    BY <1>6, WorkersFinite
  <1>8. \A j \in Ids \ {i} : Copies(j)' <= Copies(j)
    BY <1>4, CopiesTyped
  <1>9. CASE Expire(i)
    <2>1. Due(i)' => Due(i)
      BY <1>1, <1>2, <1>3, <1>9 DEF Due, Expire
    <2>2. Copies(i)' <= Copies(i)
      BY <1>0, <1>2, <1>3, <1>5, <1>7, <2>1 DEF Copies
    <2>3. failures' = failures
      BY <1>9 DEF Expire
    <2> QED BY <1>2, <1>8, <2>2, <2>3, NoMoreCopies
  <1>10. CASE ExpireEarly(i)
    <2>1. Copies(i)' <= Copies(i) + 1
      BY <1>0, <1>2, <1>3, <1>5, <1>7 DEF Copies
    <2>2. failures' = failures + 1
      BY <1>10 DEF ExpireEarly, MayFail
    <2> QED BY <1>2, <1>8, <2>1, <2>2, OneMoreCopy
  <1> QED BY <1>9, <1>10

LEMMA SurplusNext == OInv /\ OInv' /\ SurplusPaid /\ [Next]_vars => SurplusPaid'
  <1> SUFFICES ASSUME OInv, OInv', SurplusPaid, [Next]_vars PROVE SurplusPaid'
    OBVIOUS
  <1>0. CASE Begin
    BY <1>0, SurplusWrites
  <1>1. ASSUME NEW k \in Key \cup {NoKey}, NEW bad \in BOOLEAN,
               \/ \E w \in Writes : Announce(w, k, bad)
               \/ Feedback(k, bad)
        PROVE  SurplusPaid'
    BY <1>1, SurplusEnqueue DEF Announce, Feedback
  <1>2. ASSUME NEW w \in Writes, NEW end \in {"committed", "aborted"}, EndTransaction(w, end)
        PROVE  SurplusPaid'
    BY <1>2, SurplusWrites
  <1>3. ASSUME NEW f \in Flusher, Flush(f)
        PROVE  SurplusPaid'
    BY <1>3, SurplusClaim, SurplusPublish, SurplusPublishFails, SurplusStamp,
       SurplusPassFails DEF Flush
  <1>4. ASSUME NEW i \in Ids, Expire(i) \/ ExpireEarly(i)
        PROVE  SurplusPaid'
    BY <1>4, SurplusExpire
  <1>5. CASE UNCHANGED vars
    <2>1. Surplus' = Surplus
      BY <1>5 DEF vars, Surplus, Copies, Workers, Due, Ids
    <2> QED BY <1>5, <2>1 DEF vars, SurplusPaid
  <1> QED BY <1>0, <1>1, <1>2, <1>3, <1>4, <1>5 DEF Next

LEMMA SurplusCoversDuplicates ==
    ASSUME OInv, SurplusPaid
    PROVE  DuplicatesNeedFailures
  <1>1. ASSUME NEW i \in Ids, NEW c \in 2..rows[i].sent PROVE c \in 2..Copies(i)
    <2>1. Workers(i) \subseteq Flusher
      BY DEF Workers
    <2>2. Cardinality(Workers(i)) \in Nat /\ rows[i].sent \in Nat
      BY <2>1, WorkersFinite, RowsTyped, RowFields
    <2>3. rows[i].sent <= Copies(i) /\ Copies(i) \in Nat
      BY <2>2, CopiesTyped DEF Copies
    <2> QED BY <2>2, <2>3
  <1>2. Duplicates \subseteq Surplus
    BY <1>1 DEF Duplicates, Surplus
  <1>3. IsFiniteSet(Duplicates) /\ Cardinality(Duplicates) <= Cardinality(Surplus)
    BY <1>2, FS_Subset DEF SurplusPaid
  <1>4. /\ Cardinality(Surplus) \in Nat /\ Cardinality(Duplicates) \in Nat
        /\ failures \in Nat
    BY <1>3, FS_CardinalityType, OutboxAssumption DEF SurplusPaid, OInv, OutboxTypeOK
  <1> QED BY <1>3, <1>4 DEF DuplicatesNeedFailures, SurplusPaid

\* Every copy of a row beyond the first is paid for by a failed publish or
\* stamp, a crash or a lease that lapses during a pass, for any number of
\* replicas that claim from the same table (FOR UPDATE SKIP LOCKED, LEASE).
THEOREM DuplicatesPaid == Spec => []DuplicatesNeedFailures
  <1>1. Init => SurplusPaid  BY SurplusInit
  <1>2. OInv /\ OInv' /\ SurplusPaid /\ [Next]_vars => SurplusPaid'  BY SurplusNext
  <1>3. OInv /\ SurplusPaid => DuplicatesNeedFailures  BY SurplusCoversDuplicates
  <1> QED BY <1>1, <1>2, <1>3, OutboxInvariant, PTL DEF Spec
===============================================================================
