--------------------------- MODULE IngestionProofs ---------------------------
(***************************************************************************)
(* What ingestion keeps for every set of blocks and endpoints, every depth *)
(* and every bound, with restarts and lost fetches at any moment.          *)
(***************************************************************************)
EXTENDS Ingestion, BlockTreeProofs

\* Sift keeps a sequence whose elements are all in S.
LEMMA SiftAll ==
    ASSUME NEW X, NEW s \in Seq(X), NEW S, \A i \in 1..Len(s) : s[i] \in S
    PROVE  Sift(s, S) = s
<1>1. Len(s) \in Nat
  OBVIOUS
<1>2. PICK f : SiftsBy(f, s, S)
  BY <1>1, SiftRecursion
<1> DEFINE A == {n \in Nat : n <= Len(s) => f[n] = SubSeq(s, 1, n)}
<1>3. 0 \in A
  <2>1. SubSeq(s, 1, 0) = << >>
    OBVIOUS
  <2> QED BY <1>2, <2>1 DEF SiftsBy
<1>4. ASSUME NEW n \in Nat, n \in A PROVE n + 1 \in A
  <2> SUFFICES ASSUME n + 1 <= Len(s) PROVE f[n + 1] = SubSeq(s, 1, n + 1)
    OBVIOUS
  <2>1. f[n] = SubSeq(s, 1, n) /\ n + 1 \in 1..Len(s)
    BY <1>1, <1>4
  <2>2. f[n + 1] = Append(f[n], s[n + 1])
    BY <1>2, <2>1 DEF SiftsBy
  <2>3. Append(SubSeq(s, 1, n), s[n + 1]) = SubSeq(s, 1, n + 1)
    BY <2>1
  <2> QED BY <2>1, <2>2, <2>3
<1>5. Nat \subseteq A
  <2> HIDE DEF A
  <2> QED BY <1>3, <1>4, Induction
<1>6. f[Len(s)] = SubSeq(s, 1, Len(s))
  BY <1>1, <1>5
<1>7. SubSeq(s, 1, Len(s)) = s
  OBVIOUS
<1> QED BY <1>2, <1>6, <1>7 DEF SiftsBy

-----------------------------------------------------------------------------
(***************************************************************************)
(* The events of one step.                                                 *)
(***************************************************************************)
Event == [type : {"Assembled", "Reverted", "Canonicalized", "Finalized"},
          block : Block, by : Block \cup {NoBlock}]

\* u is the elements of s, then those of t.
Joins(u, s, t) ==
    /\ Len(u) = Len(s) + Len(t)
    /\ \A i \in 1..Len(s) : u[i] = s[i]
    /\ \A i \in 1..Len(t) : u[Len(s) + i] = t[i]

LEMMA ConcatShape ==
    ASSUME NEW X, NEW s \in Seq(X), NEW t \in Seq(X)
    PROVE  s \o t \in Seq(X) /\ Joins(s \o t, s, t)
BY DEF Joins

\* Every height of rev is one of can's.
Covers(can, rev) ==
    \A i \in 1..Len(rev) : \E j \in 1..Len(can) : Number[can[j]] = Number[rev[i]]

\* The events ev revert rev, then put can in place.
RollsOver(ev, rev, can) ==
    /\ ev \in Seq(Event) /\ Len(ev) = Len(rev) + Len(can)
    /\ \A i \in 1..Len(rev) : ev[i].type = "Reverted" /\ ev[i].block = rev[i]
    /\ \A i \in 1..Len(can) : /\ ev[Len(rev) + i].type = "Canonicalized"
                              /\ ev[Len(rev) + i].block = can[i]

\* canonical_events drops no revert when every reverted height has a
\* replacement: the reverts come first, then the new branch.
LEMMA CanonicalEventsShape ==
    ASSUME NEW rev \in Seq(Block), NEW can \in Seq(Block), Covers(can, rev)
    PROVE  RollsOver(CanonicalEvents(rev, can), rev, can)
<1> DEFINE at(b) == {i \in DOMAIN can : Number[can[i]] = Number[b]}
           S == {b \in Block : at(b) # {}}
           revert(b) == [type |-> "Reverted", block |-> b,
                         by |-> can[CHOOSE i \in at(b) : TRUE]]
           back == [i \in DOMAIN rev |-> revert(rev[i])]
           fore == [i \in DOMAIN can |->
                       [type |-> "Canonicalized", block |-> can[i], by |-> NoBlock]]
<1>1. /\ DOMAIN rev = 1..Len(rev) /\ DOMAIN can = 1..Len(can)
      /\ Len(rev) \in Nat /\ Len(can) \in Nat
      /\ \A i \in 1..Len(rev) : rev[i] \in Block
      /\ \A i \in 1..Len(can) : can[i] \in Block
  OBVIOUS
<1>2. Sift(rev, S) = rev
  <2>1. \A i \in 1..Len(rev) : rev[i] \in S
    BY <1>1 DEF Covers
  <2> HIDE DEF S
  <2> QED BY <2>1, SiftAll
<1>3. CanonicalEvents(rev, can) = back \o fore
  <2>1. CanonicalEvents(rev, can) =
            [i \in DOMAIN Sift(rev, S) |-> revert(Sift(rev, S)[i])] \o fore
    BY DEF CanonicalEvents
  <2> HIDE DEF S, revert, fore
  <2> QED BY <1>2, <2>1
<1>4. \A i \in 1..Len(rev) : revert(rev[i]) \in Event
  <2> SUFFICES ASSUME NEW i \in 1..Len(rev) PROVE revert(rev[i]) \in Event
    OBVIOUS
  <2>1. at(rev[i]) # {} /\ at(rev[i]) \subseteq 1..Len(can)
    BY <1>1 DEF Covers
  <2>2. (CHOOSE m \in at(rev[i]) : TRUE) \in 1..Len(can)
    <3> HIDE DEF at
    <3> QED BY <2>1
  <2> HIDE DEF at
  <2>3. can[CHOOSE m \in at(rev[i]) : TRUE] \in Block
    BY <1>1, <2>2
  <2> QED BY <1>1, <2>3 DEF Event
<1>5. /\ back \in Seq(Event) /\ Len(back) = Len(rev)
      /\ \A i \in 1..Len(rev) : back[i] = revert(rev[i])
  <2> HIDE DEF revert
  <2> QED BY <1>1, <1>4
<1>6. \A i \in 1..Len(can) :
         [type |-> "Canonicalized", block |-> can[i], by |-> NoBlock] \in Event
  BY <1>1 DEF Event
<1>7. /\ fore \in Seq(Event) /\ Len(fore) = Len(can)
      /\ \A i \in 1..Len(can) : fore[i].type = "Canonicalized" /\ fore[i].block = can[i]
  <2>1. fore \in Seq(Event) /\ Len(fore) = Len(can)
    BY <1>1, <1>6
  <2> QED BY <1>1, <2>1
<1>8. \A i \in 1..Len(rev) : back[i].type = "Reverted" /\ back[i].block = rev[i]
  BY <1>5
<1> HIDE DEF back, fore
<1>9. back \o fore \in Seq(Event) /\ Len(back \o fore) = Len(rev) + Len(can)
  <2>1. back \in Seq(Event) /\ fore \in Seq(Event)
    BY <1>5, <1>7
  <2>2. back \o fore \in Seq(Event) /\ Len(back \o fore) = Len(back) + Len(fore)
    BY <2>1
  <2> QED BY <1>5, <1>7, <2>2
<1>10. \A i \in 1..Len(rev) : (back \o fore)[i] = back[i]
  BY <1>1, <1>5, <1>7
<1>11. \A i \in 1..Len(can) : (back \o fore)[Len(rev) + i] = fore[i]
  BY <1>1, <1>5, <1>7
<1> QED BY <1>3, <1>7, <1>8, <1>9, <1>10, <1>11 DEF RollsOver

\* The parts of a queue of events: a announcements, r reverts, then k blocks
\* that become canonical.
Queued(p, a, r, k) ==
    /\ p \in Seq(Event) /\ Len(p) = a + r + k
    /\ \A i \in 1..a : p[i].type \in {"Assembled", "Finalized"}
    /\ \A i \in 1..r : p[a + i].type = "Reverted"
    /\ \A i \in 1..k : p[a + r + i].type = "Canonicalized"

\* add_block's canonical outcome, with the cuts of reorg_to.
LEMMA CanonicalOutcome ==
    ASSUME NEW t, TreeInv(t), NEW b \in Block, AddBlock(t, b).kind = "Canonical"
    PROVE  /\ \E j, k \in Nat : Replaces(t, b, AddBlock(t, b), j, k)
           /\ b \notin t.nodes
           /\ t.nodes # {} => Parent[b] \in t.nodes
           /\ Beats(Insert(t, b), b)
           /\ AddBlock(t, b).tree = PruneToDepth([Insert(t, b) EXCEPT !.tip = b])
<1> DEFINE r == AddBlock(t, b)
           up == ReorgTo(Insert(t, b), b)
<1>1. /\ b \notin t.nodes /\ (t.nodes # {} => Parent[b] \in t.nodes)
      /\ Beats(Insert(t, b), b)
      /\ r.tree = PruneToDepth([Insert(t, b) EXCEPT !.tip = b])
      /\ r.reverted = up.reverted /\ r.canonicalized = up.canonicalized
      /\ r.rejoins = up.rejoins
  BY AddBlockReturns
<1>2. PICK j, k \in Nat : Replaces(t, b, up, j, k)
  BY <1>1, ReorgReplaces
<1> HIDE DEF r, up
<1>3. Replaces(t, b, r, j, k)
  BY <1>1, <1>2 DEF Replaces
<1> QED BY <1>1, <1>3 DEF r

\* The events of a canonical update, by the cuts of reorg_to: the new head is
\* announced, the old chain taken back tip first, the new one put in place
\* ancestor first.
Announces(p, t, b, j, k) ==
    /\ Queued(p, 1, j, k)
    /\ p[1].type = "Assembled" /\ p[1].block = b
    /\ \A i \in 1..j : p[1 + i].block = CanonicalIter(t)[i]
    /\ \A i \in 1..k : p[1 + j + i].block = Walk(t.nodes \cup {b}, b)[k + 1 - i]

LEMMA CanonicalAnnounces ==
    ASSUME NEW t, TreeInv(t), NEW b \in Block, AddBlock(t, b).kind = "Canonical",
           NEW j \in Nat, NEW k \in Nat, Replaces(t, b, AddBlock(t, b), j, k)
    PROVE  Announces(StepEvents(AddBlock(t, b), b), t, b, j, k)
<1> DEFINE r == AddBlock(t, b)
           rev == r.reverted
           can == r.canonicalized
           chain == CanonicalIter(t)
           nodes == t.nodes \cup {b}
           branch == Walk(nodes, b)
           ce == CanonicalEvents(rev, can)
           ob == Observed(b)
           p == StepEvents(r, b)
<1>1. /\ j \in 0..Len(chain) /\ k \in 1..Len(branch)
      /\ rev = SubSeq(chain, 1, j) /\ can = Backwards(SubSeq(branch, 1, k))
  BY DEF Replaces
<1>2. Replayable(t, b, rev, can, r.rejoins)
  BY ReplacesIsReplayable
<1>3. chain \in Seq(Block)
  <2>1. CASE t.tip = NoBlock
    BY <2>1 DEF CanonicalIter
  <2>2. CASE t.tip # NoBlock
    BY <2>2, ChainIsWalk DEF Descends
  <2> QED BY <2>1, <2>2
<1>4. branch \in Seq(Block) /\ Len(branch) \in Nat
  <2>1. nodes \in SUBSET Block /\ b \in nodes
    BY DEF TreeInv, Tree
  <2>2. Descends(branch, nodes, b)
    BY <2>1, WalkExists, WalkShape
  <2> QED BY <2>2 DEF Descends
<1>5. p = ob \o ce
  BY DEF StepEvents
<1> HIDE DEF r, chain, branch
<1>6. rev \in Seq(Block) /\ Len(rev) = j /\ DOMAIN rev = 1..j /\ \A i \in 1..j : rev[i] = chain[i]
  <2>1. LET q == SubSeq(chain, 1, j)
        IN q \in Seq(Block) /\ Len(q) = j /\ DOMAIN q = 1..j /\ \A i \in 1..j : q[i] = chain[i]
    BY <1>1, <1>3, Reversed
  <2> QED BY <1>1, <2>1
<1>7. /\ can \in Seq(Block) /\ Len(can) = k /\ DOMAIN can = 1..k
      /\ \A i \in 1..k : can[i] = branch[k + 1 - i]
  <2>1. LET q == Backwards(SubSeq(branch, 1, k))
        IN /\ q \in Seq(Block) /\ Len(q) = k /\ DOMAIN q = 1..k
           /\ \A i \in 1..k : q[i] = branch[k + 1 - i]
    <3>1. k \in 0..Len(branch)
      BY <1>1, <1>4
    <3> QED BY <1>4, <3>1, Reversed
  <2> QED BY <1>1, <2>1
<1>8. Covers(can, rev)
  BY <1>2, <1>6, <1>7 DEF Replayable, Covers
<1> HIDE DEF rev, can
<1>9. /\ ce \in Seq(Event) /\ Len(ce) = j + k
      /\ \A i \in 1..j : ce[i].type = "Reverted" /\ ce[i].block = rev[i]
      /\ \A i \in 1..k : ce[j + i].type = "Canonicalized" /\ ce[j + i].block = can[i]
  <2>1. RollsOver(ce, rev, can)
    BY <1>6, <1>7, <1>8, CanonicalEventsShape
  <2> HIDE DEF ce
  <2> QED BY <1>6, <1>7, <2>1 DEF RollsOver
<1> HIDE DEF ce, p
<1>10. ob \in Seq(Event) /\ Len(ob) = 1 /\ ob[1].type = "Assembled" /\ ob[1].block = b
  BY DEF Observed, Event
<1> HIDE DEF ob
<1>11. /\ p \in Seq(Event) /\ Len(p) = 1 + (j + k) /\ p[1] = ob[1]
       /\ \A i \in 1..(j + k) : p[1 + i] = ce[i]
  <2>1. ob \in Seq(Event) /\ ce \in Seq(Event)
    BY <1>9, <1>10
  <2>2. ob \o ce \in Seq(Event) /\ Joins(ob \o ce, ob, ce)
    BY <2>1, ConcatShape
  <2>3. p \in Seq(Event) /\ Joins(p, ob, ce)
    BY <1>5, <2>2
  <2> QED BY <1>9, <1>10, <2>3 DEF Joins
<1>12. Len(p) = 1 + j + k
  BY <1>11
<1>13. ASSUME NEW i \in 1..j PROVE p[1 + i].type = "Reverted" /\ p[1 + i].block = chain[i]
  <2>1. i \in 1..(j + k)
    OBVIOUS
  <2> QED BY <1>6, <1>9, <1>11, <2>1
<1>14. ASSUME NEW i \in 1..k
       PROVE  p[1 + j + i].type = "Canonicalized" /\ p[1 + j + i].block = branch[k + 1 - i]
  <2>1. j + i \in 1..(j + k) /\ 1 + (j + i) = 1 + j + i
    OBVIOUS
  <2>2. p[1 + (j + i)] = ce[j + i]
    BY <1>11, <2>1
  <2> QED BY <1>7, <1>9, <2>1, <2>2
<1>15. Queued(p, 1, j, k)
  <2>1. \A i \in 1..1 : i = 1
    OBVIOUS
  <2> QED BY <1>10, <1>11, <1>12, <1>13, <1>14, <2>1 DEF Queued
<1> QED BY <1>10, <1>11, <1>13, <1>14, <1>15 DEF Announces, p, r, chain, branch

\* The events of the other outcomes: a side branch is announced, and no more.
LEMMA OtherEvents ==
    ASSUME NEW t, NEW b \in Block, AddBlock(t, b).kind # "Canonical"
    PROVE  LET p == StepEvents(AddBlock(t, b), b)
           IN /\ AddBlock(t, b).kind # "Fork" => p = << >>
              /\ AddBlock(t, b).kind = "Fork" =>
                    Queued(p, 1, 0, 0) /\ p[1].type = "Assembled" /\ p[1].block = b
<1> DEFINE r == AddBlock(t, b)
<1> HIDE DEF r
<1>1. ASSUME r.kind # "Fork", r.kind # "Canonical" PROVE StepEvents(r, b) = << >>
  BY <1>1 DEF StepEvents
<1>2. ASSUME r.kind = "Fork" PROVE StepEvents(r, b) = Observed(b)
  BY <1>2 DEF StepEvents
<1>3. Queued(Observed(b), 1, 0, 0) /\ Observed(b)[1].type = "Assembled" /\ Observed(b)[1].block = b
  <2>1. /\ Observed(b) \in Seq(Event) /\ Len(Observed(b)) = 1
        /\ Observed(b)[1].type = "Assembled" /\ Observed(b)[1].block = b
    BY DEF Observed, Event
  <2>2. \A i \in 1..1 : i = 1
    OBVIOUS
  <2> QED BY <2>1, <2>2 DEF Queued
<1> QED BY <1>1, <1>2, <1>3 DEF r

\* Whatever add_block answers, the step's events are events.
LEMMA StepEventsType ==
    ASSUME NEW t, TreeInv(t), NEW b \in Block
    PROVE  StepEvents(AddBlock(t, b), b) \in Seq(Event)
<1>1. CASE AddBlock(t, b).kind = "Canonical"
  <2>1. PICK j, k \in Nat : Replaces(t, b, AddBlock(t, b), j, k)
    BY <1>1, CanonicalOutcome
  <2>2. Announces(StepEvents(AddBlock(t, b), b), t, b, j, k)
    BY <1>1, <2>1, CanonicalAnnounces
  <2> QED BY <2>2 DEF Announces, Queued
<1>2. CASE AddBlock(t, b).kind # "Canonical"
  <2> DEFINE p == StepEvents(AddBlock(t, b), b)
  <2>1. p = << >> \/ Queued(p, 1, 0, 0)
    BY <1>2, OtherEvents
  <2> HIDE DEF p
  <2>2. p = << >> => p \in Seq(Event)
    OBVIOUS
  <2>3. Queued(p, 1, 0, 0) => p \in Seq(Event)
    BY DEF Queued
  <2> QED BY <2>1, <2>2, <2>3 DEF p
<1> QED BY <1>1, <1>2

\* tick_finalize's events: one per block that finalize returned, in its order.
FinalEvents(new) ==
    [i \in DOMAIN new |-> [type |-> "Finalized", block |-> new[i], by |-> NoBlock]]

LEMMA FinalEventsShape ==
    ASSUME NEW new \in Seq(Block)
    PROVE  /\ Queued(FinalEvents(new), Len(new), 0, 0)
           /\ \A i \in 1..Len(new) : /\ FinalEvents(new)[i].type = "Finalized"
                                     /\ FinalEvents(new)[i].block = new[i]
<1> DEFINE p == FinalEvents(new)
<1>1. Len(new) \in Nat /\ DOMAIN new = 1..Len(new) /\ \A i \in 1..Len(new) : new[i] \in Block
  OBVIOUS
<1>2. \A i \in 1..Len(new) : /\ p[i] \in Event /\ p[i].type = "Finalized"
                             /\ p[i].block = new[i]
  BY <1>1 DEF FinalEvents, Event
<1>3. p \in Seq(Event) /\ Len(p) = Len(new)
  <2>1. p = [i \in 1..Len(new) |-> p[i]]
    BY <1>1 DEF FinalEvents
  <2> HIDE DEF p
  <2> QED BY <1>1, <1>2, <2>1
<1> HIDE DEF p
<1>4. Queued(p, Len(new), 0, 0)
  BY <1>1, <1>2, <1>3 DEF Queued
<1> QED BY <1>2, <1>4 DEF p

-----------------------------------------------------------------------------
(***************************************************************************)
(* Types.  The cursor is never below "nothing emitted", so that a fetch    *)
(* asks for a height, and the tree keeps its own invariant.                *)
(***************************************************************************)
TypeInv ==
    /\ head \in [Endpoint -> Block]
    /\ fin \in [Endpoint -> Block \cup {NoBlock}]
    /\ last \in Int /\ last >= -1
    /\ range \in Nat \X Int
    /\ fetched \in Block \cup {NoBlock}
    /\ heads \in Seq(Block) /\ Len(heads) <= ChannelCap
    /\ TreeInv(tree)
    /\ stack \in Seq(Block)
    /\ pending \in Seq(Event)
    /\ view \in Seq(Block)
    /\ final \subseteq Block /\ assembled \subseteq Block
    /\ abandoned \subseteq Loss
    /\ restarts \in Nat

\* Some block has no parent: heights cannot go down for ever.
LEMMA RootExists == \E b \in Block : Parent[b] = NoBlock
<1> DEFINE T == {Number[b] : b \in Block}
<1>1. T \subseteq Nat /\ T # {}
  BY BlockAssumption, IngestionAssumption
<1>2. PICK n \in T : \A m \in T : n <= m
  <2> HIDE DEF T
  <2> QED BY <1>1, Least
<1>3. PICK b \in Block : Number[b] = n
  OBVIOUS
<1>4. ASSUME Parent[b] # NoBlock PROVE FALSE
  <2>1. Parent[b] \in Block /\ Number[b] = Number[Parent[b]] + 1 /\ Number[Parent[b]] \in Nat
    BY <1>4, BlockAssumption
  <2>2. n <= Number[Parent[b]]
    BY <1>2, <2>1
  <2> QED BY <1>3, <2>1, <2>2
<1> QED BY <1>4

LEMMA TypeInit == Init => TypeInv
<1> SUFFICES ASSUME Init PROVE TypeInv
  OBVIOUS
<1>1. (CHOOSE b \in Block : Parent[b] = NoBlock) \in Block
  BY RootExists
<1>2. ChannelCap \in Nat
  BY IngestionAssumption
<1>3. TreeInv(tree)
  BY EmptyTreeInv DEF Init
<1>4. /\ head \in [Endpoint -> Block] /\ fin \in [Endpoint -> Block \cup {NoBlock}]
      /\ last = -1 /\ range = <<1, 0>> /\ fetched = NoBlock
  BY <1>1 DEF Init, NoRange
<1>5. heads = << >> /\ stack = << >> /\ pending = << >> /\ view = << >>
      /\ final = {} /\ assembled = {} /\ abandoned = {}
      /\ stopping = FALSE /\ restarts = 0
  BY DEF Init
<1> QED BY <1>2, <1>3, <1>4, <1>5 DEF TypeInv

LEMMA TypeStep == TypeInv /\ [Next]_vars => TypeInv'
<1> SUFFICES ASSUME TypeInv, [Next]_vars PROVE TypeInv'
  OBVIOUS
<1> USE DEF TypeInv
<1>1. ASSUME NEW e \in Endpoint, NEW b \in Block, MoveHead(e, b) PROVE TypeInv'
  BY <1>1 DEF MoveHead, poller, pipeline, bus, process
<1>2. ASSUME NEW e \in Endpoint, NEW b \in Block, AdvanceFinal(e, b) PROVE TypeInv'
  BY <1>2 DEF AdvanceFinal, poller, pipeline, bus, process
<1>3. ASSUME NEW e \in Endpoint, PollTick(e) PROVE TypeInv'
  <2>1. Number[head[e]] \in Nat /\ MaxCatchup \in Nat
    BY BlockAssumption, IngestionAssumption
  <2>2. range' \in Nat \X Int
    BY <1>3, <2>1 DEF PollTick, PollFrom
  <2> QED BY <1>3, <2>2 DEF PollTick, source, pipeline, bus, process
<1>4. ASSUME NEW e \in Endpoint, PollFetch(e) PROVE TypeInv'
  <2>1. range[1] \in Nat /\ range[2] \in Int
    OBVIOUS
  <2>2. head[e] \in Block
    OBVIOUS
  <2>3. Number[head[e]] \in Nat /\ Number[head[e]] - range[1] + 1 \in 1..(Number[head[e]] + 1)
    BY <1>4, <2>1, <2>2, BlockAssumption DEF PollFetch
  <2>4. fetched' \in Block \cup {NoBlock}
    <3>1. Line[head[e]] \in Seq(Block \cup {NoBlock}) /\ Len(Line[head[e]]) = Number[head[e]] + 1
      BY <2>2, LineIsUp
    <3> QED BY <1>4, <2>3, <3>1 DEF PollFetch
  <2>5. last' \in Int /\ last' >= -1 /\ range' \in Nat \X Int
    BY <1>4, <2>1 DEF PollFetch, NoRange
  <2> QED BY <1>4, <2>4, <2>5 DEF PollFetch, source, pipeline, bus, process
<1>5. ASSUME PollFetchFails PROVE TypeInv'
  BY <1>5 DEF PollFetchFails, NoRange, source, pipeline, bus, process
<1>6. ASSUME PollSend PROVE TypeInv'
  <2>1. ChannelCap \in Nat
    BY IngestionAssumption
  <2>2. heads' \in Seq(Block) /\ Len(heads') <= ChannelCap
    BY <1>6, <2>1 DEF PollSend
  <2> QED BY <1>6, <2>2 DEF PollSend, source, pipeline, bus, process
<1>7. ASSUME TakeHead PROVE TypeInv'
  <2>1. heads' \in Seq(Block) /\ Len(heads') <= Len(heads) /\ stack' \in Seq(Block)
    BY <1>7 DEF TakeHead
  <2>2. Len(heads') <= ChannelCap
    BY <2>1, IngestionAssumption
  <2> QED BY <1>7, <2>1, <2>2 DEF TakeHead, source, poller, bus, process
<1>8. ASSUME AddStep PROVE TypeInv'
  <2>1. stack # << >> /\ Top \in Block /\ Popped \in Seq(Block)
    BY <1>8 DEF AddStep, Top, Popped
  <2>2. stack' \in Seq(Block)
    BY <1>8, <2>1 DEF AddStep
  <2>3. TreeInv(AddBlock(tree, Top).tree)
    BY <2>1, AddBlockInv
  <2>4. StepEvents(AddBlock(tree, Top), Top) \in Seq(Event)
    BY <2>1, StepEventsType
  <2>5. tree' = AddBlock(tree, Top).tree /\ pending' = StepEvents(AddBlock(tree, Top), Top)
    BY <1>8 DEF AddStep
  <2>6. TreeInv(tree')
    BY <2>3, <2>5
  <2> QED BY <1>8, <2>2, <2>4, <2>5, <2>6 DEF AddStep, source, poller, bus, process, TreeInv
<1>9. ASSUME BackFill PROVE TypeInv'
  <2>1. Top \in Block
    BY <1>9 DEF BackFill, Top
  <2>2. Parent[Top] \in Block
    BY <1>9, <2>1, BlockAssumption DEF BackFill
  <2>3. stack' \in Seq(Block)
    BY <1>9, <2>2 DEF BackFill
  <2> QED BY <1>9, <2>3 DEF BackFill, source, poller, bus, process
<1>10. ASSUME BackFillFails PROVE TypeInv'
  BY <1>10 DEF BackFillFails, source, poller, bus, process
<1>11. ASSUME NEW e \in Endpoint, TickFinalize(e) PROVE TypeInv'
  <2>1. fin[e] \in Block
    BY <1>11 DEF TickFinalize
  <2>2. TreeInv(Finalize(tree, fin[e]).tree)
    BY <2>1, FinalizeInv
  <2>3. Finalize(tree, fin[e]).newly \in Seq(Block)
    BY <2>1, NewlyFinal
  <2>4. FinalEvents(Finalize(tree, fin[e]).newly) \in Seq(Event)
    BY <2>3, FinalEventsShape DEF Queued
  <2>5. /\ tree' = Finalize(tree, fin[e]).tree
        /\ pending' = FinalEvents(Finalize(tree, fin[e]).newly)
    BY <1>11 DEF TickFinalize, FinalEvents
  <2>6. TreeInv(tree')
    BY <2>2, <2>5
  <2> QED BY <1>11, <2>4, <2>5, <2>6 DEF TickFinalize, source, poller, bus, process, TreeInv
<1>12. ASSUME Publish PROVE TypeInv'
  <2>1. Head(pending) \in Event /\ Tail(pending) \in Seq(Event)
    BY <1>12 DEF Publish
  <2>2. Head(pending).block \in Block
    BY <2>1 DEF Event
  <2>3. view' \in Seq(Block)
    <3>1. Append(view, Head(pending).block) \in Seq(Block)
      BY <2>2
    <3>2. Sift(view, Block \ {Head(pending).block}) \in Seq(Block)
      BY SiftType
    <3> QED BY <1>12, <3>1, <3>2 DEF Publish
  <2>4. final' \subseteq Block /\ assembled' \subseteq Block
    BY <1>12, <2>2 DEF Publish
  <2> QED BY <1>12, <2>1, <2>3, <2>4 DEF Publish, source, poller, process
<1>13. ASSUME Abandon PROVE TypeInv'
  <2>1. Head(pending) \in Event /\ Tail(pending) \in Seq(Event)
    BY <1>13 DEF Abandon
  <2>2. <<Head(pending).type, Head(pending).block>> \in Loss
    BY <2>1 DEF Event, Loss
  <2> QED BY <1>13, <2>1, <2>2 DEF Abandon, source, poller, process
<1>14. ASSUME Shutdown PROVE TypeInv'
  BY <1>14 DEF Shutdown, source, poller, pipeline, bus
<1>15. ASSUME Restart PROVE TypeInv'
  <2>1. ChannelCap \in Nat
    BY IngestionAssumption
  <2>2. TreeInv(tree')
    BY <1>15, EmptyTreeInv DEF Restart
  <2> QED BY <1>15, <2>1, <2>2 DEF Restart, NoRange, source, bus, TreeInv
<1>16. ASSUME UNCHANGED vars PROVE TypeInv'
  BY <1>16 DEF vars, source, poller, pipeline, bus, process
<1> HIDE DEF TypeInv
<1> QED BY <1>1, <1>2, <1>3, <1>4, <1>5, <1>6, <1>7, <1>8, <1>9, <1>10, <1>11, <1>12,
           <1>13, <1>14, <1>15, <1>16
        DEF Next, Source, Poller, Pipeline, PipelineWork

LEMMA TypeInvariant == Spec => []TypeInv
BY TypeInit, TypeStep, PTL DEF Spec

\* Every variable of ingestion keeps its type: the poller, the channel, the
\* back-fill stack, the tree and what the bus told its consumers.
THEOREM IngestionTypeCorrect == Spec => []IngestionTypeOK
<1>1. TypeInv => IngestionTypeOK
  <2> SUFFICES ASSUME TypeInv PROVE IngestionTypeOK
    OBVIOUS
  <2>1. Members(heads) \subseteq Block /\ Members(stack) \subseteq Block
        /\ Members(view) \subseteq Block
    BY DEF TypeInv, Members
  <2> QED BY <2>1 DEF TypeInv, TreeInv, IngestionTypeOK
<1> QED BY <1>1, TypeInvariant, PTL

-----------------------------------------------------------------------------
(***************************************************************************)
(* The steps that touch the tree, the queue of events or the bus.          *)
(***************************************************************************)
Silent == UNCHANGED <<tree, pending, bus, restarts>> /\ (stopping => stopping')

LEMMA StepKinds ==
    ASSUME [Next]_vars
    PROVE  \/ AddStep \/ Publish \/ Abandon \/ Restart \/ Silent
           \/ \E e \in Endpoint : TickFinalize(e)
<1>1. ASSUME Source PROVE Silent
  BY <1>1 DEF Source, MoveHead, AdvanceFinal, pipeline, process, Silent
<1>2. ASSUME Poller PROVE Silent
  BY <1>2 DEF Poller, PollTick, PollFetch, PollFetchFails, PollSend, pipeline, process, Silent
<1>3. ASSUME TakeHead \/ BackFill \/ BackFillFails PROVE Silent
  BY <1>3 DEF TakeHead, BackFill, BackFillFails, process, Silent
<1>4. ASSUME Shutdown PROVE Silent
  BY <1>4 DEF Shutdown, pipeline, Silent
<1>5. ASSUME UNCHANGED vars PROVE Silent
  BY <1>5 DEF vars, pipeline, process, Silent
<1> QED BY <1>1, <1>2, <1>3, <1>4, <1>5 DEF Next, Pipeline, PipelineWork

\* One turn of ingest: the block it works on, and the three ways it can go.
Refused(b) == pending' = << >> /\ tree' = tree
Forked(b) ==
    /\ b \notin tree.nodes /\ (tree.nodes # {} => Parent[b] \in tree.nodes)
    /\ ~Beats(Insert(tree, b), b)
    /\ tree' = Insert(tree, b)
    /\ Queued(pending', 1, 0, 0)
    /\ pending'[1].type = "Assembled" /\ pending'[1].block = b
Adopted(b, j, k) ==
    /\ b \notin tree.nodes /\ (tree.nodes # {} => Parent[b] \in tree.nodes)
    /\ Beats(Insert(tree, b), b)
    /\ tree' = PruneToDepth([Insert(tree, b) EXCEPT !.tip = b])
    /\ Replaces(tree, b, AddBlock(tree, b), j, k)
    /\ Announces(pending', tree, b, j, k)
Turns(b) ==
    /\ b \in Block
    /\ pending = << >> /\ UNCHANGED <<bus, process>>
    /\ Refused(b) \/ Forked(b) \/ \E j, k \in Nat : Adopted(b, j, k)

LEMMA AddStepTurns ==
    ASSUME TypeInv, AddStep
    PROVE  Turns(Top)
<1>1. Top \in Block
  BY DEF AddStep, Top, TypeInv
<1>2. TreeInv(tree)
  BY DEF TypeInv
<1>3. /\ pending = << >> /\ UNCHANGED <<bus, process>>
      /\ tree' = AddBlock(tree, Top).tree
      /\ pending' = StepEvents(AddBlock(tree, Top), Top)
      /\ AddBlock(tree, Top).kind # "MissingParent"
  BY DEF AddStep
<1>4. CASE AddBlock(tree, Top).kind = "Canonical"
  <2>1. PICK j, k \in Nat : Replaces(tree, Top, AddBlock(tree, Top), j, k)
    BY <1>1, <1>2, <1>4, CanonicalOutcome
  <2>2. Announces(pending', tree, Top, j, k)
    BY <1>1, <1>2, <1>3, <1>4, <2>1, CanonicalAnnounces
  <2>3. Adopted(Top, j, k)
    BY <1>1, <1>2, <1>3, <1>4, <2>1, <2>2, CanonicalOutcome DEF Adopted
  <2> QED BY <1>1, <1>3, <2>3 DEF Turns
<1>5. CASE AddBlock(tree, Top).kind = "Fork"
  <2>1. /\ Queued(pending', 1, 0, 0)
        /\ pending'[1].type = "Assembled" /\ pending'[1].block = Top
    BY <1>1, <1>3, <1>5, OtherEvents
  <2>2. /\ Top \notin tree.nodes /\ (tree.nodes # {} => Parent[Top] \in tree.nodes)
        /\ ~Beats(Insert(tree, Top), Top) /\ tree' = Insert(tree, Top)
    BY <1>1, <1>3, <1>5, AddBlockReturns
  <2> QED BY <1>1, <1>3, <2>1, <2>2 DEF Turns, Forked
<1>6. CASE AddBlock(tree, Top).kind \notin {"Fork", "Canonical"}
  <2>1. pending' = << >>
    BY <1>1, <1>3, <1>6, OtherEvents
  <2>2. tree' = tree
    BY <1>1, <1>3, <1>6, AddBlockReturns
  <2> QED BY <1>1, <1>3, <2>1, <2>2 DEF Turns, Refused
<1> QED BY <1>4, <1>5, <1>6

\* A finality tick.
Finalizes(f) ==
    /\ f \in Block
    /\ pending = << >> /\ stack = << >> /\ ~stopping
    /\ UNCHANGED <<bus, process>>
    /\ tree' = Finalize(tree, f).tree
    /\ Finalize(tree, f).newly \in Seq(Block)
    /\ pending' = FinalEvents(Finalize(tree, f).newly)

LEMMA TickFinalizes ==
    ASSUME TypeInv, NEW e \in Endpoint, TickFinalize(e)
    PROVE  Finalizes(fin[e])
<1>1. fin[e] \in Block /\ TreeInv(tree)
  BY DEF TickFinalize, TypeInv
<1>2. Finalize(tree, fin[e]).newly \in Seq(Block)
  BY <1>1, NewlyFinal
<1> QED BY <1>1, <1>2 DEF TickFinalize, Finalizes, FinalEvents, Idle

\* The queue moves up by one when an event is published.
Dequeued(p, q) ==
    /\ Len(p) \in Nat /\ Len(p) >= 1 /\ Len(q) = Len(p) - 1
    /\ Head(p) = p[1] /\ p[1] \in Event /\ p[1].block \in Block
    /\ \A i \in 1..Len(q) : q[i] = p[i + 1]

LEMMA PublishDequeues ==
    ASSUME TypeInv, Publish \/ Abandon
    PROVE  Dequeued(pending, pending')
<1>1. pending \in Seq(Event) /\ pending # << >> /\ pending' = Tail(pending)
  BY DEF Publish, Abandon, TypeInv
<1>2. pending[1] \in Event
  BY <1>1
<1>3. pending[1].block \in Block
  BY <1>2 DEF Event
<1> QED BY <1>1, <1>2, <1>3 DEF Dequeued

\* The blocks of the tree after a turn of ingest.
LEMMA TurnNodes ==
    ASSUME TypeInv, NEW b \in Block, Forked(b) \/ \E j, k \in Nat : Adopted(b, j, k)
    PROVE  tree'.nodes \subseteq tree.nodes \cup {b}
<1>1. TreeInv(tree) /\ b \notin tree.nodes
  BY DEF TypeInv, Forked, Adopted
<1>2. Insert(tree, b).nodes = tree.nodes \cup {b} /\ Insert(tree, b) \in Tree
  BY <1>1, InsertFields
<1> DEFINE t == [Insert(tree, b) EXCEPT !.tip = b]
<1>3. t.nodes = tree.nodes \cup {b} /\ t \in Tree
  BY <1>2 DEF Tree
<1> HIDE DEF t
<1>4. PruneToDepth(t).nodes \subseteq t.nodes
  BY <1>3 DEF PruneToDepth, PruneBelow, Tree
<1> QED BY <1>2, <1>3, <1>4 DEF Forked, Adopted, t

-----------------------------------------------------------------------------
(***************************************************************************)
(* Assembled first.  Every block the tree holds, or is about to put in     *)
(* place, has been announced or heads the queue.                           *)
(***************************************************************************)
Known(p, told) ==
    told \cup {p[i].block : i \in {j \in 1..Len(p) : p[j].type = "Assembled"}}

\* The blocks whose BlockAssembled has left the queue, delivered or abandoned.
Told == {b \in Block : b \in assembled \/ <<"Assembled", b>> \in abandoned}

KnownInv ==
    /\ \A i \in 1..Len(pending) : pending[i].type = "Assembled" => i = 1
    /\ \A i \in 1..Len(pending) : pending[i].type = "Canonicalized" =>
          pending[i].block \in Known(pending, Told)
    /\ tree.nodes \subseteq Known(pending, Told)
    /\ Members(view) \subseteq Told

LEMMA KnownStep == TypeInv /\ KnownInv /\ [Next]_vars => KnownInv'
<1> SUFFICES ASSUME TypeInv, KnownInv, [Next]_vars PROVE KnownInv'
  OBVIOUS
<1>1. ASSUME AddStep PROVE KnownInv'
  <2>1. Turns(Top)
    BY <1>1, AddStepTurns
  <2> DEFINE b == Top
  <2>2. /\ b \in Block /\ pending = << >> /\ view' = view /\ Told' = Told
        /\ Members(view') \subseteq Told'
    BY <2>1 DEF Turns, bus, KnownInv, Members, Told
  <2>3. tree.nodes \subseteq Told
    BY <2>2 DEF KnownInv, Known
  <2>4. CASE Refused(b)
    BY <2>2, <2>3, <2>4 DEF Refused, KnownInv, Known
  <2>5. CASE Forked(b)
    <3>1. tree'.nodes \subseteq tree.nodes \cup {b}
      BY <2>2, <2>5, TurnNodes
    <3>2. Len(pending') = 1 /\ pending'[1].type = "Assembled" /\ pending'[1].block = b
      BY <2>5 DEF Forked, Queued
    <3>3. b \in Known(pending', Told') /\ Told \subseteq Known(pending', Told')
      BY <2>2, <3>2 DEF Known
    <3>4. \A i \in 1..Len(pending') : i = 1
      BY <3>2
    <3> QED BY <2>2, <2>3, <3>1, <3>2, <3>3, <3>4 DEF KnownInv
  <2>6. ASSUME NEW j \in Nat, NEW k \in Nat, Adopted(b, j, k) PROVE KnownInv'
    <3>1. tree'.nodes \subseteq tree.nodes \cup {b}
      BY <2>2, <2>6, TurnNodes
    <3>2. /\ Len(pending') = 1 + j + k
          /\ pending'[1].type = "Assembled" /\ pending'[1].block = b
          /\ \A i \in 1..j : pending'[1 + i].type = "Reverted"
          /\ \A i \in 1..k : /\ pending'[1 + j + i].type = "Canonicalized"
                             /\ pending'[1 + j + i].block = Walk(tree.nodes \cup {b}, b)[k + 1 - i]
      BY <2>6 DEF Adopted, Announces, Queued
    <3>3. b \in Known(pending', Told') /\ Told \subseteq Known(pending', Told')
      BY <2>2, <3>2 DEF Known
    <3>4. \A i \in 1..Len(pending') : i = 1 \/ i - 1 \in 1..j \/ i - 1 - j \in 1..k
      BY <3>2
    <3>5. \A i \in 1..Len(pending') : pending'[i].type = "Assembled" => i = 1
      <4> SUFFICES ASSUME NEW i \in 1..Len(pending'), i # 1
                   PROVE  pending'[i].type # "Assembled"
        OBVIOUS
      <4>1. CASE i - 1 \in 1..j
        <5>1. 1 + (i - 1) = i
          BY <3>2
        <5>2. pending'[1 + (i - 1)].type = "Reverted"
          BY <3>2, <4>1
        <5> QED BY <5>1, <5>2
      <4>2. CASE i - 1 - j \in 1..k
        <5>1. 1 + j + (i - 1 - j) = i
          BY <3>2
        <5>2. pending'[1 + j + (i - 1 - j)].type = "Canonicalized"
          BY <3>2, <4>2
        <5> QED BY <5>1, <5>2
      <4> QED BY <3>4, <4>1, <4>2
    <3>6. \A i \in 1..k : Walk(tree.nodes \cup {b}, b)[k + 1 - i] \in tree.nodes \cup {b}
      <4> DEFINE w == Walk(tree.nodes \cup {b}, b)
      <4>1. tree.nodes \cup {b} \in SUBSET Block
        BY <2>2 DEF TypeInv, TreeInv, Tree
      <4>2. Descends(w, tree.nodes \cup {b}, b)
        BY <2>2, <4>1, WalkExists, WalkShape
      <4>3. k \in 1..Len(w)
        BY <2>6 DEF Adopted, Replaces
      <4> HIDE DEF w
      <4>4. \A i \in 1..k : k + 1 - i \in 1..Len(w)
        BY <4>2, <4>3 DEF Descends
      <4>5. \A i \in 1..k : w[k + 1 - i] \in tree.nodes \cup {b}
        BY <4>2, <4>4 DEF Descends
      <4> QED BY <4>5 DEF w
    <3>7. ASSUME NEW i \in 1..Len(pending'), pending'[i].type = "Canonicalized"
          PROVE  pending'[i].block \in Known(pending', Told')
      <4>1. CASE i = 1
        BY <3>2, <3>7, <4>1
      <4>2. CASE i - 1 \in 1..j
        <5>1. pending'[1 + (i - 1)].type = "Reverted" /\ 1 + (i - 1) = i
          BY <3>2, <4>2
        <5> QED BY <3>7, <5>1
      <4>3. CASE i - 1 - j \in 1..k
        <5>0. 1 + j + (i - 1 - j) = i
          BY <3>2
        <5>1. pending'[1 + j + (i - 1 - j)].block
                    = Walk(tree.nodes \cup {b}, b)[k + 1 - (i - 1 - j)]
          BY <3>2, <4>3
        <5>2. pending'[i].block \in tree.nodes \cup {b}
          BY <3>6, <4>3, <5>0, <5>1
        <5> QED BY <2>3, <3>3, <5>2
      <4> QED BY <3>4, <4>1, <4>2, <4>3
    <3> QED BY <2>2, <2>3, <3>1, <3>3, <3>5, <3>7 DEF KnownInv
  <2> QED BY <2>1, <2>4, <2>5, <2>6 DEF Turns
<1>2. ASSUME NEW e \in Endpoint, TickFinalize(e) PROVE KnownInv'
  <2>1. Finalizes(fin[e])
    BY <1>2, TickFinalizes
  <2> DEFINE new == Finalize(tree, fin[e]).newly
  <2>2. /\ pending = << >> /\ view' = view /\ Told' = Told
        /\ Members(view') \subseteq Told'
    BY <2>1 DEF Finalizes, bus, KnownInv, Members, Told
  <2>3. tree.nodes \subseteq Told
    BY <2>2 DEF KnownInv, Known
  <2>4. tree'.nodes \subseteq tree.nodes
    BY <2>1 DEF Finalizes, Finalize, PruneBelow, TypeInv, TreeInv, Tree
  <2>5. \A i \in 1..Len(pending') : pending'[i].type = "Finalized"
    <3>1. /\ Len(FinalEvents(new)) = Len(new) + 0 + 0
          /\ \A i \in 1..Len(new) : FinalEvents(new)[i].type = "Finalized"
      BY <2>1, FinalEventsShape DEF Finalizes, Queued
    <3>2. new \in Seq(Block) /\ pending' = FinalEvents(new)
      BY <2>1 DEF Finalizes
    <3> HIDE DEF new
    <3> QED BY <3>1, <3>2
  <2>6. Told' \subseteq Known(pending', Told')
    BY DEF Known
  <2> QED BY <2>2, <2>3, <2>4, <2>5, <2>6 DEF KnownInv
<1>3. ASSUME Publish \/ Abandon PROVE KnownInv'
  <2>1. Dequeued(pending, pending')
    BY <1>3, PublishDequeues
  <2> DEFINE x == pending[1].block
  <2>2. /\ tree' = tree
        /\ Told' = IF pending[1].type = "Assembled" THEN Told \cup {x} ELSE Told
    <3>1. x \in Block /\ Head(pending) = pending[1]
      BY <2>1 DEF Dequeued
    <3>2. CASE Publish
      BY <3>1, <3>2 DEF Publish, Told
    <3>3. CASE Abandon
      <4>1. /\ assembled' = assembled /\ tree' = tree
            /\ abandoned' = abandoned \cup {<<pending[1].type, x>>}
        BY <3>1, <3>3 DEF Abandon
      <4>2. \A c : <<"Assembled", c>> \in abandoned' <=>
                     \/ <<"Assembled", c>> \in abandoned
                     \/ pending[1].type = "Assembled" /\ c = x
        BY <4>1
      <4> QED BY <3>1, <4>1, <4>2 DEF Told
    <3> QED BY <1>3, <3>2, <3>3
  <2>3. \A i \in 1..Len(pending') : i + 1 \in 1..Len(pending) /\ pending'[i] = pending[i + 1]
    BY <2>1 DEF Dequeued
  <2>4. \A i \in 1..Len(pending') : pending'[i].type # "Assembled"
    <3>1. \A i \in 1..Len(pending') : i + 1 # 1
      OBVIOUS
    <3> QED BY <2>3, <3>1 DEF KnownInv
  <2>5. Known(pending, Told) \subseteq Told'
    <3>1. \A i \in 1..Len(pending) : pending[i].type = "Assembled" => i = 1
      BY DEF KnownInv
    <3> QED BY <2>2, <3>1 DEF Known
  <2>6. Told' \subseteq Known(pending', Told')
    BY DEF Known
  <2>7. Members(view') \subseteq Told'
    <3>0. CASE Abandon
      <4>1. view' = view /\ Told \subseteq Told'
        BY <2>2, <3>0 DEF Abandon
      <4> QED BY <4>1 DEF KnownInv, Members
    <3>1. CASE Publish /\ pending[1].type = "Canonicalized"
      <4>1. view' = Append(view, x) /\ Told' = Told
        BY <1>3, <2>1, <2>2, <3>1 DEF Publish, Dequeued
      <4>2. x \in Told'
        <5>1. 1 \in 1..Len(pending)
          BY <2>1 DEF Dequeued
        <5> QED BY <2>5, <3>1, <5>1 DEF KnownInv
      <4>3. Members(Append(view, x)) \subseteq Members(view) \cup {x}
        BY DEF Members, TypeInv
      <4> QED BY <4>1, <4>2, <4>3 DEF KnownInv
    <3>2. CASE Publish /\ pending[1].type = "Reverted"
      <4>1. view' = Sift(view, Block \ {x}) /\ Told' = Told
        BY <1>3, <2>1, <2>2, <3>2 DEF Publish, Dequeued
      <4>2. view \in Seq(Members(view))
        BY DEF Members, TypeInv
      <4>3. view' \in Seq(Members(view))
        BY <4>1, <4>2, SiftType
      <4>4. Members(view') \subseteq Members(view)
        <5> DEFINE M == Members(view)
        <5> HIDE DEF M
        <5>1. view' \in Seq(M)
          BY <4>3 DEF M
        <5>2. Members(view') \subseteq M
          BY <5>1 DEF Members
        <5> QED BY <5>2 DEF M
      <4> QED BY <4>1, <4>4 DEF KnownInv
    <3>3. CASE Publish /\ pending[1].type \notin {"Canonicalized", "Reverted"}
      <4>1. view' = view /\ Told \subseteq Told'
        BY <1>3, <2>1, <2>2, <3>3 DEF Publish, Dequeued
      <4> QED BY <4>1 DEF KnownInv, Members
    <3> QED BY <1>3, <3>0, <3>1, <3>2, <3>3
  <2>8. ASSUME NEW i \in 1..Len(pending'), pending'[i].type = "Canonicalized"
        PROVE  pending'[i].block \in Told'
    BY <2>3, <2>5, <2>8 DEF KnownInv
  <2> QED BY <2>2, <2>4, <2>5, <2>6, <2>7, <2>8 DEF KnownInv
<1>4. ASSUME Restart PROVE KnownInv'
  BY <1>4 DEF Restart, bus, KnownInv, EmptyTree, Members, Told
<1>5. ASSUME Silent PROVE KnownInv'
  BY <1>5 DEF Silent, bus, KnownInv, Known, Members, Told
<1> QED BY <1>1, <1>2, <1>3, <1>4, <1>5, StepKinds

\* No consumer holds a canonical block whose BlockAssembled it has not seen,
\* unless that very event was abandoned by a drain: neither a crash between
\* two events nor the loss of other events opens that gap.
THEOREM AssembledBeforeCanonical == Spec => []AssembledFirst
<1>1. Init => KnownInv
  BY DEF Init, KnownInv, EmptyTree, Members
<1>2. KnownInv => AssembledFirst
  BY DEF KnownInv, AssembledFirst, Told
<1>3. Spec => []KnownInv
  BY <1>1, KnownStep, TypeInvariant, PTL DEF Spec
<1> QED BY <1>2, <1>3, PTL

-----------------------------------------------------------------------------
(***************************************************************************)
(* What a consumer's chain becomes.                                        *)
(***************************************************************************)

\* Taking the last element out of a sequence leaves the ones before it where
\* they are, counted from the end, as far back as none of them equals it.
LEMMA SiftSuffix ==
    ASSUME NEW s \in Seq(Block), Len(s) >= 1, NEW N \in 0..(Len(s) - 1),
           \A i \in 1..N : s[Len(s) - i] # s[Len(s)]
    PROVE  LET q == Sift(s, Block \ {s[Len(s)]})
           IN /\ Len(q) \in Nat /\ Len(q) >= N
              /\ \A i \in 1..N : q[Len(q) + 1 - i] = s[Len(s) - i]
              /\ N = Len(s) - 1 => Len(q) = N
<1> DEFINE S == Block \ {s[Len(s)]}
           L == Len(s)
           M == L - 1 - N
<1>1. L \in Nat /\ M \in Nat /\ \A i \in 1..L : s[i] \in Block
  OBVIOUS
<1>2. PICK f : SiftsBy(f, s, S)
  BY <1>1, SiftRecursion
<1>3. \A i \in 1..N : s[M + i] \in S
  <2> SUFFICES ASSUME NEW i \in 1..N PROVE s[M + i] \in S
    OBVIOUS
  <2>1. N + 1 - i \in 1..N /\ L - (N + 1 - i) = M + i /\ M + i \in 1..L
    BY <1>1
  <2>2. \A c \in 1..N : s[L - c] # s[L]
    OBVIOUS
  <2> HIDE DEF L, M
  <2>3. s[L - (N + 1 - i)] # s[L]
    BY <2>1, <2>2
  <2> QED BY <1>1, <2>1, <2>3 DEF L
<1>4. ASSUME NEW n \in Nat PROVE Len(f[n]) \in Nat /\ \E X : f[n] \in Seq(X)
  <2>1. PICK X : f[n] \in Seq(X)
    BY <1>2 DEF SiftsBy
  <2> QED BY <2>1
<1> DEFINE B == Len(f[M])
           A == {i \in Nat : i <= N =>
                    /\ Len(f[M + i]) = B + i
                    /\ \A m \in 1..i : f[M + i][B + m] = s[M + m]}
<1>5. 0 \in A
  BY <1>1, <1>4
<1>6. ASSUME NEW i \in Nat, i \in A PROVE i + 1 \in A
  <2> SUFFICES ASSUME i + 1 <= N
               PROVE  /\ Len(f[M + (i + 1)]) = B + (i + 1)
                      /\ \A m \in 1..(i + 1) : f[M + (i + 1)][B + m] = s[M + m]
    <3>1. i + 1 \in Nat
      OBVIOUS
    <3> HIDE DEF B, M
    <3> QED BY <3>1
  <2>1. Len(f[M + i]) = B + i /\ \A m \in 1..i : f[M + i][B + m] = s[M + m]
    BY <1>1, <1>6
  <2>2. M + i \in Nat /\ M + (i + 1) = (M + i) + 1 /\ s[M + (i + 1)] \in S
    <3>1. i + 1 \in 1..N
      OBVIOUS
    <3>2. \A m \in 1..N : s[M + m] \in S
      BY <1>3
    <3> HIDE DEF M, S
    <3>3. s[M + (i + 1)] \in S
      BY <3>1, <3>2
    <3> QED BY <1>1, <3>3
  <2>3. f[(M + i) + 1] = Append(f[M + i], s[(M + i) + 1])
    BY <1>2, <2>2 DEF SiftsBy
  <2>4. f[M + (i + 1)] = Append(f[M + i], s[M + (i + 1)])
    BY <2>2, <2>3
  <2>5. B \in Nat
    BY <1>1, <1>4
  <2> HIDE DEF B, S, M
  <2>6. PICK X : f[M + i] \in Seq(X)
    BY <1>4, <2>2
  <2> DEFINE g == f[M + i]
             x == s[M + (i + 1)]
             h == f[M + (i + 1)]
  <2>7. g \in Seq(X) /\ h = Append(g, x) /\ Len(g) = B + i
        /\ \A m \in 1..i : g[B + m] = s[M + m]
    BY <2>1, <2>4, <2>6
  <2> HIDE DEF g, x, h
  <2>8. Len(h) = (B + i) + 1 /\ h[(B + i) + 1] = x /\ \A m \in 1..(B + i) : h[m] = g[m]
    BY <2>5, <2>7
  <2>9. ASSUME NEW m \in 1..(i + 1) PROVE h[B + m] = s[M + m]
    <3>1. CASE m = i + 1
      <4>1. B + m = (B + i) + 1
        BY <2>5, <3>1
      <4> QED BY <2>8, <3>1, <4>1 DEF x
    <3>2. CASE m # i + 1
      <4>1. m \in 1..i /\ B + m \in 1..(B + i)
        BY <2>5, <3>2
      <4> QED BY <2>7, <2>8, <4>1
    <3> QED BY <3>1, <3>2
  <2>10. Len(h) = B + (i + 1)
    BY <2>5, <2>8
  <2> QED BY <2>9, <2>10 DEF h
<1>7. N \in A
  <2> HIDE DEF A
  <2>1. Nat \subseteq A
    BY <1>5, <1>6, Induction
  <2> QED BY <1>1, <2>1
<1>8. Len(f[M + N]) = B + N /\ \A m \in 1..N : f[M + N][B + m] = s[M + m]
  BY <1>7
<1>9. Sift(s, S) = f[M + N]
  <2>1. M + N \in Nat /\ (M + N) + 1 = L
    BY <1>1
  <2>2. f[L] = f[M + N]
    BY <1>2, <2>1 DEF SiftsBy
  <2> QED BY <1>2, <2>2 DEF SiftsBy
<1>10. B \in Nat
  BY <1>1, <1>4
<1> HIDE DEF B, A
<1>11. \A i \in 1..N : /\ N + 1 - i \in 1..N /\ (B + N) + 1 - i = B + (N + 1 - i)
                       /\ M + (N + 1 - i) = L - i
  BY <1>1, <1>10
<1>12. \A i \in 1..N : f[M + N][(B + N) + 1 - i] = s[L - i]
  BY <1>8, <1>11
<1> DEFINE q == Sift(s, S)
<1>13. q = f[M + N]
  BY <1>9
<1> HIDE DEF q, M
<1>14. Len(q) = B + N /\ \A i \in 1..N : q[(B + N) + 1 - i] = s[L - i]
  BY <1>8, <1>12, <1>13
<1>15. Len(q) \in Nat /\ Len(q) >= N
  BY <1>1, <1>10, <1>14
<1>16. ASSUME N = L - 1 PROVE Len(q) = N
  <2>1. M = 0
    BY <1>1, <1>16 DEF M
  <2>2. B = 0
    BY <1>2, <2>1 DEF SiftsBy, B
  <2> QED BY <1>1, <1>14, <2>2
<1> QED BY <1>14, <1>15, <1>16 DEF q

\* The consumers' chain v ends in the tree's chain.
Aligned(v, chain) ==
    /\ Len(chain) <= Len(v)
    /\ \A i \in 1..Len(chain) : v[Len(v) + 1 - i] = chain[i]

\* The consumers' chain v will end in the tree's chain once the queue p of a
\* announcements, r reverts and k new blocks is published: the reverts name
\* the end of v, tip first and each once, the new blocks are the upper end of
\* the chain, and what the reverts leave is its lower end.
Fits(v, p, chain, a, r, k) ==
    /\ r <= Len(v)
    /\ \A i \in 1..r : v[Len(v) + 1 - i] = p[a + i].block
    /\ \A i \in 1..k : i <= Len(chain) => chain[i] = p[a + r + (k + 1 - i)].block
    /\ \A i \in 1..(Len(chain) - k) :
          r + i <= Len(v) /\ v[Len(v) + 1 - (r + i)] = chain[k + i]
    /\ \A i, j \in 1..r : p[a + i].block = p[a + j].block => i = j
    /\ \A i \in 1..r : \A m \in 1..(Len(chain) - k) : p[a + i].block # chain[k + m]

LEMMA FitsAligned ==
    ASSUME NEW v \in Seq(Block), NEW chain \in Seq(Block), NEW p, NEW a \in Nat
    PROVE  Aligned(v, chain) <=> Fits(v, p, chain, a, 0, 0)
<1>1. Len(v) \in Nat /\ Len(chain) \in Nat
  OBVIOUS
<1>2. ASSUME Aligned(v, chain) PROVE Fits(v, p, chain, a, 0, 0)
  BY <1>1, <1>2 DEF Aligned, Fits
<1>3. ASSUME Fits(v, p, chain, a, 0, 0) PROVE Aligned(v, chain)
  <2>1. \A i \in 1..Len(chain) : 0 + i <= Len(v) /\ v[Len(v) + 1 - (0 + i)] = chain[0 + i]
    BY <1>1, <1>3 DEF Fits
  <2>2. \A i \in 1..Len(chain) : i <= Len(v) /\ v[Len(v) + 1 - i] = chain[i]
    BY <1>1, <2>1
  <2>3. Len(chain) <= Len(v)
    <3>1. CASE Len(chain) = 0
      BY <1>1, <3>1
    <3>2. CASE Len(chain) # 0
      BY <1>1, <2>2, <3>2
    <3> QED BY <3>1, <3>2
  <2> QED BY <2>2, <2>3 DEF Aligned
<1> QED BY <1>2, <1>3

\* A shorter chain of the same tip is still the end of v.
LEMMA AlignedPrefix ==
    ASSUME NEW v \in Seq(Block), NEW chain \in Seq(Block), Aligned(v, chain),
           NEW m \in 0..Len(chain)
    PROVE  Aligned(v, SubSeq(chain, 1, m))
<1>1. /\ Len(SubSeq(chain, 1, m)) = m
      /\ \A i \in 1..m : SubSeq(chain, 1, m)[i] = chain[i]
  BY Reversed
<1>2. Len(v) \in Nat /\ Len(chain) \in Nat /\ Len(chain) <= Len(v)
  BY DEF Aligned
<1> QED BY <1>1, <1>2 DEF Aligned

\* The next event of the queue, by its part.
LEMMA DequeueAnnouncement ==
    ASSUME NEW p, NEW q \in Seq(Event), Dequeued(p, q), NEW v \in Seq(Block),
           NEW chain \in Seq(Block), NEW a \in Nat, NEW r \in Nat, NEW k \in Nat,
           Queued(p, a, r, k), Fits(v, p, chain, a, r, k), a # 0
    PROVE  /\ Queued(q, a - 1, r, k) /\ Fits(v, q, chain, a - 1, r, k)
           /\ p[1].type \in {"Assembled", "Finalized"}
<1>1. Len(v) \in Nat /\ Len(chain) \in Nat /\ a - 1 \in Nat
  OBVIOUS
<1>2. /\ Len(p) = a + r + k /\ Len(q) = (a - 1) + r + k
      /\ \A i \in 1..Len(q) : q[i] = p[i + 1]
  BY DEF Dequeued, Queued
<1>3. \A i \in 1..(a - 1) : q[i] = p[i + 1] /\ i + 1 \in 1..a
  BY <1>1, <1>2
<1>4. \A i \in 1..r : q[(a - 1) + i] = p[a + i]
  <2> SUFFICES ASSUME NEW i \in 1..r PROVE q[(a - 1) + i] = p[a + i]
    OBVIOUS
  <2>1. (a - 1) + i \in 1..((a - 1) + r + k) /\ (a - 1) + i + 1 = a + i
    BY <1>1
  <2> QED BY <1>2, <2>1
<1>5. \A i \in 1..k : q[(a - 1) + r + i] = p[a + r + i]
  <2> SUFFICES ASSUME NEW i \in 1..k PROVE q[(a - 1) + r + i] = p[a + r + i]
    OBVIOUS
  <2>1. (a - 1) + r + i \in 1..((a - 1) + r + k) /\ (a - 1) + r + i + 1 = a + r + i
    BY <1>1
  <2> QED BY <1>2, <2>1
<1>6. Queued(q, a - 1, r, k)
  BY <1>2, <1>3, <1>4, <1>5 DEF Queued
<1>7. \A i \in 1..k : q[(a - 1) + r + (k + 1 - i)] = p[a + r + (k + 1 - i)]
  <2>1. \A i \in 1..k : k + 1 - i \in 1..k
    OBVIOUS
  <2> QED BY <1>5, <2>1
<1>8. Fits(v, q, chain, a - 1, r, k)
  <2>1. \A i \in 1..r : v[Len(v) + 1 - i] = q[(a - 1) + i].block
    BY <1>4 DEF Fits
  <2>2. \A i \in 1..k : i <= Len(chain) => chain[i] = q[(a - 1) + r + (k + 1 - i)].block
    BY <1>7 DEF Fits
  <2>3. \A i, j \in 1..r : q[(a - 1) + i].block = q[(a - 1) + j].block => i = j
    BY <1>4 DEF Fits
  <2>4. ASSUME NEW i \in 1..r, NEW m \in 1..(Len(chain) - k)
        PROVE  q[(a - 1) + i].block # chain[k + m]
    <3>1. p[a + i].block # chain[k + m]
      BY DEF Fits
    <3> QED BY <1>4, <3>1
  <2> QED BY <2>1, <2>2, <2>3, <2>4 DEF Fits
<1>9. 1 \in 1..a
  BY <1>1
<1> QED BY <1>6, <1>8, <1>9 DEF Queued

LEMMA DequeueRevert ==
    ASSUME NEW p, NEW q \in Seq(Event), Dequeued(p, q), NEW v \in Seq(Block),
           NEW chain \in Seq(Block), NEW r \in Nat, NEW k \in Nat,
           Queued(p, 0, r, k), Fits(v, p, chain, 0, r, k), r # 0
    PROVE  LET w == Sift(v, Block \ {p[1].block})
           IN /\ Queued(q, 0, r - 1, k) /\ Fits(w, q, chain, 0, r - 1, k)
              /\ p[1].type = "Reverted" /\ Len(v) >= 1 /\ v[Len(v)] = p[1].block
<1> DEFINE rest == IF Len(chain) > k THEN Len(chain) - k ELSE 0
           N == (r - 1) + rest
           w == Sift(v, Block \ {p[1].block})
<1>1. /\ Len(v) \in Nat /\ Len(chain) \in Nat /\ r - 1 \in Nat /\ rest \in Nat /\ N \in Nat
      /\ rest > 0 => rest = Len(chain) - k
  OBVIOUS
<1>2. /\ Len(p) = r + k /\ Len(q) = (r - 1) + k
      /\ \A i \in 1..Len(q) : q[i] = p[i + 1]
      /\ \A i \in 1..r : p[i].type = "Reverted"
      /\ \A i \in 1..k : p[r + i].type = "Canonicalized"
  <2>1. /\ Len(p) = 0 + r + k
        /\ \A i \in 1..r : p[0 + i].type = "Reverted"
        /\ \A i \in 1..k : p[0 + r + i].type = "Canonicalized"
    BY Zenon DEF Queued
  <2>2. Len(q) = Len(p) - 1 /\ \A i \in 1..Len(q) : q[i] = p[i + 1]
    BY Zenon DEF Dequeued
  <2>3. \A i \in Nat : 0 + i = i /\ 0 + r + i = r + i
    OBVIOUS
  <2>4. \A i \in 1..r : p[i].type = "Reverted"
    BY <2>1, <2>3
  <2>5. \A i \in 1..k : p[r + i].type = "Canonicalized"
    BY <2>1, <2>3
  <2>6. Len(p) = r + k /\ Len(q) = (r - 1) + k
    BY <2>1, <2>2
  <2> QED BY Zenon, <2>2, <2>4, <2>5, <2>6
<1>3. \A i \in 1..(r - 1) : q[i] = p[i + 1] /\ i + 1 \in 1..r
  BY <1>1, <1>2
<1>4. \A i \in 1..k : q[(r - 1) + i] = p[r + i]
  <2>1. \A i \in 1..k : (r - 1) + i \in 1..Len(q) /\ (r - 1) + i + 1 = r + i
    BY <1>1, <1>2
  <2> QED BY <1>2, <2>1
<1>5. Queued(q, 0, r - 1, k)
  <2>1. /\ Len(q) = 0 + (r - 1) + k
        /\ \A i \in 1..(r - 1) : 0 + i = i
        /\ \A i \in 1..k : 0 + (r - 1) + i = (r - 1) + i
    BY <1>1, <1>2
  <2>2. \A i \in 1..(r - 1) : q[i].type = "Reverted"
    BY <1>2, <1>3
  <2>3. \A i \in 1..k : q[(r - 1) + i].type = "Canonicalized"
    BY <1>2, <1>4
  <2> QED BY <2>1, <2>2, <2>3 DEF Queued
<1>6. /\ r <= Len(v)
      /\ \A i \in 1..r : v[Len(v) + 1 - i] = p[i].block
      /\ \A i \in 1..k : i <= Len(chain) => chain[i] = p[r + (k + 1 - i)].block
      /\ \A i \in 1..rest : r + i <= Len(v) /\ v[Len(v) + 1 - (r + i)] = chain[k + i]
      /\ \A i, j \in 1..r : p[i].block = p[j].block => i = j
      /\ \A i \in 1..r : \A m \in 1..rest : p[i].block # chain[k + m]
  <2>1. \A i \in 1..rest : i \in 1..(Len(chain) - k)
    BY <1>1
  <2> HIDE DEF rest
  <2>2. \A i \in 1..r : 0 + i = i
    OBVIOUS
  <2>3. \A i \in 1..k : 0 + r + (k + 1 - i) = r + (k + 1 - i)
    OBVIOUS
  <2>4. /\ r <= Len(v)
        /\ \A i \in 1..r : v[Len(v) + 1 - i] = p[i].block
        /\ \A i \in 1..k : i <= Len(chain) => chain[i] = p[r + (k + 1 - i)].block
    BY <2>2, <2>3 DEF Fits
  <2>5. \A i \in 1..rest : r + i <= Len(v) /\ v[Len(v) + 1 - (r + i)] = chain[k + i]
    BY <2>1 DEF Fits
  <2>6. \A i, j \in 1..r : p[i].block = p[j].block => i = j
    BY <2>2 DEF Fits
  <2>7. ASSUME NEW i \in 1..r, NEW m \in 1..rest PROVE p[i].block # chain[k + m]
    <3>1. m \in 1..(Len(chain) - k) /\ 0 + i = i
      BY <2>1
    <3>2. p[0 + i].block # chain[k + m]
      BY <3>1 DEF Fits
    <3> QED BY <3>1, <3>2
  <2> QED BY <2>4, <2>5, <2>6, <2>7
<1> HIDE DEF rest
<1>7. v[Len(v)] = p[1].block /\ 1 \in 1..r /\ Len(v) >= 1
  BY <1>1, <1>6
<1>8. N \in 0..(Len(v) - 1)
  <2>1. CASE rest = 0
    BY <1>1, <1>6, <2>1
  <2>2. CASE rest # 0
    <3>1. r + rest <= Len(v)
      BY <1>1, <1>6, <2>2
    <3> QED BY <1>1, <3>1
  <2> QED BY <2>1, <2>2
<1>9. \A i \in 1..(r - 1) : v[Len(v) - i] = q[i].block /\ q[i].block # v[Len(v)]
  <2> SUFFICES ASSUME NEW i \in 1..(r - 1)
               PROVE  v[Len(v) - i] = q[i].block /\ q[i].block # v[Len(v)]
    OBVIOUS
  <2>1. q[i] = p[i + 1] /\ i + 1 \in 1..r /\ i + 1 # 1
    BY <1>3
  <2>2. v[Len(v) + 1 - (i + 1)] = p[i + 1].block
    BY <1>6, <2>1
  <2>3. Len(v) + 1 - (i + 1) = Len(v) - i
    BY <1>1
  <2>4. p[i + 1].block # p[1].block
    BY <1>6, <1>7, <2>1
  <2> QED BY <1>7, <2>1, <2>2, <2>3, <2>4
<1>10. \A i \in 1..rest : /\ v[Len(v) - ((r - 1) + i)] = chain[k + i]
                          /\ chain[k + i] # v[Len(v)]
  <2> SUFFICES ASSUME NEW i \in 1..rest
               PROVE  v[Len(v) - ((r - 1) + i)] = chain[k + i] /\ chain[k + i] # v[Len(v)]
    OBVIOUS
  <2>1. Len(v) + 1 - (r + i) = Len(v) - ((r - 1) + i)
    BY <1>1
  <2> QED BY <1>6, <1>7, <2>1
<1>11. \A i \in 1..N : v[Len(v) - i] # v[Len(v)]
  <2> SUFFICES ASSUME NEW i \in 1..N PROVE v[Len(v) - i] # v[Len(v)]
    OBVIOUS
  <2>1. CASE i \in 1..(r - 1)
    BY <1>9, <2>1
  <2>2. CASE i \notin 1..(r - 1)
    <3>1. i - (r - 1) \in 1..rest /\ i = (r - 1) + (i - (r - 1))
      BY <1>1, <2>2
    <3> QED BY <1>10, <3>1
  <2> QED BY <2>1, <2>2
<1>12. /\ Len(w) \in Nat /\ Len(w) >= N
       /\ \A i \in 1..N : w[Len(w) + 1 - i] = v[Len(v) - i]
  BY <1>7, <1>8, <1>11, SiftSuffix
<1> HIDE DEF w
<1>13. \A i \in 1..(r - 1) : w[Len(w) + 1 - i] = q[i].block
  <2>1. \A i \in 1..(r - 1) : i \in 1..N
    BY <1>1
  <2> QED BY <1>9, <1>12, <2>1
<1>14. \A i \in 1..rest : /\ (r - 1) + i <= Len(w)
                          /\ w[Len(w) + 1 - ((r - 1) + i)] = chain[k + i]
  <2>1. \A i \in 1..rest : (r - 1) + i \in 1..N
    BY <1>1
  <2>2. \A i \in 1..N : i <= Len(w)
    BY <1>1, <1>12
  <2> QED BY <1>10, <1>12, <2>1, <2>2
<1>15. \A i \in 1..k : i <= Len(chain) => chain[i] = q[(r - 1) + (k + 1 - i)].block
  <2>1. \A i \in 1..k : k + 1 - i \in 1..k
    OBVIOUS
  <2> QED BY <1>4, <1>6, <2>1
<1>16. \A i, j \in 1..(r - 1) : q[i].block = q[j].block => i = j
  <2> SUFFICES ASSUME NEW i \in 1..(r - 1), NEW j \in 1..(r - 1), q[i].block = q[j].block
               PROVE  i = j
    OBVIOUS
  <2>1. p[i + 1].block = p[j + 1].block /\ i + 1 \in 1..r /\ j + 1 \in 1..r
    BY <1>3
  <2>2. i + 1 = j + 1
    BY <1>6, <2>1
  <2> QED BY <1>1, <2>2
<1>17. \A i \in 1..(r - 1) : \A m \in 1..rest : q[i].block # chain[k + m]
  <2> SUFFICES ASSUME NEW i \in 1..(r - 1), NEW m \in 1..rest
               PROVE  q[i].block # chain[k + m]
    OBVIOUS
  <2>1. q[i] = p[i + 1] /\ i + 1 \in 1..r
    BY <1>3
  <2>2. p[i + 1].block # chain[k + m]
    BY <1>6, <2>1
  <2> QED BY <2>1, <2>2
<1>18. \A i \in 1..(Len(chain) - k) : i \in 1..rest
  BY <1>1 DEF rest
<1>19. r - 1 <= Len(w)
  BY <1>1, <1>12
<1>20. Fits(w, q, chain, 0, r - 1, k)
  <2>1. /\ \A i \in 1..(r - 1) : 0 + i = i
        /\ \A i \in 1..k : 0 + (r - 1) + (k + 1 - i) = (r - 1) + (k + 1 - i)
    BY <1>1
  <2> QED BY <1>13, <1>14, <1>15, <1>16, <1>17, <1>18, <1>19, <2>1 DEF Fits
<1> QED BY <1>2, <1>5, <1>7, <1>20 DEF w

LEMMA DequeueCanonical ==
    ASSUME NEW p, NEW q \in Seq(Event), Dequeued(p, q), NEW v \in Seq(Block),
           NEW chain \in Seq(Block), NEW k \in Nat,
           Queued(p, 0, 0, k), Fits(v, p, chain, 0, 0, k), k # 0
    PROVE  LET w == Append(v, p[1].block)
           IN /\ Queued(q, 0, 0, k - 1) /\ Fits(w, q, chain, 0, 0, k - 1)
              /\ p[1].type = "Canonicalized"
<1> DEFINE w == Append(v, p[1].block)
<1>1. Len(v) \in Nat /\ Len(chain) \in Nat /\ k - 1 \in Nat
  OBVIOUS
<1>2. /\ Len(p) = k /\ Len(q) = k - 1
      /\ \A i \in 1..(k - 1) : q[i] = p[i + 1] /\ i + 1 \in 1..k
      /\ \A i \in 1..k : p[i].type = "Canonicalized"
  <2>1. Len(p) = 0 + 0 + k /\ \A i \in 1..k : p[0 + 0 + i].type = "Canonicalized"
    BY DEF Queued
  <2>2. \A i \in 1..k : 0 + 0 + i = i
    OBVIOUS
  <2>3. Len(p) = k
    BY <2>1
  <2> QED BY <1>1, <2>1, <2>2, <2>3 DEF Dequeued
<1>3. Queued(q, 0, 0, k - 1)
  <2>1. \A i \in 1..(k - 1) : 0 + 0 + i = i
    OBVIOUS
  <2> QED BY <1>1, <1>2, <2>1 DEF Queued
<1>4. /\ \A i \in 1..k : i <= Len(chain) => chain[i] = p[k + 1 - i].block
      /\ \A i \in 1..(Len(chain) - k) : i <= Len(v) /\ v[Len(v) + 1 - i] = chain[k + i]
  <2>1. /\ \A i \in 1..k : i <= Len(chain) => chain[i] = p[0 + 0 + (k + 1 - i)].block
        /\ \A i \in 1..(Len(chain) - k) :
              0 + i <= Len(v) /\ v[Len(v) + 1 - (0 + i)] = chain[k + i]
    BY DEF Fits
  <2>2. /\ \A i \in 1..k : 0 + 0 + (k + 1 - i) = k + 1 - i
        /\ \A i \in 1..(Len(chain) - k) : 0 + i = i
    BY <1>1
  <2> QED BY <2>1, <2>2
<1>5. p[1].block \in Block
  BY DEF Dequeued
<1>6. /\ w \in Seq(Block) /\ Len(w) = Len(v) + 1 /\ w[Len(v) + 1] = p[1].block
      /\ \A i \in 1..Len(v) : w[i] = v[i]
  BY <1>1, <1>5
<1> HIDE DEF w
<1>7. \A i \in 1..(k - 1) : i <= Len(chain) => chain[i] = q[(k - 1) + 1 - i].block
  <2> SUFFICES ASSUME NEW i \in 1..(k - 1), i <= Len(chain)
               PROVE  chain[i] = q[(k - 1) + 1 - i].block
    OBVIOUS
  <2>1. /\ (k - 1) + 1 - i \in 1..(k - 1) /\ (k - 1) + 1 - i + 1 = k + 1 - i
        /\ i \in 1..k
    BY <1>1
  <2>2. q[(k - 1) + 1 - i] = p[(k - 1) + 1 - i + 1]
    BY <1>2, <2>1
  <2> QED BY <1>4, <2>1, <2>2
<1>8. ASSUME NEW i \in 1..(Len(chain) - (k - 1))
      PROVE  i <= Len(w) /\ w[Len(w) + 1 - i] = chain[(k - 1) + i]
  <2>1. CASE i = 1
    <3>1. (k - 1) + i = k /\ k \in 1..k /\ k <= Len(chain) /\ k + 1 - k = 1 /\ Len(w) + 1 - i = Len(v) + 1
      BY <1>1, <1>6, <2>1
    <3>2. chain[k] = p[1].block
      BY <1>4, <3>1
    <3> QED BY <1>1, <1>6, <2>1, <3>1, <3>2
  <2>2. CASE i # 1
    <3>1. /\ i - 1 \in 1..(Len(chain) - k) /\ k + (i - 1) = (k - 1) + i
          /\ Len(v) + 1 - (i - 1) = Len(w) + 1 - i
      BY <1>1, <1>6, <2>2
    <3>2. i - 1 <= Len(v) /\ v[Len(v) + 1 - (i - 1)] = chain[k + (i - 1)]
      BY <1>4, <3>1
    <3>3. Len(v) + 1 - (i - 1) \in 1..Len(v) /\ i <= Len(w)
      BY <1>1, <1>6, <3>1, <3>2
    <3> QED BY <1>6, <3>1, <3>2, <3>3
  <2> QED BY <2>1, <2>2
<1>9. Fits(w, q, chain, 0, 0, k - 1)
  <2>1. /\ \A i \in 1..(k - 1) : 0 + 0 + ((k - 1) + 1 - i) = (k - 1) + 1 - i
        /\ \A i \in 1..(Len(chain) - (k - 1)) : 0 + i = i
    BY <1>1
  <2> QED BY <1>1, <1>6, <1>7, <1>8, <2>1 DEF Fits
<1>10. 1 \in 1..k
  BY <1>1
<1> QED BY <1>2, <1>3, <1>9, <1>10 DEF w

-----------------------------------------------------------------------------
(***************************************************************************)
(* What the tree's chain becomes.                                          *)
(***************************************************************************)
LEMMA ChainType ==
    ASSUME NEW t, TreeInv(t)
    PROVE  /\ CanonicalIter(t) \in Seq(Block) /\ Len(CanonicalIter(t)) \in Nat
           /\ t.tip = NoBlock => CanonicalIter(t) = << >>
           /\ DOMAIN CanonicalIter(t) = 1..Len(CanonicalIter(t))
           /\ \A i, j \in 1..Len(CanonicalIter(t)) :
                 CanonicalIter(t)[i] = CanonicalIter(t)[j] => i = j
<1>1. CASE t.tip = NoBlock
  <2>1. CanonicalIter(t) = << >>
    BY <1>1 DEF CanonicalIter
  <2> QED BY <2>1
<1>2. CASE t.tip # NoBlock
  BY <1>2, ChainIsWalk DEF Descends
<1> QED BY <1>1, <1>2

\* A block with a parent among the nodes is never the parent of their root.
LEMMA ForkWalk ==
    ASSUME NEW nodes \in SUBSET Block, RootsLowest(nodes), NEW a \in nodes,
           NEW b \in Block, b \notin nodes, Parent[b] \in nodes
    PROVE  Walk(nodes \cup {b}, a) = Walk(nodes, a)
<1> DEFINE w == Walk(nodes, a)
           c == w[Len(w)]
<1>1. IsWalk(w, nodes, a) /\ a \in Block
  BY WalkExists
<1> HIDE DEF w
<1>2. c \in nodes /\ c \in Block /\ Parent[c] \notin nodes
  <2>1. Descends(w, nodes, a)
    BY <1>1, WalkShape
  <2> QED BY <2>1 DEF Descends
<1>3. Parent[c] # b
  <2> SUFFICES ASSUME Parent[c] = b PROVE FALSE
    OBVIOUS
  <2> HIDE DEF c
  <2>1. /\ b # NoBlock /\ Parent[b] # NoBlock /\ Number[Parent[b]] \in Nat
        /\ Number[c] = Number[b] + 1 /\ Number[b] = Number[Parent[b]] + 1
    BY <1>2, BlockAssumption
  <2>2. Number[c] <= Number[Parent[b]]
    BY <1>2 DEF RootsLowest
  <2> QED BY <2>1, <2>2
<1>4. IsWalk(w, nodes \cup {b}, a)
  BY <1>1, <1>2, <1>3 DEF IsWalk
<1> QED BY <1>1, <1>4, WalkUnique DEF w

\* A side branch leaves the canonical chain alone.
LEMMA ForkChain ==
    ASSUME NEW t, TreeInv(t), NEW b \in Block, b \notin t.nodes,
           t.nodes # {} => Parent[b] \in t.nodes, ~Beats(Insert(t, b), b)
    PROVE  CanonicalIter(Insert(t, b)) = CanonicalIter(t)
<1> DEFINE u == Insert(t, b)
<1>1. u.nodes = t.nodes \cup {b} /\ u.tip = t.tip
  BY InsertFields
<1>2. TreeInv(u)
  BY ForkInv
<1>3. ~Beats(u, b)
  OBVIOUS
<1> HIDE DEF u
<1>4. t.tip # NoBlock
  BY <1>1, <1>3 DEF Beats
<1>5. /\ t.nodes \in SUBSET Block /\ t.tip \in t.nodes
      /\ CanonicalIter(t) = Walk(t.nodes, t.tip)
  BY <1>4, ChainIsWalk
<1>6. CanonicalIter(u) = Walk(u.nodes, u.tip)
  BY <1>1, <1>2, <1>4, ChainIsWalk
<1>7. RootsLowest(t.nodes)
  BY DEF TreeInv
<1>8. Walk(t.nodes \cup {b}, t.tip) = Walk(t.nodes, t.tip)
  BY <1>5, <1>7, ForkWalk
<1> QED BY <1>1, <1>5, <1>6, <1>8 DEF u

\* The chain of a new head: its branch, cut off by prune_to_depth.
LEMMA AdoptChain ==
    ASSUME NEW t, TreeInv(t), NEW b \in Block, b \notin t.nodes,
           t.nodes # {} => Parent[b] \in t.nodes, Beats(Insert(t, b), b)
    PROVE  LET branch == Walk(t.nodes \cup {b}, b)
           IN /\ Descends(branch, t.nodes \cup {b}, b)
              /\ \E m \in 1..Len(branch) :
                    CanonicalIter(PruneToDepth([Insert(t, b) EXCEPT !.tip = b]))
                        = SubSeq(branch, 1, m)
<1> DEFINE i == [Insert(t, b) EXCEPT !.tip = b]
           u == PruneToDepth(i)
           nodes == t.nodes \cup {b}
           branch == Walk(nodes, b)
           floor == IF Number[b] > Depth THEN Number[b] - Depth ELSE 0
<1>1. i.nodes = nodes /\ i.tip = b /\ i \in Tree
  BY InsertFields DEF Tree
<1>2. TreeInv(u)
  BY CanonicalInv
<1>3. Number[b] \in Nat /\ Depth \in Nat
  BY BlockAssumption
<1>4. floor \in Nat /\ floor <= Number[b]
  BY <1>3
<1> HIDE DEF i
<1>5. u.nodes = {c \in nodes : Number[c] >= floor} /\ u.tip = b
  BY <1>1 DEF PruneToDepth, PruneBelow, Tree
<1>6. b # NoBlock /\ nodes \in SUBSET Block /\ b \in nodes
  BY BlockAssumption DEF TreeInv, Tree
<1> HIDE DEF u, floor
<1>7. CanonicalIter(u) = Walk(u.nodes, b)
  BY <1>2, <1>5, <1>6, ChainIsWalk
<1>8. \E m \in 1..Len(branch) : Walk({c \in nodes : Number[c] >= floor}, b) = SubSeq(branch, 1, m)
  BY <1>4, <1>6, PrunedWalk
<1>9. Descends(branch, nodes, b)
  BY <1>6, WalkExists, WalkShape
<1> QED BY <1>5, <1>7, <1>8, <1>9 DEF u, i

\* finalize cuts the chain off at the new floor.
LEMMA FinalizeChain ==
    ASSUME NEW t, TreeInv(t), NEW f \in Block
    PROVE  \E m \in 0..Len(CanonicalIter(t)) :
              CanonicalIter(Finalize(t, f).tree) = SubSeq(CanonicalIter(t), 1, m)
<1> DEFINE u == Finalize(t, f).tree
           floor == FinalFloor(t, f)
<1>1. TreeInv(u)
  BY FinalizeInv
<1>2. t \in Tree /\ u = PruneBelow([t EXCEPT !.finalized = f], floor)
  BY DEF Finalize, TreeInv
<1>3. u.tip = t.tip /\ u.nodes = {b \in t.nodes : Number[b] >= floor}
  BY <1>2 DEF PruneBelow, Tree
<1> HIDE DEF u
<1>4. CASE t.tip = NoBlock
  <2>1. CanonicalIter(t) = << >> /\ CanonicalIter(u) = << >>
    BY <1>3, <1>4 DEF CanonicalIter
  <2>2. SubSeq(<< >>, 1, 0) = << >> /\ 0 \in 0..Len(<< >>)
    OBVIOUS
  <2> QED BY <2>1, <2>2 DEF u
<1>5. CASE t.tip # NoBlock
  <2>1. /\ t.nodes \in SUBSET Block /\ t.tip \in t.nodes /\ t.tip \in Block
        /\ CanonicalIter(t) = Walk(t.nodes, t.tip)
    BY <1>5, ChainIsWalk
  <2>2. CanonicalIter(u) = Walk(u.nodes, t.tip)
    BY <1>1, <1>3, <1>5, ChainIsWalk
  <2>3. floor \in Nat /\ floor <= Number[t.tip]
    BY <1>5, <2>1, BlockAssumption DEF FinalFloor
  <2> HIDE DEF floor
  <2>4. PICK m \in 1..Len(Walk(t.nodes, t.tip)) :
           Walk({b \in t.nodes : Number[b] >= floor}, t.tip) = SubSeq(Walk(t.nodes, t.tip), 1, m)
    BY <2>1, <2>3, PrunedWalk
  <2>5. m \in 0..Len(Walk(t.nodes, t.tip))
    OBVIOUS
  <2> QED BY <1>3, <2>1, <2>2, <2>4, <2>5 DEF u
<1> QED BY <1>4, <1>5

\* The events of a canonical update fit the chain the tree moves to.
LEMMA AdoptFits ==
    ASSUME NEW t, TreeInv(t), NEW b \in Block, NEW up, NEW j \in Nat, NEW k \in Nat,
           Replaces(t, b, up, j, k), NEW p, Announces(p, t, b, j, k),
           Descends(Walk(t.nodes \cup {b}, b), t.nodes \cup {b}, b),
           NEW m \in 1..Len(Walk(t.nodes \cup {b}, b)),
           NEW v \in Seq(Block), Aligned(v, CanonicalIter(t))
    PROVE  Fits(v, p, SubSeq(Walk(t.nodes \cup {b}, b), 1, m), 1, j, k)
<1> DEFINE branch == Walk(t.nodes \cup {b}, b)
           chain == CanonicalIter(t)
           new == SubSeq(branch, 1, m)
<1>1. /\ chain \in Seq(Block) /\ Len(chain) \in Nat
      /\ \A x, y \in 1..Len(chain) : chain[x] = chain[y] => x = y
  BY ChainType
<1>2. branch \in Seq(Block) /\ Len(branch) \in Nat
  BY DEF Descends
<1>3. Len(new) = m /\ \A i \in 1..m : new[i] = branch[i]
  <2>1. m \in 0..Len(branch)
    BY <1>2
  <2> QED BY <1>2, <2>1, Reversed
<1>4. /\ j \in 0..Len(chain) /\ k \in 1..Len(branch)
      /\ up.rejoins => /\ Len(chain) - j = Len(branch) - k
                       /\ \A i \in 1..(Len(chain) - j) : chain[j + i] = branch[k + i]
      /\ ~up.rejoins => j = Len(chain) /\ k = Len(branch)
  BY DEF Replaces
<1>5. /\ \A i \in 1..j : p[1 + i].block = chain[i]
      /\ \A i \in 1..k : p[1 + j + i].block = branch[k + 1 - i]
  BY DEF Announces
<1>6. /\ Len(v) \in Nat /\ Len(chain) <= Len(v)
      /\ \A i \in 1..Len(chain) : v[Len(v) + 1 - i] = chain[i]
  BY DEF Aligned
<1> HIDE DEF new, branch, chain
<1>7. ASSUME NEW i \in 1..(m - k)
      PROVE  j + i \in 1..Len(chain) /\ k + i \in 1..m /\ branch[k + i] = chain[j + i]
  <2>1. k + i \in 1..m /\ m <= Len(branch) /\ k < Len(branch)
    <3>1. m \in 1..Len(branch)
      BY DEF branch
    <3> QED BY <1>2, <1>4, <3>1
  <2>2. up.rejoins
    BY <1>2, <1>4, <2>1
  <2>3. i \in 1..(Len(chain) - j)
    BY <1>1, <1>2, <1>4, <2>1, <2>2
  <2>4. j + i \in 1..Len(chain)
    BY <1>1, <1>4, <2>3
  <2> QED BY <1>4, <2>1, <2>2, <2>3, <2>4
<1>8. j <= Len(v) /\ \A i \in 1..j : v[Len(v) + 1 - i] = p[1 + i].block
  <2>1. \A i \in 1..j : i \in 1..Len(chain)
    BY <1>1, <1>4
  <2>2. j <= Len(v)
    BY <1>1, <1>4, <1>6
  <2> QED BY <1>5, <1>6, <2>1, <2>2
<1>9. ASSUME NEW i \in 1..k, i <= m PROVE new[i] = p[1 + j + (k + 1 - i)].block
  <2>1. k + 1 - i \in 1..k /\ k + 1 - (k + 1 - i) = i /\ i \in 1..m
    BY <1>9
  <2>2. p[1 + j + (k + 1 - i)].block = branch[k + 1 - (k + 1 - i)]
    BY <1>5, <2>1
  <2> QED BY <1>3, <2>1, <2>2
<1>10. ASSUME NEW i \in 1..(m - k)
       PROVE  j + i <= Len(v) /\ v[Len(v) + 1 - (j + i)] = new[k + i]
  <2>1. j + i \in 1..Len(chain) /\ k + i \in 1..m /\ branch[k + i] = chain[j + i]
    BY <1>7
  <2>2. j + i <= Len(v)
    BY <1>1, <1>6, <2>1
  <2> QED BY <1>3, <1>6, <2>1, <2>2
<1>11. ASSUME NEW x \in 1..j, NEW y \in 1..j, p[1 + x].block = p[1 + y].block PROVE x = y
  <2>1. x \in 1..Len(chain) /\ y \in 1..Len(chain)
    BY <1>1, <1>4
  <2> QED BY <1>1, <1>5, <1>11, <2>1
<1>12. ASSUME NEW x \in 1..j, NEW i \in 1..(m - k) PROVE p[1 + x].block # new[k + i]
  <2>1. j + i \in 1..Len(chain) /\ k + i \in 1..m /\ branch[k + i] = chain[j + i]
    BY <1>7
  <2>2. x \in 1..Len(chain) /\ x # j + i
    BY <1>1, <1>4
  <2> QED BY <1>1, <1>3, <1>5, <2>1, <2>2
<1> QED BY <1>3, <1>8, <1>9, <1>10, <1>11, <1>12 DEF Fits, new, branch

-----------------------------------------------------------------------------
(***************************************************************************)
(* The back-fill stack.  It is a line of descendants, oldest on top, and   *)
(* while reverts or canonical blocks are owed to the bus its top continues *)
(* the new tip.                                                            *)
(***************************************************************************)
Owed(p) == \E i \in 1..Len(p) : p[i].type \in {"Reverted", "Canonicalized"}

\* The next turns of ingest, if any, extend the tip.
Extends(st, t) == st # << >> => t.tip # NoBlock /\ Parent[st[Len(st)]] = t.tip

StackInv ==
    /\ \A i \in 1..(Len(stack) - 1) : Parent[stack[i]] = stack[i + 1]
    /\ Owed(pending) => Extends(stack, tree)

\* What is left of the stack after a turn on its top.
LEMMA PoppedLine ==
    ASSUME NEW st \in Seq(Block), st # << >>,
           \A i \in 1..(Len(st) - 1) : Parent[st[i]] = st[i + 1]
    PROVE  LET q == SubSeq(st, 1, Len(st) - 1)
           IN /\ \A i \in 1..(Len(q) - 1) : Parent[q[i]] = q[i + 1]
              /\ q # << >> => Parent[q[Len(q)]] = st[Len(st)]
<1> DEFINE q == SubSeq(st, 1, Len(st) - 1)
<1>1. Len(st) \in Nat /\ Len(st) >= 1 /\ Len(st) - 1 \in 0..Len(st)
  OBVIOUS
<1>2. Len(q) = Len(st) - 1 /\ \A i \in 1..Len(q) : q[i] = st[i]
  BY <1>1, Reversed
<1> HIDE DEF q
<1>3. ASSUME NEW i \in 1..(Len(q) - 1) PROVE Parent[q[i]] = q[i + 1]
  <2>1. i \in 1..Len(q) /\ i + 1 \in 1..Len(q) /\ i \in 1..(Len(st) - 1)
    BY <1>1, <1>2
  <2> QED BY <1>2, <2>1
<1>4. ASSUME q # << >> PROVE Parent[q[Len(q)]] = st[Len(st)]
  <2>1. Len(q) # 0
    <3>1. q \in Seq(Block)
      BY <1>1 DEF q
    <3> QED BY <1>4, <3>1
  <2>2. Len(q) \in 1..(Len(st) - 1) /\ Len(q) + 1 = Len(st) /\ Len(q) \in 1..Len(q)
    BY <1>1, <1>2, <2>1
  <2>3. Parent[st[Len(q)]] = st[Len(q) + 1]
    BY <2>2
  <2> QED BY <1>2, <2>2, <2>3
<1> QED BY <1>3, <1>4 DEF q

\* After a canonical update the tip is the block added.
LEMMA NewTip ==
    ASSUME NEW t, TreeInv(t), NEW b \in Block, b \notin t.nodes
    PROVE  PruneToDepth([Insert(t, b) EXCEPT !.tip = b]).tip = b
<1> DEFINE i == Insert(t, b)
           u == [i EXCEPT !.tip = b]
<1>1. i \in Tree
  BY InsertFields
<1> HIDE DEF i
<1>2. u \in Tree /\ u.tip = b
  BY <1>1 DEF Tree
<1> HIDE DEF u
<1>3. PruneToDepth(u).tip = b
  BY <1>2 DEF PruneToDepth, PruneBelow, Tree
<1> QED BY <1>3 DEF u, i

LEMMA StackStep == TypeInv /\ StackInv /\ [Next]_vars => StackInv'
<1> SUFFICES ASSUME TypeInv, StackInv, [Next]_vars PROVE StackInv'
  OBVIOUS
<1>t. TreeInv(tree) /\ stack \in Seq(Block) /\ pending \in Seq(Event)
  BY DEF TypeInv
<1>e. ~Owed(<< >>)
  BY DEF Owed
<1>1. ASSUME AddStep PROVE StackInv'
  <2>1. Turns(Top) /\ stack # << >> /\ stack' \in {<< >>, Popped}
    BY <1>1, AddStepTurns DEF AddStep
  <2>2. /\ \A i \in 1..(Len(Popped) - 1) : Parent[Popped[i]] = Popped[i + 1]
        /\ Popped # << >> => Parent[Popped[Len(Popped)]] = Top
    BY <1>t, <2>1, PoppedLine DEF StackInv, Popped, Top
  <2>3. \A i \in 1..(Len(stack') - 1) : Parent[stack'[i]] = stack'[i + 1]
    <3>1. CASE stack' = << >>
      BY <3>1
    <3>2. CASE stack' = Popped
      BY <2>2, <3>2
    <3> QED BY <2>1, <3>1, <3>2
  <2> DEFINE b == Top
  <2>b. b \in Block
    BY <2>1 DEF Turns
  <2>4. CASE Refused(b)
    BY <1>e, <2>3, <2>4 DEF Refused, StackInv
  <2>5. CASE Forked(b)
    <3>1. Len(pending') = 1 /\ pending'[1].type = "Assembled"
      BY <2>5 DEF Forked, Queued
    <3>2. \A i \in 1..1 : i = 1
      OBVIOUS
    <3>3. ~Owed(pending')
      BY <3>1, <3>2 DEF Owed
    <3> QED BY <2>3, <3>3 DEF StackInv
  <2>6. ASSUME NEW j \in Nat, NEW k \in Nat, Adopted(b, j, k) PROVE StackInv'
    <3>2. tree'.tip = b
      BY <1>t, <2>b, <2>6, NewTip DEF Adopted
    <3>3. b # NoBlock
      BY <2>b, BlockAssumption
    <3>4. Extends(stack', tree')
      BY <2>1, <2>2, <3>2, <3>3 DEF Extends
    <3> QED BY <2>3, <3>4 DEF StackInv
  <2> QED BY <2>1, <2>4, <2>5, <2>6 DEF Turns
<1>2. ASSUME Publish \/ Abandon PROVE StackInv'
  <2>1. Dequeued(pending, pending') /\ stack' = stack /\ tree' = tree
    BY <1>2, PublishDequeues DEF Publish, Abandon
  <2>2. \A i \in 1..Len(pending') : i + 1 \in 1..Len(pending) /\ pending'[i] = pending[i + 1]
    BY <2>1 DEF Dequeued
  <2>3. Owed(pending') => Owed(pending)
    BY <2>2 DEF Owed
  <2> QED BY <2>1, <2>3 DEF StackInv
<1>3. ASSUME NEW e \in Endpoint, TickFinalize(e) PROVE StackInv'
  <2>1. Finalizes(fin[e]) /\ stack' = << >>
    BY <1>3, TickFinalizes DEF TickFinalize, Idle
  <2> QED BY <2>1 DEF StackInv, Extends
<1>4. ASSUME TakeHead PROVE StackInv'
  <2>1. Len(stack') = 1 /\ pending' = << >>
    BY <1>4 DEF TakeHead, Idle
  <2> QED BY <1>e, <2>1 DEF StackInv
<1>5. ASSUME BackFill PROVE StackInv'
  <2>1. stack # << >> /\ pending' = << >> /\ stack' = Append(stack, Parent[Top])
    BY <1>5 DEF BackFill
  <2>2. Len(stack) \in Nat /\ Len(stack) >= 1
    BY <1>t, <2>1
  <2>3. /\ Len(stack') = Len(stack) + 1 /\ stack'[Len(stack) + 1] = Parent[stack[Len(stack)]]
        /\ \A i \in 1..Len(stack) : stack'[i] = stack[i]
    <3>1. Parent[Top] \in Block \cup {NoBlock}
      BY <1>t, <2>1, <2>2, BlockAssumption DEF Top
    <3>2. stack \in Seq(Block \cup {NoBlock})
      BY <1>t
    <3> QED BY <2>1, <2>2, <3>1, <3>2 DEF Top
  <2>4. ASSUME NEW i \in 1..(Len(stack') - 1) PROVE Parent[stack'[i]] = stack'[i + 1]
    <3>1. CASE i = Len(stack)
      BY <2>2, <2>3, <3>1
    <3>2. CASE i # Len(stack)
      <4>1. i \in 1..(Len(stack) - 1) /\ i \in 1..Len(stack) /\ i + 1 \in 1..Len(stack)
        BY <2>2, <2>3, <3>2
      <4> QED BY <2>3, <4>1 DEF StackInv
    <3> QED BY <3>1, <3>2
  <2> QED BY <1>e, <2>1, <2>4 DEF StackInv
<1>6. ASSUME BackFillFails \/ Restart PROVE StackInv'
  <2>1. stack' = << >>
    BY <1>6 DEF BackFillFails, Restart
  <2> QED BY <2>1 DEF StackInv, Extends
<1>7. ASSUME UNCHANGED <<tree, stack, pending>> PROVE StackInv'
  BY <1>7 DEF StackInv
<1>8. ASSUME Source \/ Poller \/ Shutdown \/ UNCHANGED vars
      PROVE  UNCHANGED <<tree, stack, pending>>
  BY <1>8 DEF Source, MoveHead, AdvanceFinal, Poller, PollTick, PollFetch, PollFetchFails,
              PollSend, Shutdown, vars, pipeline
<1> QED BY <1>1, <1>2, <1>3, <1>4, <1>5, <1>6, <1>7, <1>8
        DEF Next, Pipeline, PipelineWork

LEMMA StackInvariant == Spec => []StackInv
<1>1. Init => StackInv
  BY DEF Init, StackInv, Extends
<1> QED BY <1>1, StackStep, TypeInvariant, PTL DEF Spec

\* In a drain the top of the stack goes on extending the tip, and a turn on it
\* takes nothing back.
LEMMA ExtendsStep ==
    ASSUME TypeInv, StackInv, stopping, Extends(stack, tree), [Next]_vars, ~Restart
    PROVE  /\ Extends(stack', tree')
           /\ AddStep => \A i \in 1..Len(pending') : pending'[i].type # "Reverted"
<1>0. StackInv'
  BY StackStep
<1>t. TreeInv(tree) /\ stack \in Seq(Block)
  BY DEF TypeInv
<1> DEFINE Goal == /\ Extends(stack', tree')
                   /\ AddStep => \A i \in 1..Len(pending') : pending'[i].type # "Reverted"
<1>1. ASSUME AddStep PROVE Goal
  <2>1. Turns(Top) /\ stack # << >> /\ pending = << >>
    BY <1>1, AddStepTurns DEF AddStep
  <2> DEFINE b == Top
  <2>2. /\ b \in Block /\ Parent[b] = tree.tip /\ tree.tip # NoBlock /\ tree.tip \in tree.nodes
        /\ tree.tip \in Block
    BY <1>t, <2>1 DEF Turns, Extends, Top, TreeInv, Tree
  <2>3. Number[b] = Number[tree.tip] + 1 /\ Number[tree.tip] \in Nat /\ Number[b] \in Nat
    BY <2>2, BlockAssumption
  <2>4. b \notin tree.nodes
    <3> SUFFICES ASSUME b \in tree.nodes PROVE FALSE
      OBVIOUS
    <3>1. b = tree.tip \/ ~Beats(tree, b)
      BY <1>t DEF TreeInv
    <3> QED BY <2>3, <3>1 DEF Beats
  <2>5. CASE Refused(b)
    <3>1. AddBlock(tree, b).kind \notin {"Duplicate", "Fork", "Canonical", "MissingParent"}
      <4>1. AddBlock(tree, b).kind # "Duplicate"
        BY <2>4 DEF AddBlock, NoChange
      <4>2. AddBlock(tree, b).kind # "MissingParent"
        BY <1>1 DEF AddStep
      <4>3. AddBlock(tree, b).tree = tree
        BY <1>1, <2>5 DEF AddStep, Refused
      <4>4. AddBlock(tree, b).kind # "Fork"
        <5> SUFFICES ASSUME AddBlock(tree, b).kind = "Fork" PROVE FALSE
          OBVIOUS
        <5>1. AddBlock(tree, b).tree = Insert(tree, b)
          BY <2>2, AddBlockReturns
        <5>2. b \in Insert(tree, b).nodes
          BY <1>t, <2>2, <2>4, InsertFields
        <5> QED BY <2>4, <4>3, <5>1, <5>2
      <4>5. AddBlock(tree, b).kind # "Canonical"
        <5> SUFFICES ASSUME AddBlock(tree, b).kind = "Canonical" PROVE FALSE
          OBVIOUS
        <5>1. AddBlock(tree, b).tree = PruneToDepth([Insert(tree, b) EXCEPT !.tip = b])
          BY <2>2, AddBlockReturns
        <5>4. tree.tip = b
          BY <1>t, <2>2, <2>4, <4>3, <5>1, NewTip
        <5> QED BY <2>2, <2>4, <5>4
      <4> QED BY <4>1, <4>2, <4>4, <4>5
    <3>2. AddBlock(tree, b).kind = "ReorgBeyondFinality"
      BY <2>2, <3>1, AddBlockReturns
    <3>3. stack' = << >> /\ pending' = << >>
      BY <1>1, <2>5, <3>2 DEF AddStep, Refused
    <3> QED BY <3>3 DEF Extends
  <2>6. CASE Forked(b)
    <3>1. ~Beats(Insert(tree, b), b) /\ b \notin tree.nodes
      BY <2>6 DEF Forked
    <3>2. Insert(tree, b).tip = tree.tip
      BY <1>t DEF Insert, TreeInv, Tree
    <3> QED BY <2>3, <3>1, <3>2 DEF Beats
  <2>7. ASSUME NEW j \in Nat, NEW k \in Nat, Adopted(b, j, k) PROVE Goal
    <3> DEFINE branch == Walk(tree.nodes \cup {b}, b)
    <3>1. /\ Replaces(tree, b, AddBlock(tree, b), j, k) /\ Announces(pending', tree, b, j, k)
          /\ Beats(Insert(tree, b), b)
      BY <2>7 DEF Adopted
    <3>2. /\ k \in 1..Len(branch) /\ \A i \in 1..k : branch[i] \notin Canonical(tree)
          /\ Number[tree.tip] - j = Number[b] - k
      BY <2>2, <3>1 DEF Replaces
    <3>3. Descends(branch, tree.nodes \cup {b}, b)
      <4>1. tree.nodes \cup {b} \in SUBSET Block
        BY <1>t, <2>2 DEF TreeInv, Tree
      <4> QED BY <2>2, <4>1, WalkExists, WalkShape
    <3> HIDE DEF branch
    <3>4. tree.tip \in Canonical(tree)
      <4>1. /\ Descends(CanonicalIter(tree), tree.nodes, tree.tip)
            /\ Canonical(tree) = {CanonicalIter(tree)[i] : i \in 1..Len(CanonicalIter(tree))}
        BY <1>t, <2>2, ChainIsWalk
      <4>2. 1 \in 1..Len(CanonicalIter(tree)) /\ CanonicalIter(tree)[1] = tree.tip
        BY <4>1 DEF Descends
      <4> QED BY <4>1, <4>2
    <3>5. k = 1
      <4>1. branch[1] = b /\ Len(branch) \in Nat /\ Len(branch) >= 1
        BY <3>3 DEF Descends
      <4>2. Len(branch) # 1
        <5> SUFFICES ASSUME Len(branch) = 1 PROVE FALSE
          OBVIOUS
        <5>1. Parent[branch[1]] \notin tree.nodes \cup {b}
          BY <3>3 DEF Descends
        <5> QED BY <2>2, <4>1, <5>1
      <4>3. 1 \in 1..(Len(branch) - 1) /\ 1 + 1 = 2
        <5>1. \A n \in Nat : n >= 1 /\ n # 1 => 1 \in 1..(n - 1)
          OBVIOUS
        <5>2. 1 \in 1..(Len(branch) - 1)
          BY <4>1, <4>2, <5>1
        <5> QED BY <5>2
      <4>4. branch[2] = tree.tip
        BY <2>2, <3>3, <4>1, <4>3 DEF Descends
      <4>5. ~(2 \in 1..k)
        BY <3>2, <3>4, <4>4
      <4> QED BY <3>2, <4>1, <4>5
    <3>6. j = 0
      BY <2>3, <3>2, <3>5
    <3>7. Queued(pending', 1, 0, 1) /\ pending'[1].type = "Assembled"
      BY <3>1, <3>5, <3>6 DEF Announces
    <3>8. /\ Len(pending') = 2 /\ pending'[2].type = "Canonicalized"
      <4>1. Len(pending') = 1 + 0 + 1 /\ pending'[1 + 0 + 1].type = "Canonicalized"
        BY <3>7 DEF Queued
      <4> QED BY <4>1
    <3>9. Owed(pending')
      <4>1. 2 \in 1..Len(pending')
        BY <3>8
      <4> QED BY <3>8, <4>1 DEF Owed
    <3>10. \A i \in 1..2 : i = 1 \/ i = 2
      OBVIOUS
    <3> QED BY <1>0, <3>7, <3>8, <3>9, <3>10 DEF StackInv
  <2> QED BY <2>1, <2>5, <2>6, <2>7 DEF Turns
<1>a. ASSUME ~AddStep, Extends(stack', tree') PROVE Goal
  BY <1>a
<1>2. ASSUME Publish \/ Abandon PROVE Extends(stack', tree')
  BY <1>2 DEF Publish, Abandon
<1>3. ASSUME NEW e \in Endpoint, TickFinalize(e) PROVE FALSE
  BY <1>3 DEF TickFinalize
<1>4. ASSUME TakeHead PROVE FALSE
  BY <1>4 DEF TakeHead
<1>5. ASSUME BackFill PROVE FALSE
  <2>1. stack # << >> /\ AddBlock(tree, Top).kind = "MissingParent"
    BY <1>5 DEF BackFill
  <2>2. Parent[Top] = tree.tip /\ tree.tip # NoBlock /\ tree.tip \in tree.nodes /\ Top \in Block
    BY <1>t, <2>1 DEF Extends, Top, TreeInv
  <2>3. ~(tree.nodes # {} /\ Parent[Top] \notin tree.nodes)
    BY <2>2
  <2>4. AddBlock(tree, Top).kind # "MissingParent"
    BY <2>3 DEF AddBlock, NoChange
  <2> QED BY <2>1, <2>4
<1>6. ASSUME BackFillFails PROVE Extends(stack', tree')
  BY <1>6 DEF BackFillFails, Extends
<1>7. ASSUME Source \/ Poller \/ Shutdown \/ UNCHANGED vars
      PROVE  Extends(stack', tree')
  BY <1>7 DEF Source, MoveHead, AdvanceFinal, Poller, PollTick, PollFetch, PollFetchFails,
              PollSend, Shutdown, vars, pipeline
<1>8. CASE AddStep
  BY <1>1, <1>8
<1>9. CASE ~AddStep
  <2>1. Extends(stack', tree')
    BY <1>2, <1>3, <1>4, <1>5, <1>6, <1>7, <1>9 DEF Next, Pipeline, PipelineWork
  <2> QED BY <1>a, <1>9, <2>1
<1> QED BY <1>8, <1>9

-----------------------------------------------------------------------------
(***************************************************************************)
(* The consumers' chain and the tree's.  The queue always leads from the   *)
(* one to the other; a restart empties queue and tree together, so nothing *)
(* is owed to the consumers afterwards.                                    *)
(***************************************************************************)
Leads(v, p, chain, a, r, k) == Queued(p, a, r, k) /\ Fits(v, p, chain, a, r, k)

\* Every revert still owed names a block of v, and each another one.
RevertsHeld(v, p) ==
    /\ \A i \in 1..Len(p) : p[i].type = "Reverted" => p[i].block \in Members(v)
    /\ \A i, j \in 1..Len(p) :
          p[i].type = "Reverted" /\ p[j].type = "Reverted" /\ p[i].block = p[j].block => i = j

Led == \E a, r, k \in Nat : Leads(view, pending, CanonicalIter(tree), a, r, k)

\* A drain that abandoned part of a reorg leaves the consumers behind the tree
\* until the process ends, but from then on it only extends the tip.
Adrift ==
    /\ stopping /\ abandoned # {}
    /\ Extends(stack, tree)
    /\ RevertsHeld(view, pending)

ViewInv == Led \/ Adrift

\* With nothing queued the two chains agree.
LEMMA NothingOwed ==
    ASSUME TypeInv, Led, pending = << >>
    PROVE  Aligned(view, CanonicalIter(tree))
<1>1. PICK a, r, k \in Nat : Leads(view, pending, CanonicalIter(tree), a, r, k)
  BY DEF Led
<1>2. Len(pending) = 0 /\ Len(pending) = a + r + k
  BY <1>1 DEF Leads, Queued
<1>3. a = 0 /\ r = 0 /\ k = 0
  BY <1>2
<1>4. Fits(view, pending, CanonicalIter(tree), 0, 0, 0)
  BY <1>1, <1>3 DEF Leads
<1>5. view \in Seq(Block) /\ CanonicalIter(tree) \in Seq(Block)
  BY ChainType DEF TypeInv
<1> QED BY <1>4, <1>5, FitsAligned

\* Reverting one block leaves the others in place.
LEMMA RevertKeeps ==
    ASSUME NEW v \in Seq(Block), NEW b, NEW x \in Members(v), x # b
    PROVE  x \in Members(Sift(v, Block \ {b}))
<1> DEFINE S == Block \ {b}
           q == Sift(v, S)
<1>1. Len(v) \in Nat /\ DOMAIN v = 1..Len(v)
  OBVIOUS
<1>2. PICK m \in 1..Len(v) : v[m] = x
  BY <1>1 DEF Members
<1>3. v[m] \in S
  BY <1>2
<1>4. PICK e : Picks(e, q, v, S, Len(v))
  BY <1>1, SiftPicks
<1> HIDE DEF q, S
<1>5. PICK i \in 1..Len(q) : e[i] = m
  BY <1>3, <1>4 DEF Picks
<1>6. q[i] = v[m] /\ i \in DOMAIN q
  BY <1>4, <1>5 DEF Picks
<1>7. x \in Members(q)
  BY <1>2, <1>6 DEF Members
<1> QED BY <1>7 DEF q, S

\* The reverts of a queue that fits are held.
LEMMA FitsHeld ==
    ASSUME NEW v \in Seq(Block), NEW p, NEW chain, NEW r \in Nat, NEW k \in Nat,
           Leads(v, p, chain, 0, r, k)
    PROVE  RevertsHeld(v, p)
<1>1. /\ Len(p) = r + k /\ \A i \in 1..k : p[0 + r + i].type = "Canonicalized"
      /\ r <= Len(v) /\ \A i \in 1..r : v[Len(v) + 1 - i] = p[0 + i].block
      /\ \A i, j \in 1..r : p[0 + i].block = p[0 + j].block => i = j
  BY DEF Leads, Queued, Fits
<1>2. Len(v) \in Nat /\ DOMAIN v = 1..Len(v)
  OBVIOUS
<1>3. ASSUME NEW i \in 1..Len(p), p[i].type = "Reverted" PROVE i \in 1..r /\ 0 + i = i
  <2> SUFFICES ASSUME i > r PROVE FALSE
    BY <1>1
  <2>1. i - r \in 1..k /\ 0 + r + (i - r) = i
    BY <1>1
  <2>2. p[i].type = "Canonicalized"
    BY <1>1, <2>1
  <2> QED BY <1>3, <2>2
<1>4. ASSUME NEW i \in 1..Len(p), p[i].type = "Reverted" PROVE p[i].block \in Members(v)
  <2>1. i \in 1..r /\ 0 + i = i
    BY <1>3, <1>4
  <2>2. Len(v) + 1 - i \in 1..Len(v) /\ v[Len(v) + 1 - i] = p[i].block
    BY <1>1, <1>2, <2>1
  <2> QED BY <1>2, <2>2 DEF Members
<1>5. ASSUME NEW i \in 1..Len(p), NEW j \in 1..Len(p), p[i].type = "Reverted",
             p[j].type = "Reverted", p[i].block = p[j].block
      PROVE  i = j
  <2>1. i \in 1..r /\ 0 + i = i /\ j \in 1..r /\ 0 + j = j
    BY <1>3, <1>5
  <2> QED BY <1>1, <1>5, <2>1
<1> QED BY <1>4, <1>5 DEF RevertsHeld

LEMMA HeldDequeued ==
    ASSUME NEW v, NEW p, NEW q, RevertsHeld(v, p), Dequeued(p, q)
    PROVE  RevertsHeld(v, q)
<1>1. \A i \in 1..Len(q) : i + 1 \in 1..Len(p) /\ q[i] = p[i + 1]
  BY DEF Dequeued
<1>2. \A i, j \in 1..Len(q) : i + 1 = j + 1 => i = j
  BY DEF Dequeued
<1> QED BY <1>1, <1>2 DEF RevertsHeld

\* Adrift lasts until the process ends.
LEMMA AdriftStep ==
    ASSUME TypeInv, StackInv, Adrift, [Next]_vars, ~Restart
    PROVE  Adrift'
<1>t. view \in Seq(Block) /\ pending \in Seq(Event)
  BY DEF TypeInv
<1>1. /\ Extends(stack', tree')
      /\ AddStep => \A i \in 1..Len(pending') : pending'[i].type # "Reverted"
  BY ExtendsStep DEF Adrift
<1>2. ASSUME AddStep PROVE Adrift'
  <2>1. UNCHANGED <<stopping, abandoned>>
    BY <1>2 DEF AddStep, bus, process
  <2> QED BY <1>1, <1>2, <2>1 DEF Adrift, RevertsHeld
<1>3. ASSUME Abandon PROVE Adrift'
  <2>1. UNCHANGED <<stopping, view>> /\ abandoned' # {}
    BY <1>3 DEF Abandon, process, Adrift
  <2>2. RevertsHeld(view, pending')
    BY <1>3, HeldDequeued, PublishDequeues DEF Adrift
  <2> QED BY <1>1, <2>1, <2>2 DEF Adrift
<1>4. ASSUME Publish PROVE Adrift'
  <2>1. UNCHANGED <<stopping, abandoned>>
    BY <1>4 DEF Publish, process
  <2>2. Dequeued(pending, pending')
    BY <1>4, PublishDequeues
  <2>3. view' = CASE pending[1].type = "Canonicalized" -> Append(view, pending[1].block)
                  [] pending[1].type = "Reverted" -> Sift(view, Block \ {pending[1].block})
                  [] OTHER -> view
    BY <1>4, <2>2 DEF Publish, Dequeued
  <2>4. RevertsHeld(view, pending')
    BY <2>2, HeldDequeued DEF Adrift
  <2>5. ASSUME NEW i \in 1..Len(pending'), pending'[i].type = "Reverted"
        PROVE  pending'[i].block \in Members(view')
    <3>1. pending'[i].block \in Members(view)
      BY <2>4, <2>5 DEF RevertsHeld
    <3>2. CASE pending[1].type = "Canonicalized"
      <4>1. view' = Append(view, pending[1].block) /\ pending[1].block \in Block
        BY <2>2, <2>3, <3>2 DEF Dequeued
      <4>2. \A n \in 1..Len(view) : n \in DOMAIN view' /\ view'[n] = view[n]
        BY <1>t, <4>1
      <4>3. DOMAIN view = 1..Len(view)
        BY <1>t
      <4> QED BY <3>1, <4>2, <4>3 DEF Members
    <3>3. CASE pending[1].type = "Reverted"
      <4>1. i + 1 \in 1..Len(pending) /\ pending'[i] = pending[i + 1] /\ i + 1 # 1
            /\ 1 \in 1..Len(pending)
        BY <2>2 DEF Dequeued
      <4>2. pending'[i].block # pending[1].block
        BY <2>5, <3>3, <4>1 DEF Adrift, RevertsHeld
      <4>3. view' = Sift(view, Block \ {pending[1].block})
        BY <2>3, <3>3
      <4> QED BY <1>t, <3>1, <4>2, <4>3, RevertKeeps
    <3>4. CASE pending[1].type \notin {"Canonicalized", "Reverted"}
      BY <2>3, <3>1, <3>4
    <3> QED BY <3>2, <3>3, <3>4
  <2> QED BY <1>1, <2>1, <2>4, <2>5 DEF Adrift, RevertsHeld
<1>5. ASSUME NEW e \in Endpoint, TickFinalize(e) PROVE FALSE
  BY <1>5 DEF TickFinalize, Adrift
<1>6. ASSUME Silent PROVE Adrift'
  BY <1>1, <1>6 DEF Silent, bus, Adrift
<1> QED BY <1>2, <1>3, <1>4, <1>5, <1>6, StepKinds

\* With nothing but announcements queued they agree already.
LEMMA OnlyAnnounced ==
    ASSUME NEW v \in Seq(Block), NEW chain \in Seq(Block), Aligned(v, chain),
           NEW p, NEW a \in Nat, Queued(p, a, 0, 0)
    PROVE  \E x, r, k \in Nat : Leads(v, p, chain, x, r, k)
<1>1. Leads(v, p, chain, a, 0, 0)
  BY FitsAligned DEF Leads
<1> QED BY <1>1

LEMMA EmptyQueue == Queued(<< >>, 0, 0, 0)
BY DEF Queued

LEMMA ViewStep == TypeInv /\ StackInv /\ ViewInv /\ [Next]_vars => ViewInv'
<1> SUFFICES ASSUME TypeInv, StackInv, ViewInv, [Next]_vars PROVE ViewInv'
  OBVIOUS
<1> SUFFICES ASSUME Led PROVE ViewInv'
  <2>1. CASE Adrift /\ ~Restart
    BY <2>1, AdriftStep DEF ViewInv
  <2>2. CASE Adrift /\ Restart
    <3>1. TypeInv'
      BY TypeStep
    <3>2. pending' = << >> /\ CanonicalIter(tree') = << >> /\ view' \in Seq(Block)
      BY <2>2, <3>1 DEF Restart, EmptyTree, CanonicalIter, TypeInv
    <3>3. Leads(view', << >>, << >>, 0, 0, 0)
      BY <3>2, EmptyQueue DEF Leads, Fits
    <3> QED BY <3>2, <3>3 DEF ViewInv, Led
  <2> QED BY <2>1, <2>2 DEF ViewInv
<1>0. TypeInv'
  BY TypeStep
<1> DEFINE chain == CanonicalIter(tree)
           next == CanonicalIter(tree')
<1>t. /\ TreeInv(tree) /\ TreeInv(tree') /\ view \in Seq(Block) /\ view' \in Seq(Block)
       /\ pending' \in Seq(Event)
  BY <1>0 DEF TypeInv
<1>c. chain \in Seq(Block) /\ next \in Seq(Block)
  BY <1>t, ChainType
<1>w. ASSUME \E a, r, k \in Nat : Leads(view', pending', next, a, r, k) PROVE ViewInv'
  BY <1>w DEF ViewInv, Led
<1>1. ASSUME AddStep PROVE ViewInv'
  <2>1. Turns(Top)
    BY <1>1, AddStepTurns
  <2> DEFINE b == Top
  <2> HIDE DEF b
  <2>2. b \in Block /\ pending = << >> /\ view' = view
    BY <2>1 DEF Turns, bus, b
  <2>3. Aligned(view, chain)
    BY <2>2, NothingOwed
  <2>4. CASE Refused(b)
    <3>1. pending' = << >> /\ next = chain
      BY <2>4 DEF Refused
    <3>2. Queued(pending', 0, 0, 0)
      BY <3>1, EmptyQueue
    <3> HIDE DEF chain, next
    <3> QED BY <1>t, <1>c, <1>w, <2>2, <2>3, <3>1, <3>2, OnlyAnnounced
  <2>5. CASE Forked(b)
    <3>1. next = chain
      BY <1>t, <2>2, <2>5, ForkChain DEF Forked
    <3>2. Queued(pending', 1, 0, 0)
      BY <2>5 DEF Forked
    <3> HIDE DEF chain, next
    <3> QED BY <1>t, <1>c, <1>w, <2>2, <2>3, <3>1, <3>2, OnlyAnnounced
  <2>6. ASSUME NEW j \in Nat, NEW k \in Nat, Adopted(b, j, k) PROVE ViewInv'
    <3> DEFINE branch == Walk(tree.nodes \cup {b}, b)
    <3>1. /\ b \notin tree.nodes /\ (tree.nodes # {} => Parent[b] \in tree.nodes)
          /\ Beats(Insert(tree, b), b)
          /\ tree' = PruneToDepth([Insert(tree, b) EXCEPT !.tip = b])
          /\ Replaces(tree, b, AddBlock(tree, b), j, k)
          /\ Announces(pending', tree, b, j, k)
      BY <2>6 DEF Adopted
    <3>2. /\ Descends(branch, tree.nodes \cup {b}, b)
          /\ \E m \in 1..Len(branch) : next = SubSeq(branch, 1, m)
      BY <1>t, <2>2, <3>1, AdoptChain
    <3>3. PICK m \in 1..Len(branch) : next = SubSeq(branch, 1, m)
      BY <3>2
    <3>4. Fits(view, pending', SubSeq(branch, 1, m), 1, j, k)
      BY <1>t, <2>2, <2>3, <3>1, <3>2, AdoptFits
    <3>5. Leads(view', pending', next, 1, j, k)
      BY <2>2, <3>1, <3>3, <3>4 DEF Leads, Announces
    <3> HIDE DEF next
    <3> QED BY <1>w, <3>5
  <2> QED BY <2>1, <2>4, <2>5, <2>6 DEF Turns, b
<1>2. ASSUME NEW e \in Endpoint, TickFinalize(e) PROVE ViewInv'
  <2>1. Finalizes(fin[e])
    BY <1>2, TickFinalizes
  <2> DEFINE new == Finalize(tree, fin[e]).newly
  <2>2. /\ fin[e] \in Block /\ pending = << >> /\ view' = view
        /\ tree' = Finalize(tree, fin[e]).tree
        /\ new \in Seq(Block) /\ pending' = FinalEvents(new)
    BY <2>1 DEF Finalizes, bus
  <2>3. Aligned(view, chain)
    BY <2>2, NothingOwed
  <2>4. PICK m \in 0..Len(chain) : next = SubSeq(chain, 1, m)
    BY <1>t, <2>2, FinalizeChain
  <2>5. Aligned(view, next)
    BY <1>t, <1>c, <2>3, <2>4, AlignedPrefix
  <2> HIDE DEF new, chain, next
  <2>6. Queued(pending', Len(new), 0, 0) /\ Len(new) \in Nat
    BY <2>2, FinalEventsShape
  <2> QED BY <1>t, <1>c, <1>w, <2>2, <2>5, <2>6, OnlyAnnounced
<1>3. ASSUME Publish PROVE ViewInv'
  <2>1. Dequeued(pending, pending')
    BY <1>3, PublishDequeues
  <2>2. PICK a, r, k \in Nat : Leads(view, pending, chain, a, r, k)
    BY DEF Led
  <2>3. Queued(pending, a, r, k) /\ Fits(view, pending, chain, a, r, k)
    BY <2>2 DEF Leads
  <2>4. next = chain
    BY <1>3 DEF Publish
  <2>5. view' = CASE pending[1].type = "Canonicalized" -> Append(view, pending[1].block)
                  [] pending[1].type = "Reverted" -> Sift(view, Block \ {pending[1].block})
                  [] OTHER -> view
    BY <1>3, <2>1 DEF Publish, Dequeued
  <2>6. CASE a # 0
    <3>1. /\ Queued(pending', a - 1, r, k) /\ Fits(view, pending', chain, a - 1, r, k)
          /\ pending[1].type \in {"Assembled", "Finalized"}
      BY <1>t, <1>c, <2>1, <2>3, <2>6, DequeueAnnouncement
    <3>2. view' = view
      BY <2>5, <3>1
    <3>3. a - 1 \in Nat
      BY <2>6
    <3>4. Leads(view', pending', next, a - 1, r, k)
      BY <2>4, <3>1, <3>2 DEF Leads
    <3> HIDE DEF next
    <3> QED BY <1>w, <3>3, <3>4
  <2>7. CASE a = 0 /\ r # 0
    <3> DEFINE w == Sift(view, Block \ {pending[1].block})
    <3>0. Queued(pending, 0, r, k) /\ Fits(view, pending, chain, 0, r, k)
      BY <2>3, <2>7
    <3>1. /\ Queued(pending', 0, r - 1, k) /\ Fits(w, pending', chain, 0, r - 1, k)
          /\ pending[1].type = "Reverted"
      BY <1>t, <1>c, <2>1, <2>7, <3>0, DequeueRevert
    <3>2. view' = w
      BY <2>5, <3>1
    <3>3. r - 1 \in Nat /\ 0 \in Nat
      BY <2>7
    <3>4. Leads(view', pending', next, 0, r - 1, k)
      BY <2>4, <3>1, <3>2 DEF Leads
    <3> HIDE DEF next
    <3> QED BY <1>w, <3>3, <3>4
  <2>8. CASE a = 0 /\ r = 0
    <3> DEFINE w == Append(view, pending[1].block)
    <3>0. Queued(pending, 0, 0, k) /\ Fits(view, pending, chain, 0, 0, k)
      BY <2>3, <2>8
    <3>k. k # 0
      BY <2>1, <3>0 DEF Queued, Dequeued
    <3>1. /\ Queued(pending', 0, 0, k - 1) /\ Fits(w, pending', chain, 0, 0, k - 1)
          /\ pending[1].type = "Canonicalized"
      BY <1>t, <1>c, <2>1, <3>k, <3>0, DequeueCanonical
    <3>2. view' = w
      BY <2>5, <3>1
    <3>3. k - 1 \in Nat /\ 0 \in Nat
      BY <3>k
    <3>4. Leads(view', pending', next, 0, 0, k - 1)
      BY <2>4, <3>1, <3>2 DEF Leads
    <3> HIDE DEF next
    <3> QED BY <1>w, <3>3, <3>4
  <2> QED BY <2>6, <2>7, <2>8
<1>6. ASSUME Abandon PROVE ViewInv'
  <2>1. Dequeued(pending, pending') /\ view' = view /\ next = chain
    BY <1>6, PublishDequeues DEF Abandon
  <2>2. PICK a, r, k \in Nat : Leads(view, pending, chain, a, r, k)
    BY DEF Led
  <2>3. CASE a # 0
    <3>1. Queued(pending', a - 1, r, k) /\ Fits(view, pending', chain, a - 1, r, k)
      BY <1>t, <1>c, <2>1, <2>2, <2>3, DequeueAnnouncement DEF Leads
    <3>2. Leads(view', pending', next, a - 1, r, k) /\ a - 1 \in Nat
      BY <2>1, <2>3, <3>1 DEF Leads
    <3> HIDE DEF next
    <3> QED BY <1>w, <3>2
  <2>4. CASE a = 0
    <3>1. RevertsHeld(view, pending)
      BY <1>t, <2>2, <2>4, FitsHeld
    <3>2. RevertsHeld(view', pending')
      BY <2>1, <3>1, HeldDequeued
    <3>3. Owed(pending)
      <4>1. Len(pending) = 0 + r + k /\ 1 \in 1..Len(pending)
        BY <2>1, <2>2, <2>4 DEF Leads, Queued, Dequeued
      <4>2. CASE r # 0
        <5>1. 1 \in 1..r /\ 0 + 1 = 1
          BY <4>2
        <5>2. pending[0 + 1].type = "Reverted"
          BY <2>2, <2>4, <5>1 DEF Leads, Queued
        <5> QED BY <4>1, <5>1, <5>2 DEF Owed
      <4>3. CASE r = 0
        <5>1. 1 \in 1..k /\ 0 + 0 + 1 = 1
          BY <4>1, <4>3
        <5>2. pending[0 + 0 + 1].type = "Canonicalized"
          BY <2>2, <2>4, <4>3, <5>1 DEF Leads, Queued
        <5> QED BY <4>1, <5>1, <5>2 DEF Owed
      <4> QED BY <4>2, <4>3
    <3>4. Extends(stack', tree')
      BY <1>6, <3>3 DEF StackInv, Abandon
    <3>5. stopping' /\ abandoned' # {}
      BY <1>6 DEF Abandon, process
    <3> QED BY <3>2, <3>4, <3>5 DEF ViewInv, Adrift
  <2> QED BY <2>3, <2>4
<1>4. ASSUME Restart PROVE ViewInv'
  <2>1. pending' = << >> /\ view' = view /\ next = << >>
    BY <1>4 DEF Restart, bus, EmptyTree, CanonicalIter
  <2>2. Aligned(view', << >>)
    BY <1>t DEF Aligned
  <2>3. Queued(pending', 0, 0, 0)
    BY <2>1, EmptyQueue
  <2> HIDE DEF next
  <2> QED BY <1>t, <1>c, <1>w, <2>1, <2>2, <2>3, OnlyAnnounced
<1>5. ASSUME Silent PROVE ViewInv'
  BY <1>5 DEF Silent, bus, ViewInv, Led
<1> QED BY <1>1, <1>2, <1>3, <1>4, <1>5, <1>6, StepKinds

LEMMA ViewInvariant == Spec => []ViewInv
<1>1. Init => ViewInv
  <2> SUFFICES ASSUME Init PROVE ViewInv
    OBVIOUS
  <2>1. pending = << >> /\ view = << >> /\ CanonicalIter(tree) = << >>
    BY DEF Init, EmptyTree, CanonicalIter
  <2>2. Leads(<< >>, << >>, << >>, 0, 0, 0)
    BY EmptyQueue DEF Leads, Fits
  <2> QED BY <2>1, <2>2 DEF ViewInv, Led
<1> QED BY <1>1, ViewStep, TypeInvariant, StackInvariant, PTL DEF Spec

\* Between two heads the chain a consumer has built ends in the tree's chain,
\* block for block, after any number of reorgs, prunes, finality ticks, lost
\* heads and restarts.
THEOREM ViewFollowsTree == Spec => []ViewMatchesTree
<1>1. TypeInv /\ ViewInv => ViewMatchesTree
  <2> SUFFICES ASSUME TypeInv, ViewInv, Idle, ~stopping PROVE
        /\ Len(CanonicalIter(tree)) <= Len(view)
        /\ \A i \in DOMAIN CanonicalIter(tree) : view[Len(view) + 1 - i] = CanonicalIter(tree)[i]
    BY DEF ViewMatchesTree
  <2>1. Aligned(view, CanonicalIter(tree))
    BY NothingOwed DEF Idle, ViewInv, Adrift
  <2>2. DOMAIN CanonicalIter(tree) = 1..Len(CanonicalIter(tree))
    BY ChainType DEF TypeInv
  <2> QED BY <2>1, <2>2 DEF Aligned
<1> QED BY <1>1, TypeInvariant, ViewInvariant, PTL

\* A BlockReverted always names a block the consumers hold as canonical, also
\* while a drain abandons some of the events of a reorg and delivers others.
THEOREM RevertsAreCanonical == Spec => RevertedWasCanonical
<1>1. ASSUME TypeInv, ViewInv, pending # << >>, Head(pending).type = "Reverted"
      PROVE  Head(pending).block \in Members(view)
  <2>a. pending \in Seq(Event) /\ Len(pending) \in Nat /\ 1 \in 1..Len(pending)
        /\ Head(pending) = pending[1]
    BY <1>1 DEF TypeInv
  <2> SUFFICES ASSUME Led PROVE Head(pending).block \in Members(view)
    BY <1>1, <2>a DEF ViewInv, Adrift, RevertsHeld
  <2>1. PICK a, r, k \in Nat : Leads(view, pending, CanonicalIter(tree), a, r, k)
    BY DEF Led
  <2>2. Queued(pending, a, r, k) /\ Fits(view, pending, CanonicalIter(tree), a, r, k)
    BY <2>1 DEF Leads
  <2>3. /\ view \in Seq(Block) /\ Len(pending) \in Nat /\ Len(pending) >= 1
        /\ Head(pending) = pending[1]
    BY <1>1 DEF TypeInv
  <2>4. a = 0
    <3> SUFFICES ASSUME a # 0 PROVE FALSE
      OBVIOUS
    <3>1. 1 \in 1..a
      OBVIOUS
    <3> QED BY <1>1, <2>2, <2>3, <3>1 DEF Queued
  <2>5. r # 0
    <3> SUFFICES ASSUME r = 0 PROVE FALSE
      OBVIOUS
    <3>1. 1 \in 1..k /\ a + r + 1 = 1
      BY <2>2, <2>3, <2>4 DEF Queued
    <3>2. pending[a + r + 1].type = "Canonicalized"
      BY <2>2, <3>1 DEF Queued
    <3> QED BY <1>1, <2>3, <3>1, <3>2
  <2>6. 1 \in 1..r /\ a + 1 = 1
    BY <2>4, <2>5
  <2>7. r <= Len(view) /\ view[Len(view) + 1 - 1] = pending[a + 1].block
    BY <2>2, <2>6 DEF Fits
  <2>8. Len(view) + 1 - 1 \in DOMAIN view
    BY <2>3, <2>5, <2>7
  <2> QED BY <2>3, <2>6, <2>7, <2>8 DEF Members
<1>2. TypeInv /\ ViewInv /\ [Next]_vars =>
         [ pending # << >> /\ pending' = Tail(pending)
             /\ Head(pending).type = "Reverted" =>
           Head(pending).block \in Members(view) ]_vars
  BY <1>1
<1> QED BY <1>2, TypeInvariant, ViewInvariant, PTL DEF Spec, RevertedWasCanonical

-----------------------------------------------------------------------------
(***************************************************************************)
(* The consumers' chain is a chain.  When the tree has pruned the block     *)
(* two branches fork from, a reorg from one to the other is published      *)
(* without the blocks below the cut; the heights still follow each other,  *)
(* and the one missing link is to a block the tree no longer holds.        *)
(***************************************************************************)
Climbs(v) == \A i \in 1..(Len(v) - 1) : Number[v[i + 1]] = Number[v[i]] + 1

Linked(v, nodes) ==
    /\ Climbs(v)
    /\ \A i \in 1..(Len(v) - 1) : Parent[v[i + 1]] \in nodes => Parent[v[i + 1]] = v[i]

Follows(c, b, nodes) ==
    Number[c] = Number[b] + 1 /\ (Parent[c] \in nodes => Parent[c] = b)

\* The blocks about to be put in place continue what the reverts leave of v.
Spliced(v, nodes, p, a, r, k) ==
    /\ \A i \in 1..(k - 1) : Parent[p[a + r + (i + 1)].block] = p[a + r + i].block
    /\ k > 0 /\ r < Len(v) => Follows(p[a + r + 1].block, v[Len(v) - r], nodes)

ChainInv ==
    restarts = 0 /\ abandoned = {} =>
        /\ Linked(view, tree.nodes)
        /\ tree.tip = NoBlock => view = << >> /\ pending = << >>
        /\ \A a, r, k \in Nat :
              Queued(pending, a, r, k) => Spliced(view, tree.nodes, pending, a, r, k)

LEMMA ParentFollows ==
    ASSUME NEW c \in Block, NEW b \in Block, Parent[c] = b, NEW nodes
    PROVE  Follows(c, b, nodes)
BY BlockAssumption DEF Follows

\* Pruning only takes demands away.
LEMMA FewerNodes ==
    ASSUME NEW nodes, NEW fewer, fewer \subseteq nodes, NEW v
    PROVE  /\ Linked(v, nodes) => Linked(v, fewer)
           /\ \A p, a, r, k : Spliced(v, nodes, p, a, r, k) => Spliced(v, fewer, p, a, r, k)
<1>1. \A c, b : Follows(c, b, nodes) => Follows(c, b, fewer)
  BY DEF Follows
<1>2. \A p, a, r, k : Spliced(v, nodes, p, a, r, k) => Spliced(v, fewer, p, a, r, k)
  BY <1>1 DEF Spliced
<1> QED BY <1>2 DEF Linked

\* A queue has one division into announcements, reverts and new blocks.
LEMMA QueuedOnce ==
    ASSUME NEW p, NEW a \in Nat, NEW r \in Nat, NEW k \in Nat, Queued(p, a, r, k),
           NEW x \in Nat, NEW y \in Nat, NEW z \in Nat, Queued(p, x, y, z)
    PROVE  x = a /\ y = r /\ z = k
<1>1. a + r + k = x + y + z
  BY DEF Queued
<1>2. ASSUME NEW c \in Nat, NEW d \in Nat, NEW e \in Nat, Queued(p, c, d, e),
             NEW f \in Nat, NEW g \in Nat, NEW h \in Nat, Queued(p, f, g, h), c < f
      PROVE  FALSE
  <2>1. c + d + e = f + g + h
    BY <1>2 DEF Queued
  <2>2. c + 1 \in 1..f
    BY <1>2
  <2>3. p[c + 1].type \in {"Assembled", "Finalized"}
    BY <1>2, <2>2 DEF Queued
  <2>4. CASE d # 0
    <3>1. 1 \in 1..d
      BY <2>4
    <3>2. p[c + 1].type = "Reverted"
      BY <1>2, <3>1 DEF Queued
    <3> QED BY <2>3, <3>2
  <2>5. CASE d = 0
    <3>1. 1 \in 1..e /\ c + d + 1 = c + 1
      BY <1>2, <2>1, <2>5
    <3>2. p[c + d + 1].type = "Canonicalized"
      BY <1>2, <3>1 DEF Queued
    <3> QED BY <2>3, <3>1, <3>2
  <2> QED BY <2>4, <2>5
<1>3. a = x
  <2>1. ~(a < x)
    BY <1>2
  <2>2. ~(x < a)
    BY <1>2
  <2> QED BY <2>1, <2>2
<1>4. ASSUME NEW c \in Nat, NEW d \in Nat, NEW e \in Nat, Queued(p, c, d, e),
             NEW g \in Nat, NEW h \in Nat, Queued(p, c, g, h), d < g
      PROVE  FALSE
  <2>1. c + d + e = c + g + h
    BY <1>4 DEF Queued
  <2>2. d + 1 \in 1..g /\ 1 \in 1..e /\ c + (d + 1) = c + d + 1
    BY <1>4, <2>1
  <2>3. p[c + (d + 1)].type = "Reverted"
    BY <1>4, <2>2 DEF Queued
  <2>4. p[c + d + 1].type = "Canonicalized"
    BY <1>4, <2>2 DEF Queued
  <2> QED BY <2>2, <2>3, <2>4
<1>5. r = y
  <2>0. Queued(p, a, y, z)
    BY <1>3
  <2>1. ~(r < y)
    BY <1>4, <2>0
  <2>2. ~(y < r)
    BY <1>4, <2>0
  <2> QED BY <2>1, <2>2
<1> QED BY <1>1, <1>3, <1>5

\* Heights climb along a linked chain, so no block occurs twice.
LEMMA LinkedHeights ==
    ASSUME NEW v \in Seq(Block), Climbs(v), Len(v) >= 1
    PROVE  /\ \A i \in 0..(Len(v) - 1) : Number[v[Len(v) - i]] = Number[v[Len(v)]] - i
           /\ \A i \in 1..(Len(v) - 1) : v[Len(v) - i] # v[Len(v)]
<1> DEFINE L == Len(v)
           A == {i \in Nat : i < L => Number[v[L - i]] = Number[v[L]] - i}
<1>1. L \in Nat /\ L >= 1 /\ \A i \in 1..L : v[i] \in Block /\ Number[v[i]] \in Nat
  BY BlockAssumption
<1>2. 0 \in A
  BY <1>1
<1>3. ASSUME NEW i \in Nat, i \in A PROVE i + 1 \in A
  <2> SUFFICES ASSUME i + 1 < L PROVE Number[v[L - (i + 1)]] = Number[v[L]] - (i + 1)
    OBVIOUS
  <2>1. /\ L - (i + 1) \in 1..(L - 1) /\ L - (i + 1) + 1 = L - i
        /\ L - i \in 1..L /\ L - (i + 1) \in 1..L
    BY <1>1
  <2>3. Number[v[L - i]] = Number[v[L]] - i
    BY <1>1, <1>3
  <2>4. v[L - i] \in Block /\ v[L - (i + 1)] \in Block /\ Number[v[L - (i + 1)]] \in Nat
    BY <1>1, <2>1
  <2>5. Number[v[L - i]] = Number[v[L - (i + 1)]] + 1
    BY <2>1 DEF Climbs
  <2>6. Number[v[L]] \in Nat
    BY <1>1
  <2> HIDE DEF L
  <2> QED BY <2>3, <2>4, <2>5, <2>6
<1>4. Nat \subseteq A
  <2> HIDE DEF A
  <2> QED BY <1>2, <1>3, Induction
<1>5. ASSUME NEW i \in 1..(L - 1), v[L - i] = v[L] PROVE FALSE
  <2>1. i \in Nat /\ i < L /\ i >= 1
    BY <1>1
  <2>2. Number[v[L - i]] = Number[v[L]] - i
    BY <1>4, <2>1
  <2>3. Number[v[L]] \in Nat
    BY <1>1
  <2> HIDE DEF L
  <2> QED BY <1>5, <2>1, <2>2, <2>3
<1>6. ASSUME NEW i \in 0..(L - 1) PROVE Number[v[L - i]] = Number[v[L]] - i
  <2>1. i \in Nat /\ i < L
    BY <1>1
  <2> QED BY <1>4, <2>1
<1> QED BY <1>5, <1>6

\* Reverting the tip of a linked chain takes off its last block.
LEMMA RevertTip ==
    ASSUME NEW v \in Seq(Block), NEW nodes, Linked(v, nodes), Len(v) >= 1
    PROVE  LET w == Sift(v, Block \ {v[Len(v)]})
           IN /\ Len(w) = Len(v) - 1 /\ \A i \in 1..Len(w) : w[i] = v[i]
              /\ Linked(w, nodes)
<1> DEFINE w == Sift(v, Block \ {v[Len(v)]})
           N == Len(v) - 1
<1>1. Len(v) \in Nat /\ N \in Nat /\ N \in 0..(Len(v) - 1)
  OBVIOUS
<1>2. \A i \in 1..N : v[Len(v) - i] # v[Len(v)]
  BY LinkedHeights DEF Linked
<1>3. /\ Len(w) \in Nat /\ Len(w) = N
      /\ \A i \in 1..N : w[Len(w) + 1 - i] = v[Len(v) - i]
  BY <1>1, <1>2, SiftSuffix
<1> HIDE DEF w
<1>4. ASSUME NEW i \in 1..N PROVE w[i] = v[i]
  <2>1. N + 1 - i \in 1..N /\ Len(w) + 1 - (N + 1 - i) = i /\ Len(v) - (N + 1 - i) = i
    BY <1>1, <1>3
  <2>2. w[Len(w) + 1 - (N + 1 - i)] = v[Len(v) - (N + 1 - i)]
    BY <1>3, <2>1
  <2> QED BY <2>1, <2>2
<1>5. Linked(w, nodes)
  <2> SUFFICES ASSUME NEW i \in 1..(Len(w) - 1)
               PROVE  /\ Number[w[i + 1]] = Number[w[i]] + 1
                      /\ Parent[w[i + 1]] \in nodes => Parent[w[i + 1]] = w[i]
    BY DEF Linked, Climbs
  <2>1. i \in 1..N /\ i + 1 \in 1..N /\ i \in 1..(Len(v) - 1)
    BY <1>1, <1>3
  <2>2. w[i] = v[i] /\ w[i + 1] = v[i + 1]
    BY <1>4, <2>1
  <2> QED BY <2>1, <2>2 DEF Linked, Climbs
<1> QED BY <1>3, <1>4, <1>5 DEF w

LEMMA SpliceAnnouncement ==
    ASSUME NEW p, NEW q \in Seq(Event), Dequeued(p, q), NEW v \in Seq(Block), NEW nodes,
           NEW a \in Nat, NEW r \in Nat, NEW k \in Nat,
           Queued(p, a, r, k), Spliced(v, nodes, p, a, r, k), a # 0
    PROVE  Spliced(v, nodes, q, a - 1, r, k)
<1>1. a - 1 \in Nat /\ Len(q) = (a - 1) + r + k /\ \A i \in 1..Len(q) : q[i] = p[i + 1]
  BY DEF Dequeued, Queued
<1>2. ASSUME NEW i \in 1..k PROVE q[(a - 1) + r + i] = p[a + r + i]
  <2>1. (a - 1) + r + i \in 1..Len(q) /\ (a - 1) + r + i + 1 = a + r + i
    BY <1>1
  <2> QED BY <1>1, <2>1
<1>3. ASSUME NEW i \in 1..(k - 1)
      PROVE  Parent[q[(a - 1) + r + (i + 1)].block] = q[(a - 1) + r + i].block
  <2>1. i \in 1..k /\ i + 1 \in 1..k
    OBVIOUS
  <2> QED BY <1>2, <2>1 DEF Spliced
<1>4. ASSUME k > 0, r < Len(v)
      PROVE  Follows(q[(a - 1) + r + 1].block, v[Len(v) - r], nodes)
  <2>1. 1 \in 1..k
    BY <1>4
  <2> QED BY <1>2, <1>4, <2>1 DEF Spliced
<1> QED BY <1>3, <1>4 DEF Spliced

LEMMA SpliceRevert ==
    ASSUME NEW p, NEW q \in Seq(Event), Dequeued(p, q), NEW v \in Seq(Block), NEW nodes,
           Linked(v, nodes), NEW r \in Nat, NEW k \in Nat, Len(v) >= 1,
           v[Len(v)] = p[1].block,
           Queued(p, 0, r, k), Spliced(v, nodes, p, 0, r, k), r # 0
    PROVE  LET w == Sift(v, Block \ {p[1].block})
           IN Linked(w, nodes) /\ Spliced(w, nodes, q, 0, r - 1, k)
<1> DEFINE w == Sift(v, Block \ {p[1].block})
<1>1. /\ r - 1 \in Nat /\ Len(q) = (r - 1) + k /\ \A i \in 1..Len(q) : q[i] = p[i + 1]
      /\ Len(v) \in Nat
  BY DEF Dequeued, Queued
<1>2. /\ Len(w) = Len(v) - 1 /\ \A i \in 1..Len(w) : w[i] = v[i]
      /\ Linked(w, nodes)
  BY RevertTip
<1> HIDE DEF w
<1>3. ASSUME NEW i \in 1..k PROVE q[0 + (r - 1) + i] = p[0 + r + i]
  <2>1. 0 + (r - 1) + i \in 1..Len(q) /\ 0 + (r - 1) + i + 1 = 0 + r + i
    BY <1>1
  <2> QED BY <1>1, <2>1
<1>4. ASSUME NEW i \in 1..(k - 1)
      PROVE  Parent[q[0 + (r - 1) + (i + 1)].block] = q[0 + (r - 1) + i].block
  <2>1. i \in 1..k /\ i + 1 \in 1..k
    OBVIOUS
  <2> QED BY <1>3, <2>1 DEF Spliced
<1>5. ASSUME k > 0, r - 1 < Len(w)
      PROVE  Follows(q[0 + (r - 1) + 1].block, w[Len(w) - (r - 1)], nodes)
  <2>1. 1 \in 1..k /\ r < Len(v) /\ Len(w) - (r - 1) = Len(v) - r /\ Len(v) - r \in 1..Len(w)
    BY <1>1, <1>2, <1>5
  <2>2. Follows(p[0 + r + 1].block, v[Len(v) - r], nodes)
    BY <1>5, <2>1 DEF Spliced
  <2> QED BY <1>2, <1>3, <2>1, <2>2
<1>6. Spliced(w, nodes, q, 0, r - 1, k)
  BY <1>4, <1>5 DEF Spliced
<1> QED BY <1>2, <1>6 DEF w

LEMMA SpliceCanonical ==
    ASSUME NEW p, NEW q \in Seq(Event), Dequeued(p, q), NEW v \in Seq(Block), NEW nodes,
           Linked(v, nodes), NEW k \in Nat, Queued(p, 0, 0, k),
           Spliced(v, nodes, p, 0, 0, k), k # 0
    PROVE  LET w == Append(v, p[1].block)
           IN Linked(w, nodes) /\ Spliced(w, nodes, q, 0, 0, k - 1)
<1> DEFINE w == Append(v, p[1].block)
<1>1. /\ k - 1 \in Nat /\ Len(q) = k - 1 /\ \A i \in 1..Len(q) : q[i] = p[i + 1]
      /\ Len(v) \in Nat /\ p[1].block \in Block
  BY DEF Dequeued, Queued
<1>2. /\ Len(w) = Len(v) + 1 /\ w[Len(v) + 1] = p[1].block
      /\ \A i \in 1..Len(v) : w[i] = v[i]
  BY <1>1
<1> HIDE DEF w
<1>3. /\ \A i \in 1..(k - 1) : Parent[p[i + 1].block] = p[i].block
      /\ Len(v) > 0 => Follows(p[1].block, v[Len(v)], nodes)
  <2>1. /\ \A i \in 1..(k - 1) : 0 + 0 + (i + 1) = i + 1 /\ 0 + 0 + i = i
        /\ 0 + 0 + 1 = 1 /\ Len(v) - 0 = Len(v) /\ k > 0
    BY <1>1
  <2> QED BY <2>1 DEF Spliced
<1>4. Linked(w, nodes)
  <2> SUFFICES ASSUME NEW i \in 1..(Len(w) - 1) PROVE Follows(w[i + 1], w[i], nodes)
    BY DEF Linked, Climbs, Follows
  <2>1. CASE i = Len(v)
    <3>1. i \in 1..Len(v) /\ Len(v) > 0
      BY <1>1, <1>2, <2>1
    <3> QED BY <1>2, <1>3, <2>1, <3>1
  <2>2. CASE i # Len(v)
    <3>1. i \in 1..Len(v) /\ i + 1 \in 1..Len(v) /\ i \in 1..(Len(v) - 1)
      BY <1>1, <1>2, <2>2
    <3>2. Follows(v[i + 1], v[i], nodes)
      BY <3>1 DEF Linked, Climbs, Follows
    <3> QED BY <1>2, <3>1, <3>2
  <2> QED BY <2>1, <2>2
<1>5. ASSUME NEW i \in 1..((k - 1) - 1)
      PROVE  Parent[q[0 + 0 + (i + 1)].block] = q[0 + 0 + i].block
  <2>1. /\ i \in 1..Len(q) /\ i + 1 \in 1..Len(q) /\ i + 1 \in 1..(k - 1)
        /\ 0 + 0 + (i + 1) = i + 1 /\ 0 + 0 + i = i
    BY <1>1
  <2>2. q[i] = p[i + 1] /\ q[i + 1] = p[(i + 1) + 1]
    BY <1>1, <2>1
  <2>3. Parent[p[(i + 1) + 1].block] = p[i + 1].block
    BY <1>3, <2>1
  <2> QED BY <2>1, <2>2, <2>3
<1>6. ASSUME k - 1 > 0 PROVE Follows(q[0 + 0 + 1].block, w[Len(w) - 0], nodes)
  <2>1. 1 \in 1..Len(q) /\ 1 \in 1..(k - 1) /\ 0 + 0 + 1 = 1 /\ Len(w) - 0 = Len(v) + 1
    BY <1>1, <1>2, <1>6
  <2>2. q[1] = p[1 + 1] /\ Parent[p[1 + 1].block] = p[1].block
    BY <1>1, <1>3, <2>1
  <2>3. q[1].block \in Block
    <3>1. q[1] \in Event
      BY <2>1
    <3> QED BY <3>1 DEF Event
  <2>4. Parent[q[1].block] = p[1].block
    BY <2>2
  <2>5. Follows(q[1].block, p[1].block, nodes)
    BY <1>1, <2>3, <2>4, ParentFollows
  <2> QED BY <1>2, <2>1, <2>5
<1>7. Spliced(w, nodes, q, 0, 0, k - 1)
  BY <1>5, <1>6 DEF Spliced
<1> QED BY <1>4, <1>7 DEF w

\* The new branch is linked, in the order it is published.
InOrder(p, t, b, j, k) ==
    /\ \A i \in 1..(k - 1) : Parent[p[1 + j + (i + 1)].block] = p[1 + j + i].block
    /\ p[1 + j + 1].block = Walk(t.nodes \cup {b}, b)[k]

LEMMA BranchLinked ==
    ASSUME NEW t, TreeInv(t), NEW b \in Block, NEW up, NEW j \in Nat, NEW k \in Nat,
           Replaces(t, b, up, j, k), NEW p, Announces(p, t, b, j, k),
           Descends(Walk(t.nodes \cup {b}, b), t.nodes \cup {b}, b)
    PROVE  InOrder(p, t, b, j, k)
<1> DEFINE branch == Walk(t.nodes \cup {b}, b)
<1>1. /\ branch \in Seq(Block) /\ Len(branch) \in Nat
      /\ \A i \in 1..(Len(branch) - 1) : Parent[branch[i]] = branch[i + 1]
  BY DEF Descends
<1>2. k \in 1..Len(branch)
  BY DEF Replaces
<1>3. \A i \in 1..k : p[1 + j + i].block = branch[k + 1 - i]
  BY DEF Announces
<1> HIDE DEF branch
<1>4. ASSUME NEW i \in 1..(k - 1) PROVE Parent[p[1 + j + (i + 1)].block] = p[1 + j + i].block
  <2>1. /\ i \in 1..k /\ i + 1 \in 1..k /\ k + 1 - (i + 1) \in 1..(Len(branch) - 1)
        /\ k + 1 - (i + 1) + 1 = k + 1 - i
    BY <1>1, <1>2
  <2>2. Parent[branch[k + 1 - (i + 1)]] = branch[k + 1 - (i + 1) + 1]
    BY <1>1, <2>1
  <2> QED BY <1>3, <2>1, <2>2
<1>5. p[1 + j + 1].block = branch[k]
  <2>1. 1 \in 1..k /\ k + 1 - 1 = k
    BY <1>2
  <2>2. p[1 + j + 1].block = branch[k + 1 - 1]
    BY <1>3, <2>1
  <2> QED BY <2>1, <2>2
<1> QED BY <1>4, <1>5 DEF InOrder, branch

\* The events of a reorg continue the consumers' chain: from the fork point if
\* the tree still holds it, else at the height of the lowest block it reverts.
LEMMA AdoptSplices ==
    ASSUME NEW t, TreeInv(t), t.tip # NoBlock, NEW b \in Block, NEW up,
           NEW j \in Nat, NEW k \in Nat,
           Replaces(t, b, up, j, k), NEW p, Announces(p, t, b, j, k),
           Descends(Walk(t.nodes \cup {b}, b), t.nodes \cup {b}, b),
           NEW v \in Seq(Block), Climbs(v), Aligned(v, CanonicalIter(t))
    PROVE  Spliced(v, t.nodes \cup {b}, p, 1, j, k)
<1> DEFINE nodes == t.nodes \cup {b}
           branch == Walk(nodes, b)
           chain == CanonicalIter(t)
<1>1. /\ chain \in Seq(Block) /\ Len(chain) \in Nat /\ Len(chain) >= 1
      /\ chain[1] = t.tip /\ t.tip \in Block
  BY ChainIsWalk DEF Descends
<1>2. /\ branch \in Seq(Block) /\ Len(branch) \in Nat
      /\ \A i \in 1..(Len(branch) - 1) : Parent[branch[i]] = branch[i + 1]
      /\ \A i \in 1..Len(branch) : branch[i] \in Block /\ Number[branch[i]] = Number[b] - (i - 1)
      /\ Parent[branch[Len(branch)]] \notin nodes
  BY DEF Descends
<1>3. /\ j \in 0..Len(chain) /\ k \in 1..Len(branch)
      /\ Number[t.tip] - j = Number[b] - k
      /\ up.rejoins => j < Len(chain)
      /\ up.rejoins => /\ Len(chain) - j = Len(branch) - k
                       /\ \A i \in 1..(Len(chain) - j) : chain[j + i] = branch[k + i]
      /\ ~up.rejoins => j = Len(chain) /\ k = Len(branch)
  BY DEF Replaces
<1>4. /\ \A i \in 1..(k - 1) : Parent[p[1 + j + (i + 1)].block] = p[1 + j + i].block
      /\ p[1 + j + 1].block = branch[k]
  <2>1. InOrder(p, t, b, j, k)
    BY BranchLinked
  <2> QED BY <2>1 DEF InOrder
<1>5. /\ Len(v) \in Nat /\ Len(chain) <= Len(v)
      /\ \A i \in 1..Len(chain) : v[Len(v) + 1 - i] = chain[i]
  BY DEF Aligned
<1> HIDE DEF branch, chain, nodes
<1>6. ASSUME j < Len(v) PROVE Follows(branch[k], v[Len(v) - j], nodes)
  <2>1. CASE up.rejoins
    <3>1. 1 \in 1..(Len(chain) - j) /\ k \in 1..(Len(branch) - 1) /\ j + 1 \in 1..Len(chain)
      BY <1>1, <1>2, <1>3, <2>1
    <3>2. chain[j + 1] = branch[k + 1]
      BY <1>3, <2>1, <3>1
    <3>3. Parent[branch[k]] = chain[j + 1]
      BY <1>2, <3>1, <3>2
    <3>4. v[Len(v) + 1 - (j + 1)] = chain[j + 1] /\ Len(v) + 1 - (j + 1) = Len(v) - j
      BY <1>5, <3>1
    <3>5. branch[k] \in Block /\ chain[j + 1] \in Block
      BY <1>1, <1>2, <1>3, <3>1
    <3> QED BY <3>3, <3>4, <3>5, ParentFollows
  <2>2. CASE ~up.rejoins
    <3>1. j = Len(chain) /\ k = Len(branch) /\ k \in 1..Len(branch)
      BY <1>3, <2>2
    <3>2. Parent[branch[k]] \notin nodes
      BY <1>2, <3>1
    <3>3. Number[branch[k]] = Number[b] - (k - 1)
      BY <1>2, <3>1
    <3>4. v[Len(v)] = t.tip
      <4>1. 1 \in 1..Len(chain) /\ Len(v) + 1 - 1 = Len(v)
        BY <1>1, <1>5
      <4>2. v[Len(v) + 1 - 1] = chain[1]
        BY <1>5, <4>1
      <4> QED BY <1>1, <4>1, <4>2
    <3>5. Number[v[Len(v) - j]] = Number[v[Len(v)]] - j
      <4>1. j \in 0..(Len(v) - 1) /\ Len(v) >= 1
        BY <1>5, <1>6
      <4> QED BY <4>1, LinkedHeights
    <3>6. Number[v[Len(v) - j]] = Number[t.tip] - j
      BY <3>4, <3>5
    <3>7. Number[b] \in Nat /\ Number[t.tip] \in Nat
      BY <1>1, BlockAssumption
    <3>8. \A x, y \in Nat : y - j = x - k => x - (k - 1) = (y - j) + 1
      BY <3>1
    <3>9. Number[branch[k]] = Number[v[Len(v) - j]] + 1
      BY <1>3, <3>3, <3>6, <3>7, <3>8
    <3> QED BY <3>2, <3>9 DEF Follows
  <2> QED BY <2>1, <2>2
<1> QED BY <1>4, <1>6 DEF Spliced, nodes

\* The first block of all starts the consumers' chain.
LEMMA FirstSplices ==
    ASSUME NEW t, TreeInv(t), NEW b \in Block, NEW up, NEW j \in Nat, NEW k \in Nat,
           Replaces(t, b, up, j, k), NEW p, Announces(p, t, b, j, k),
           Descends(Walk(t.nodes \cup {b}, b), t.nodes \cup {b}, b)
    PROVE  Spliced(<< >>, t.nodes \cup {b}, p, 1, j, k)
<1>1. \A i \in 1..(k - 1) : Parent[p[1 + j + (i + 1)].block] = p[1 + j + i].block
  <2>1. InOrder(p, t, b, j, k)
    BY BranchLinked
  <2> QED BY <2>1 DEF InOrder
<1>2. ~(j < Len(<< >>))
  OBVIOUS
<1> QED BY <1>1, <1>2 DEF Spliced

\* A block that enters the tree is no parent in the consumers' chain: above
\* the tree's root the parents are held already, and below it the block would
\* have to hang under the lowest blocks of all.
LEMMA InsertLinked ==
    ASSUME NEW t, TreeInv(t), t.tip # NoBlock, NEW b \in Block, b \notin t.nodes,
           Parent[b] \in t.nodes,
           NEW v \in Seq(Block), Linked(v, t.nodes), Aligned(v, CanonicalIter(t))
    PROVE  Linked(v, t.nodes \cup {b})
<1> DEFINE chain == CanonicalIter(t)
<1>1. /\ Len(chain) \in Nat /\ Len(chain) >= 1
      /\ \A i \in 1..Len(chain) : chain[i] \in t.nodes /\ chain[i] \in Block
                                  /\ Number[chain[i]] = Number[t.tip] - (i - 1)
      /\ \A i \in 1..(Len(chain) - 1) : Parent[chain[i]] = chain[i + 1]
      /\ Parent[chain[Len(chain)]] \notin t.nodes
      /\ chain[1] = t.tip /\ t.tip \in Block
  BY ChainIsWalk DEF Descends
<1>2. /\ Len(v) \in Nat /\ Len(chain) <= Len(v)
      /\ \A i \in 1..Len(chain) : v[Len(v) + 1 - i] = chain[i]
  BY DEF Aligned
<1>3. /\ Parent[b] \in Block /\ Number[b] = Number[Parent[b]] + 1
      /\ Number[Parent[b]] \in Nat /\ Number[t.tip] \in Nat
  BY <1>1, BlockAssumption DEF TreeInv, Tree
<1>4. Number[chain[Len(chain)]] <= Number[Parent[b]]
  <2>1. Len(chain) \in 1..Len(chain)
    BY <1>1
  <2> QED BY <1>1, <2>1 DEF TreeInv, RootsLowest
<1> HIDE DEF chain
<1>5. ASSUME NEW i \in 1..(Len(v) - 1), Parent[v[i + 1]] = b PROVE FALSE
  <2> DEFINE m == Len(v) - i
  <2>1. m \in 1..(Len(v) - 1) /\ Len(v) + 1 - m = i + 1 /\ i + 1 \in 1..Len(v)
    BY <1>2
  <2>2. CASE m < Len(chain)
    <3>1. m \in 1..Len(chain) /\ m \in 1..(Len(chain) - 1) /\ m + 1 \in 1..Len(chain)
      BY <1>1, <2>1, <2>2
    <3>2. v[i + 1] = chain[m]
      BY <1>2, <2>1, <3>1
    <3>3. b = chain[m + 1]
      BY <1>1, <1>5, <3>1, <3>2
    <3> QED BY <1>1, <3>1, <3>3
  <2>3. CASE m >= Len(chain)
    <3>1. v[i + 1] \in Block /\ Number[v[i + 1]] = Number[b] + 1
      <4>1. v[i + 1] \in Block
        BY <2>1
      <4> QED BY <1>5, <4>1, BlockAssumption
    <3>2. m - 1 \in 0..(Len(v) - 1) /\ Len(v) - (m - 1) = i + 1 /\ Len(v) >= 1
      BY <1>2, <2>1
    <3>3. Number[v[i + 1]] = Number[v[Len(v)]] - (m - 1)
      <4>1. Number[v[Len(v) - (m - 1)]] = Number[v[Len(v)]] - (m - 1)
        <5> HIDE DEF m
        <5> QED BY <3>2, LinkedHeights DEF Linked
      <4> QED BY <3>2, <4>1
    <3>4. v[Len(v)] = t.tip
      <4>1. 1 \in 1..Len(chain) /\ Len(v) + 1 - 1 = Len(v)
        BY <1>1, <1>2
      <4>2. v[Len(v) + 1 - 1] = chain[1]
        BY <1>2, <4>1
      <4> QED BY <1>1, <4>1, <4>2
    <3>5. Number[chain[Len(chain)]] = Number[t.tip] - (Len(chain) - 1)
      <4>1. Len(chain) \in 1..Len(chain)
        BY <1>1
      <4> QED BY <1>1, <4>1
    <3>6. Number[v[i + 1]] = Number[t.tip] - (m - 1)
      BY <3>3, <3>4
    <3>7. m \in Nat
      BY <2>1
    <3> HIDE DEF m
    <3>8. \A x, y, z \in Nat : ~(/\ x - (Len(chain) - 1) <= y
                                /\ z = (y + 1) + 1 /\ z = x - (m - 1))
      BY <1>1, <2>3, <3>7
    <3>9. Number[v[i + 1]] \in Nat
      BY <3>1, BlockAssumption
    <3> QED BY <1>3, <1>4, <3>1, <3>5, <3>6, <3>8, <3>9
  <2>4. Len(chain) \in Nat /\ m \in Int
    BY <1>1, <2>1
  <2> HIDE DEF m
  <2> QED BY <2>2, <2>3, <2>4
<1> QED BY <1>5 DEF Linked

LEMMA ChainStep == TypeInv /\ ViewInv /\ ChainInv /\ [Next]_vars => ChainInv'
<1> SUFFICES ASSUME TypeInv, ViewInv, ChainInv, [Next]_vars, restarts' = 0, abandoned' = {}
             PROVE  ChainInv'
  BY DEF ChainInv
<1>0. TypeInv'
  BY TypeStep
<1> DEFINE chain == CanonicalIter(tree)
<1>t. /\ TreeInv(tree) /\ TreeInv(tree') /\ view \in Seq(Block)
      /\ pending \in Seq(Event) /\ pending' \in Seq(Event)
  BY <1>0 DEF TypeInv
<1>q. ASSUME NEW a \in Nat, NEW r \in Nat, NEW k \in Nat,
             Queued(pending', a, r, k), Spliced(view', tree'.nodes, pending', a, r, k),
             Linked(view', tree'.nodes),
             tree'.tip = NoBlock => view' = << >> /\ pending' = << >>
      PROVE  ChainInv'
  <2>1. ASSUME NEW x \in Nat, NEW y \in Nat, NEW z \in Nat, Queued(pending', x, y, z)
        PROVE  Spliced(view', tree'.nodes, pending', x, y, z)
    <3>1. x = a /\ y = r /\ z = k
      BY <1>q, <2>1, QueuedOnce
    <3> QED BY <1>q, <3>1
  <2> QED BY <1>q, <2>1 DEF ChainInv
<1>s. ASSUME NEW v, NEW nodes, NEW p, NEW a PROVE Spliced(v, nodes, p, a, 0, 0)
  BY DEF Spliced
<1>1. ASSUME AddStep PROVE ChainInv'
  <2>1. Turns(Top)
    BY <1>1, AddStepTurns
  <2> DEFINE b == Top
  <2>2. b \in Block /\ pending = << >> /\ view' = view /\ restarts = 0 /\ abandoned = {}
    BY <2>1 DEF Turns, bus, process
  <2>3. Linked(view, tree.nodes) /\ (tree.tip = NoBlock => view' = << >>)
    BY <2>2 DEF ChainInv
  <2>a. Aligned(view, chain)
    BY <2>2, NothingOwed DEF ViewInv, Adrift
  <2>i. ASSUME b \notin tree.nodes, tree.nodes # {} => Parent[b] \in tree.nodes
        PROVE  Linked(view, tree.nodes \cup {b})
    <3>1. CASE tree.tip = NoBlock
      <4>1. view = << >>
        BY <2>2, <2>3, <3>1
      <4> QED BY <4>1 DEF Linked, Climbs
    <3>2. CASE tree.tip # NoBlock
      <4>1. Parent[b] \in tree.nodes
        BY <1>t, <2>i, <3>2 DEF TreeInv
      <4> HIDE DEF b
      <4> QED BY <1>t, <2>2, <2>3, <2>a, <2>i, <3>2, <4>1, InsertLinked
    <3> QED BY <3>1, <3>2
  <2>4. CASE Refused(b)
    <3>1. pending' = << >> /\ tree' = tree
      BY <2>4 DEF Refused
    <3>2. Queued(pending', 0, 0, 0)
      BY <3>1, EmptyQueue
    <3>3. Spliced(view', tree'.nodes, pending', 0, 0, 0)
      BY <1>s
    <3> QED BY <1>q, <2>2, <2>3, <3>1, <3>2, <3>3
  <2>5. CASE Forked(b)
    <3>0. b \notin tree.nodes /\ (tree.nodes # {} => Parent[b] \in tree.nodes)
      BY <2>5 DEF Forked
    <3>1. Queued(pending', 1, 0, 0)
      BY <2>5 DEF Forked
    <3>2. tree'.tip # NoBlock
      <4>1. ~Beats(tree', b)
        BY <2>5 DEF Forked
      <4> QED BY <4>1 DEF Beats
    <3>3. tree'.nodes = tree.nodes \cup {b}
      BY <1>t, <2>2, <2>5, <3>0, InsertFields DEF Forked
    <3>4. Linked(view', tree'.nodes)
      BY <2>2, <2>i, <3>0, <3>3
    <3>5. Spliced(view', tree'.nodes, pending', 1, 0, 0)
      BY <1>s
    <3> QED BY <1>q, <3>1, <3>2, <3>4, <3>5
  <2>6. ASSUME NEW j \in Nat, NEW k \in Nat, Adopted(b, j, k) PROVE ChainInv'
    <3> DEFINE nodes == tree.nodes \cup {b}
    <3>1. /\ b \notin tree.nodes /\ (tree.nodes # {} => Parent[b] \in tree.nodes)
          /\ Beats(Insert(tree, b), b)
          /\ tree' = PruneToDepth([Insert(tree, b) EXCEPT !.tip = b])
          /\ Replaces(tree, b, AddBlock(tree, b), j, k)
          /\ Announces(pending', tree, b, j, k)
      BY <2>6 DEF Adopted
    <3>2. Descends(Walk(tree.nodes \cup {b}, b), tree.nodes \cup {b}, b)
      BY <1>t, <2>2, <3>1, AdoptChain
    <3>3. Spliced(view, nodes, pending', 1, j, k)
      <4>1. CASE tree.tip = NoBlock
        <5>1. Spliced(<< >>, nodes, pending', 1, j, k)
          BY <1>t, <2>2, <3>1, <3>2, FirstSplices
        <5> QED BY <2>2, <2>3, <4>1, <5>1
      <4>2. CASE tree.tip # NoBlock
        <5>1. Climbs(view)
          BY <2>3 DEF Linked
        <5> HIDE DEF b
        <5> QED BY <1>t, <2>2, <2>a, <3>1, <3>2, <4>2, <5>1, AdoptSplices
      <4> QED BY <4>1, <4>2
    <3>4. Queued(pending', 1, j, k)
      BY <3>1 DEF Announces
    <3>5. tree'.tip # NoBlock
      <4>1. tree'.tip = b
        BY <1>t, <2>2, <3>1, NewTip
      <4> QED BY <2>2, <4>1, BlockAssumption
    <3>6. tree'.nodes \subseteq nodes
      <4> DEFINE i == [Insert(tree, b) EXCEPT !.tip = b]
      <4>0. Insert(tree, b) \in Tree /\ Insert(tree, b).nodes = nodes
        BY <1>t, <2>2, <3>1, InsertFields
      <4>1. i \in Tree /\ i.nodes = nodes
        BY <2>2, <4>0 DEF Tree
      <4>2. tree' = PruneToDepth(i)
        BY <3>1
      <4> HIDE DEF i, b, nodes
      <4>3. PruneToDepth(i).nodes \subseteq i.nodes
        BY <4>1 DEF PruneToDepth, PruneBelow, Tree
      <4> QED BY <4>1, <4>2, <4>3
    <3>7. Linked(view, nodes)
      BY <2>i, <3>1
    <3> HIDE DEF nodes
    <3>8. Linked(view', tree'.nodes) /\ Spliced(view', tree'.nodes, pending', 1, j, k)
      BY <2>2, <3>3, <3>6, <3>7, FewerNodes
    <3> QED BY <1>q, <3>4, <3>5, <3>8
  <2> QED BY <2>1, <2>4, <2>5, <2>6 DEF Turns
<1>2. ASSUME NEW e \in Endpoint, TickFinalize(e) PROVE ChainInv'
  <2>1. Finalizes(fin[e])
    BY <1>2, TickFinalizes
  <2> DEFINE new == Finalize(tree, fin[e]).newly
  <2>2. /\ fin[e] \in Block /\ view' = view /\ restarts = 0 /\ abandoned = {}
        /\ tree' = Finalize(tree, fin[e]).tree
        /\ new \in Seq(Block) /\ pending' = FinalEvents(new)
    BY <2>1 DEF Finalizes, bus, process
  <2>3. Queued(pending', Len(new), 0, 0) /\ Len(new) \in Nat
    BY <2>2, FinalEventsShape
  <2>4. tree'.tip = tree.tip /\ tree'.nodes \subseteq tree.nodes
    BY <1>t, <2>2 DEF Finalize, PruneBelow, TreeInv, Tree
  <2>5. ASSUME tree.tip = NoBlock PROVE view' = << >> /\ pending' = << >>
    <3>1. chain = << >> /\ Canonical(tree) = {}
      BY <2>5 DEF CanonicalIter, Canonical
    <3>2. \A i \in 1..Len(new) : new[i] \in Canonical(tree)
      BY <1>t, <2>2, NewlyFinal
    <3>3. Len(new) = 0
      <4> HIDE DEF new
      <4> QED BY <2>3, <3>1, <3>2
    <3>4. Len(pending') = 0
      BY <2>3, <3>3 DEF Queued
    <3> QED BY <1>t, <2>2, <2>5, <3>4 DEF ChainInv
  <2>6. Linked(view, tree.nodes)
    BY <2>2 DEF ChainInv
  <2>7. Linked(view', tree'.nodes)
    BY <2>2, <2>4, <2>6, FewerNodes
  <2>8. Spliced(view', tree'.nodes, pending', Len(new), 0, 0)
    BY <1>s
  <2> HIDE DEF new
  <2> QED BY <1>q, <2>3, <2>4, <2>5, <2>7, <2>8
<1>3. ASSUME Publish PROVE ChainInv'
  <2>1. Dequeued(pending, pending')
    BY <1>3, PublishDequeues
  <2>4. restarts = 0 /\ abandoned = {} /\ tree' = tree
    BY <1>3 DEF Publish, process
  <2>2. PICK a, r, k \in Nat : Leads(view, pending, chain, a, r, k)
    BY <2>4 DEF ViewInv, Led, Adrift
  <2>3. Queued(pending, a, r, k) /\ Fits(view, pending, chain, a, r, k)
    BY <2>2 DEF Leads
  <2>5. view' = CASE pending[1].type = "Canonicalized" -> Append(view, pending[1].block)
                  [] pending[1].type = "Reverted" -> Sift(view, Block \ {pending[1].block})
                  [] OTHER -> view
    BY <1>3, <2>1 DEF Publish, Dequeued
  <2> DEFINE nodes == tree.nodes
  <2>6. Linked(view, nodes) /\ Spliced(view, nodes, pending, a, r, k)
    BY <2>3, <2>4 DEF ChainInv
  <2>7. tree'.tip # NoBlock
    BY <1>3, <2>4 DEF ChainInv, Publish
  <2>c. chain \in Seq(Block)
    BY <1>t, ChainType
  <2>n. tree'.nodes = nodes
    BY <2>4
  <2> HIDE DEF nodes
  <2>8. CASE a # 0
    <3>1. Queued(pending', a - 1, r, k) /\ pending[1].type \in {"Assembled", "Finalized"}
      BY <1>t, <2>1, <2>3, <2>8, <2>c, DequeueAnnouncement
    <3>2. view' = view
      BY <2>5, <3>1
    <3>3. Spliced(view, nodes, pending', a - 1, r, k) /\ a - 1 \in Nat
      BY <1>t, <2>1, <2>3, <2>6, <2>8, SpliceAnnouncement
    <3>4. Spliced(view', tree'.nodes, pending', a - 1, r, k) /\ Linked(view', tree'.nodes)
      BY <2>6, <2>n, <3>2, <3>3
    <3> QED BY <1>q, <2>7, <3>1, <3>3, <3>4
  <2>9. CASE a = 0 /\ r # 0
    <3> DEFINE w == Sift(view, Block \ {pending[1].block})
    <3>0. /\ Queued(pending, 0, r, k) /\ Fits(view, pending, chain, 0, r, k)
          /\ Spliced(view, nodes, pending, 0, r, k)
      BY <2>3, <2>6, <2>9
    <3>1. /\ Queued(pending', 0, r - 1, k) /\ pending[1].type = "Reverted"
          /\ Len(view) >= 1 /\ view[Len(view)] = pending[1].block
      BY <1>t, <2>1, <2>9, <2>c, <3>0, DequeueRevert
    <3>2. view' = w
      BY <2>5, <3>1
    <3>3. Linked(w, nodes) /\ Spliced(w, nodes, pending', 0, r - 1, k)
      BY <1>t, <2>1, <2>6, <2>9, <3>0, <3>1, SpliceRevert
    <3>4. r - 1 \in Nat
      BY <2>9
    <3>5. Linked(view', tree'.nodes) /\ Spliced(view', tree'.nodes, pending', 0, r - 1, k)
      BY <2>n, <3>2, <3>3
    <3> QED BY <1>q, <2>7, <3>1, <3>4, <3>5
  <2>10. CASE a = 0 /\ r = 0
    <3> DEFINE w == Append(view, pending[1].block)
    <3>0. /\ Queued(pending, 0, 0, k) /\ Fits(view, pending, chain, 0, 0, k)
          /\ Spliced(view, nodes, pending, 0, 0, k)
      BY <2>3, <2>6, <2>10
    <3>k. k # 0
      BY <2>1, <3>0 DEF Queued, Dequeued
    <3>1. Queued(pending', 0, 0, k - 1) /\ pending[1].type = "Canonicalized"
      BY <1>t, <2>1, <2>c, <3>k, <3>0, DequeueCanonical
    <3>2. view' = w
      BY <2>5, <3>1
    <3>3. Linked(w, nodes) /\ Spliced(w, nodes, pending', 0, 0, k - 1)
      BY <1>t, <2>1, <2>6, <3>k, <3>0, SpliceCanonical
    <3>4. k - 1 \in Nat
      BY <3>k
    <3>5. Linked(view', tree'.nodes) /\ Spliced(view', tree'.nodes, pending', 0, 0, k - 1)
      BY <2>n, <3>2, <3>3
    <3> QED BY <1>q, <2>7, <3>1, <3>4, <3>5
  <2> QED BY <2>8, <2>9, <2>10
<1>4. ASSUME Restart PROVE ChainInv'
  BY <1>4 DEF Restart, TypeInv
<1>5. ASSUME Silent PROVE ChainInv'
  BY <1>5 DEF Silent, bus, ChainInv
<1>6. ASSUME Abandon PROVE FALSE
  BY <1>6 DEF Abandon
<1> QED BY <1>1, <1>2, <1>3, <1>4, <1>5, <1>6, StepKinds

\* The chain a consumer has built is a chain at every moment of one process's
\* life, also between the events of one reorg and however deep that reorg
\* reaches: no height is missing or doubled, and each block follows its own
\* parent unless the tree has pruned that parent.
THEOREM ViewStaysChain == Spec => []ViewIsChain
<1>1. Init => ChainInv
  <2> SUFFICES ASSUME Init PROVE ChainInv
    OBVIOUS
  <2>1. pending = << >> /\ view = << >>
    BY DEF Init
  <2>2. Linked(<< >>, tree.nodes)
    BY DEF Linked, Climbs
  <2>3. ASSUME NEW a \in Nat, NEW r \in Nat, NEW k \in Nat, Queued(<< >>, a, r, k)
        PROVE  Spliced(<< >>, tree.nodes, << >>, a, r, k)
    <3>1. a = 0 /\ r = 0 /\ k = 0
      BY <2>3, EmptyQueue, QueuedOnce
    <3> QED BY <3>1 DEF Spliced
  <2> QED BY <2>1, <2>2, <2>3 DEF ChainInv
<1>2. ChainInv => ViewIsChain
  BY DEF ChainInv, ViewIsChain, Linked, Climbs
<1> QED BY <1>1, <1>2, ChainStep, TypeInvariant, ViewInvariant, PTL DEF Spec

-----------------------------------------------------------------------------
(***************************************************************************)
(* Finality.                                                               *)
(***************************************************************************)

\* The finalized tags that tick_finalize reads do not go back.
TagAdvances ==
    [][ \A e \in Endpoint : TickFinalize(e) /\ tree.finalized # NoBlock =>
           Number[fin[e]] >= Number[tree.finalized] ]_vars

\* The failover pool has one endpoint.
OneSource == \A e, f \in Endpoint : e = f

LEMMA LinkedAscends ==
    ASSUME NEW v \in Seq(Block), Climbs(v),
           NEW i \in 1..Len(v), NEW j \in 1..Len(v), i < j
    PROVE  Number[v[i]] < Number[v[j]]
<1> DEFINE L == Len(v)
<1>1. L \in Nat /\ L >= 1 /\ v[L] \in Block
  OBVIOUS
<1>2. \A n \in 0..(L - 1) : Number[v[L - n]] = Number[v[L]] - n
  BY <1>1, LinkedHeights
<1>3. Number[v[L]] \in Nat
  BY <1>1, BlockAssumption
<1> HIDE DEF L
<1>4. /\ L - i \in 0..(L - 1) /\ L - j \in 0..(L - 1) /\ L - (L - i) = i /\ L - (L - j) = j
      /\ L - j < L - i
  BY <1>1 DEF L
<1>5. Number[v[i]] = Number[v[L]] - (L - i) /\ Number[v[j]] = Number[v[L]] - (L - j)
  BY <1>2, <1>4
<1>6. \A h \in Nat, x, y \in Int : y < x => h - x < h - y
  OBVIOUS
<1>7. L - i \in Int /\ L - j \in Int
  BY <1>4
<1>8. Number[v[L]] - (L - i) < Number[v[L]] - (L - j)
  BY <1>3, <1>4, <1>6, <1>7
<1> QED BY ONLY <1>5, <1>8

\* No turn of ingest declares anything final.
LEMMA TurnDeclaresNothing ==
    ASSUME NEW b, Turns(b)
    PROVE  \A i \in 1..Len(pending') : pending'[i].type # "Finalized"
<1>1. CASE Refused(b)
  BY <1>1 DEF Refused
<1>2. CASE Forked(b)
  <2>1. Len(pending') = 1 /\ pending'[1].type = "Assembled"
    BY <1>2 DEF Forked, Queued
  <2>2. \A i \in 1..1 : i = 1
    OBVIOUS
  <2> QED BY <2>1, <2>2
<1>3. ASSUME NEW j \in Nat, NEW k \in Nat, Adopted(b, j, k)
      PROVE  \A i \in 1..Len(pending') : pending'[i].type # "Finalized"
  <2>1. /\ Len(pending') = 1 + j + k /\ pending'[1].type = "Assembled"
        /\ \A i \in 1..j : pending'[1 + i].type = "Reverted"
        /\ \A i \in 1..k : pending'[1 + j + i].type = "Canonicalized"
    BY <1>3 DEF Adopted, Announces, Queued
  <2> SUFFICES ASSUME NEW i \in 1..Len(pending') PROVE pending'[i].type # "Finalized"
    OBVIOUS
  <2>2. i \in 1..(1 + j + k)
    BY <2>1
  <2>3. CASE i = 1
    BY <2>1, <2>3
  <2>4. CASE i - 1 \in 1..j
    <3>1. pending'[1 + (i - 1)].type = "Reverted" /\ 1 + (i - 1) = i
      BY <2>1, <2>2, <2>4
    <3> QED BY <3>1
  <2>5. CASE i - 1 - j \in 1..k
    <3>1. 1 + j + (i - 1 - j) = i
      BY <2>2
    <3>2. pending'[1 + j + (i - 1 - j)].type = "Canonicalized"
      BY <2>1, <2>5
    <3> QED BY <3>1, <3>2
  <2> QED BY <2>2, <2>3, <2>4, <2>5
<1> QED BY <1>1, <1>2, <1>3 DEF Turns

\* What finalize returns, and the floor it leaves behind.
LEMMA FinalizeDeclares ==
    ASSUME NEW t, TreeInv(t), NEW f \in Block
    PROVE  LET new == Finalize(t, f).newly
           IN /\ Finalize(t, f).tree.finalized = f
              /\ \A i \in 1..Len(new) :
                    /\ new[i] \in Block /\ new[i] \in Canonical(t)
                    /\ Number[new[i]] <= Number[f]
                    /\ t.finalized # NoBlock => Number[new[i]] > Number[t.finalized]
              /\ \A i, j \in 1..Len(new) : i < j => Number[new[i]] < Number[new[j]]
<1> DEFINE new == Finalize(t, f).newly
<1>1. /\ new \in Seq(Block)
      /\ \A i \in 1..Len(new) :
            /\ new[i] \in Canonical(t)
            /\ Number[new[i]] <= FinalFloor(t, f)
            /\ t.finalized # NoBlock => Number[new[i]] > Number[t.finalized]
      /\ \A i \in 1..(Len(new) - 1) : Parent[new[i + 1]] = new[i]
  BY NewlyFinal
<1>2. Finalize(t, f).tree.finalized = f
  BY DEF Finalize, PruneBelow, TreeInv, Tree
<1>3. FinalFloor(t, f) <= Number[f] /\ FinalFloor(t, f) \in Nat /\ Number[f] \in Nat
  BY BlockAssumption DEF FinalFloor, TreeInv, Tree
<1> HIDE DEF new
<1>4. \A i \in 1..Len(new) : new[i] \in Block /\ Number[new[i]] \in Nat
  BY <1>1, BlockAssumption
<1>5. \A i \in 1..Len(new) : Number[new[i]] <= Number[f]
  BY <1>1, <1>3, <1>4
<1>6. \A i, j \in 1..Len(new) : i < j => Number[new[i]] < Number[new[j]]
  <2>1. ASSUME NEW i \in 1..(Len(new) - 1) PROVE Number[new[i + 1]] = Number[new[i]] + 1
    <3>1. i \in 1..Len(new) /\ i + 1 \in 1..Len(new) /\ Parent[new[i + 1]] = new[i]
      BY <1>1
    <3> QED BY <1>4, <3>1, BlockAssumption
  <2>2. Climbs(new)
    BY <2>1 DEF Climbs
  <2> QED BY <1>1, <2>2, LinkedAscends
<1> QED BY <1>1, <1>2, <1>4, <1>5, <1>6 DEF new

\* In one process's life: what is declared lies at or below the floor the
\* tree remembers, and the queue goes on above what was declared.
AscendInv ==
    restarts = 0 =>
        /\ tree.finalized = NoBlock =>
              /\ final = {}
              /\ \A i \in 1..Len(pending) : pending[i].type # "Finalized"
        /\ tree.finalized # NoBlock =>
              /\ \A x \in final : Number[x] <= Number[tree.finalized]
              /\ \A i \in 1..Len(pending) : pending[i].type = "Finalized" =>
                    Number[pending[i].block] <= Number[tree.finalized]
        /\ \A i \in 1..Len(pending) : pending[i].type = "Finalized" =>
              /\ \A x \in final : Number[x] < Number[pending[i].block]
              /\ \A j \in 1..Len(pending) : pending[j].type = "Finalized" /\ i < j =>
                    Number[pending[i].block] < Number[pending[j].block]

LEMMA AscendStep ==
    ASSUME TypeInv, AscendInv, [Next]_vars,
           [ \A e \in Endpoint : TickFinalize(e) /\ tree.finalized # NoBlock =>
                Number[fin[e]] >= Number[tree.finalized] ]_vars
    PROVE  AscendInv'
<1> SUFFICES ASSUME restarts' = 0 PROVE AscendInv'
  BY DEF AscendInv
<1>t. /\ TreeInv(tree) /\ tree.finalized \in Block \cup {NoBlock} /\ final \subseteq Block
      /\ \A b \in Block : Number[b] \in Nat /\ b # NoBlock
  BY BlockAssumption DEF TypeInv, TreeInv, Tree
<1>1. ASSUME AddStep PROVE AscendInv'
  <2>1. Turns(Top)
    BY <1>1, AddStepTurns
  <2>2. \A i \in 1..Len(pending') : pending'[i].type # "Finalized"
    BY <2>1, TurnDeclaresNothing
  <2>3. Top \in Block /\ final' = final /\ restarts = 0
    BY <2>1 DEF Turns, bus, process
  <2>4. tree'.finalized = tree.finalized
    <3>1. AddBlock(tree, Top).tree.finalized = tree.finalized
      BY <1>t, <2>3, AddBlockFloor
    <3> QED BY <1>1, <3>1 DEF AddStep
  <2> QED BY <2>2, <2>3, <2>4 DEF AscendInv
<1>2. ASSUME NEW e \in Endpoint, TickFinalize(e) PROVE AscendInv'
  <2>0. CASE UNCHANGED vars
    BY <2>0 DEF vars, pipeline, bus, process, AscendInv
  <2>1. Finalizes(fin[e])
    BY <1>2, TickFinalizes
  <2> DEFINE f == fin[e]
             new == Finalize(tree, f).newly
  <2>2. /\ f \in Block /\ final' = final /\ restarts = 0
        /\ tree' = Finalize(tree, f).tree
        /\ new \in Seq(Block) /\ pending' = FinalEvents(new)
    BY <2>1 DEF Finalizes, bus, process
  <2>3. /\ tree'.finalized = f
        /\ \A i \in 1..Len(new) :
              /\ new[i] \in Block /\ Number[new[i]] <= Number[f]
              /\ tree.finalized # NoBlock => Number[new[i]] > Number[tree.finalized]
        /\ \A i, j \in 1..Len(new) : i < j => Number[new[i]] < Number[new[j]]
    BY <1>t, <2>2, FinalizeDeclares
  <2>4. /\ Len(pending') = Len(new)
        /\ \A i \in 1..Len(new) : pending'[i].block = new[i]
    <3>1. Len(new) \in Nat
      BY <2>2
    <3>2. /\ Queued(FinalEvents(new), Len(new), 0, 0)
          /\ \A i \in 1..Len(new) : FinalEvents(new)[i].block = new[i]
      BY <2>2, FinalEventsShape
    <3> HIDE DEF new
    <3>3. Len(FinalEvents(new)) = Len(new)
      BY <3>1, <3>2 DEF Queued
    <3> QED BY <2>2, <3>2, <3>3
  <2>5. CASE ~UNCHANGED vars
    <3>1. tree.finalized # NoBlock => Number[f] >= Number[tree.finalized]
      BY <1>2, <2>5
    <3> HIDE DEF new, f
    <3>2. ASSUME NEW x \in final PROVE Number[x] <= Number[f]
      <4>1. tree.finalized # NoBlock /\ Number[x] <= Number[tree.finalized]
        BY <2>2 DEF AscendInv
      <4>2. Number[tree.finalized] \in Nat /\ Number[x] \in Nat /\ Number[f] \in Nat
        BY <1>t, <2>2, <4>1
      <4> QED BY <3>1, <4>1, <4>2
    <3>3. ASSUME NEW i \in 1..Len(new), NEW x \in final PROVE Number[x] < Number[new[i]]
      <4>1. tree.finalized # NoBlock /\ Number[x] <= Number[tree.finalized]
        BY <2>2 DEF AscendInv
      <4>2. Number[tree.finalized] \in Nat /\ Number[x] \in Nat /\ Number[new[i]] \in Nat
        BY <1>t, <2>3, <4>1
      <4>3. Number[new[i]] > Number[tree.finalized]
        BY <2>3, <4>1
      <4> QED BY <4>1, <4>2, <4>3
    <3>4. f # NoBlock
      BY <1>t, <2>2
    <3> QED BY <2>2, <2>3, <2>4, <3>2, <3>3, <3>4 DEF AscendInv
  <2> QED BY <2>0, <2>5
<1>3. ASSUME Publish \/ Abandon PROVE AscendInv'
  <2>1. Dequeued(pending, pending')
    BY <1>3, PublishDequeues
  <2> DEFINE x == pending[1].block
  <2>2. /\ tree' = tree /\ restarts = 0
        /\ \/ final' = IF pending[1].type = "Finalized" THEN final \cup {x} ELSE final
           \/ final' = final
    BY <1>3, <2>1 DEF Publish, Abandon, Dequeued, process
  <2>3. /\ \A i \in 1..Len(pending') : /\ i + 1 \in 1..Len(pending)
                                       /\ pending'[i] = pending[i + 1] /\ 1 < i + 1
        /\ 1 \in 1..Len(pending)
        /\ \A i, j \in 1..Len(pending') : i < j => i + 1 < j + 1
    BY <2>1 DEF Dequeued
  <2>4. tree.finalized = NoBlock => final' = {} /\
           \A i \in 1..Len(pending') : pending'[i].type # "Finalized"
    BY <2>2, <2>3 DEF AscendInv
  <2>5. ASSUME tree.finalized # NoBlock
        PROVE  /\ \A y \in final' : Number[y] <= Number[tree.finalized]
               /\ \A i \in 1..Len(pending') : pending'[i].type = "Finalized" =>
                     Number[pending'[i].block] <= Number[tree.finalized]
    BY <2>2, <2>3, <2>5 DEF AscendInv
  <2>6. ASSUME NEW i \in 1..Len(pending'), pending'[i].type = "Finalized"
        PROVE  /\ \A y \in final' : Number[y] < Number[pending'[i].block]
               /\ \A j \in 1..Len(pending') : pending'[j].type = "Finalized" /\ i < j =>
                     Number[pending'[i].block] < Number[pending'[j].block]
    <3>1. \A y \in final : Number[y] < Number[pending'[i].block]
      BY <2>2, <2>3, <2>6 DEF AscendInv
    <3>2. pending[1].type = "Finalized" => Number[x] < Number[pending'[i].block]
      BY <2>2, <2>3, <2>6 DEF AscendInv
    <3>3. ASSUME NEW j \in 1..Len(pending'), pending'[j].type = "Finalized", i < j
          PROVE  Number[pending'[i].block] < Number[pending'[j].block]
      BY <2>2, <2>3, <2>6, <3>3 DEF AscendInv
    <3> QED BY <2>2, <3>1, <3>2, <3>3
  <2> QED BY <2>2, <2>4, <2>5, <2>6 DEF AscendInv
<1>4. ASSUME Restart PROVE AscendInv'
  BY <1>4 DEF Restart, TypeInv
<1>5. ASSUME Silent PROVE AscendInv'
  BY <1>5 DEF Silent, bus, AscendInv
<1> QED BY <1>1, <1>2, <1>3, <1>4, <1>5, StepKinds

\* As long as the tags it reads do not go back, one process announces each
\* block final once, in ascending order, whatever reorgs come in between.
THEOREM FinalityAscends == Spec /\ TagAdvances => FinalAscends
<1>1. Init => AscendInv
  BY DEF Init, AscendInv, EmptyTree
<1>2. Spec /\ TagAdvances => []AscendInv
  BY <1>1, AscendStep, TypeInvariant, PTL DEF Spec, TagAdvances
<1>3. ASSUME TypeInv, AscendInv, restarts = 0, pending # << >>,
             Head(pending).type = "Finalized"
      PROVE  \A b \in final : Number[b] < Number[Head(pending).block]
  <2>1. Head(pending) = pending[1] /\ 1 \in 1..Len(pending)
    BY <1>3 DEF TypeInv
  <2> QED BY <1>3, <2>1 DEF AscendInv
<1>4. TypeInv /\ AscendInv /\ [Next]_vars =>
         [ restarts = 0 /\ pending # << >> /\ pending' = Tail(pending)
             /\ Head(pending).type = "Finalized" =>
           \A b \in final : Number[b] < Number[Head(pending).block] ]_vars
  BY <1>3
<1> QED BY <1>2, <1>4, TypeInvariant, PTL DEF Spec, FinalAscends

\* The tag of a single endpoint never falls behind the tree's floor.
TagInv ==
    tree.finalized # NoBlock =>
        \A e \in Endpoint : fin[e] # NoBlock /\ Number[fin[e]] >= Number[tree.finalized]

LEMMA TagStep ==
    ASSUME OneSource, TypeInv, TagInv, [Next]_vars
    PROVE  TagInv'
<1>t. /\ TreeInv(tree) /\ tree.finalized \in Block \cup {NoBlock}
      /\ \A b \in Block : Number[b] \in Nat /\ b # NoBlock
      /\ fin \in [Endpoint -> Block \cup {NoBlock}]
  BY BlockAssumption DEF TypeInv, TreeInv, Tree
<1>1. ASSUME NEW e \in Endpoint, NEW b \in Block, AdvanceFinal(e, b) PROVE TagInv'
  <2>1. tree' = tree /\ fin' = [fin EXCEPT ![e] = b]
        /\ (fin[e] # NoBlock => Number[b] > Number[fin[e]])
    BY <1>1 DEF AdvanceFinal, pipeline
  <2> SUFFICES ASSUME tree.finalized # NoBlock, NEW d \in Endpoint
               PROVE  fin'[d] # NoBlock /\ Number[fin'[d]] >= Number[tree.finalized]
    BY <2>1 DEF TagInv
  <2>2. fin[d] # NoBlock /\ Number[fin[d]] >= Number[tree.finalized] /\ d = e
    BY DEF TagInv, OneSource
  <2>3. fin'[d] = b
    BY <1>t, <2>1, <2>2
  <2>4. Number[b] \in Nat /\ Number[fin[d]] \in Nat /\ Number[tree.finalized] \in Nat
    BY <1>t, <2>2
  <2> QED BY <1>t, <2>1, <2>2, <2>3, <2>4
<1>2. ASSUME NEW e \in Endpoint, TickFinalize(e) PROVE TagInv'
  <2>1. Finalizes(fin[e]) /\ fin' = fin
    BY <1>2, TickFinalizes DEF TickFinalize, source
  <2>2. tree'.finalized = fin[e] /\ fin[e] \in Block
    BY <1>t, <2>1, FinalizeDeclares DEF Finalizes
  <2>3. \A d \in Endpoint : d = e
    BY DEF OneSource
  <2> QED BY <1>t, <2>1, <2>2, <2>3 DEF TagInv
<1>3. ASSUME AddStep PROVE TagInv'
  <2>1. Top \in Block /\ fin' = fin /\ tree' = AddBlock(tree, Top).tree
    BY <1>3, AddStepTurns DEF Turns, AddStep, source
  <2>2. tree'.finalized = tree.finalized
    BY <1>t, <2>1, AddBlockFloor
  <2> QED BY <2>1, <2>2 DEF TagInv
<1>4. ASSUME Restart PROVE TagInv'
  BY <1>4 DEF Restart, EmptyTree, TagInv
<1>5. ASSUME tree' = tree, fin' = fin PROVE TagInv'
  BY <1>5 DEF TagInv
<1>6. ASSUME NEW e \in Endpoint, NEW b \in Block, MoveHead(e, b) PROVE tree' = tree /\ fin' = fin
  BY <1>6 DEF MoveHead, pipeline
<1>7. ASSUME Poller PROVE tree' = tree /\ fin' = fin
  BY <1>7 DEF Poller, PollTick, PollFetch, PollFetchFails, PollSend, pipeline, source
<1>8. ASSUME TakeHead \/ BackFill \/ BackFillFails \/ Publish \/ Abandon \/ Shutdown
      PROVE  tree' = tree /\ fin' = fin
  BY <1>8 DEF TakeHead, BackFill, BackFillFails, Publish, Abandon, Shutdown, pipeline, source
<1>9. ASSUME UNCHANGED vars PROVE tree' = tree /\ fin' = fin
  BY <1>9 DEF vars, pipeline, source
<1> QED BY <1>1, <1>2, <1>3, <1>4, <1>5, <1>6, <1>7, <1>8, <1>9
        DEF Next, Source, Pipeline, PipelineWork

\* With one endpoint the order needs no assumption about the tags.
THEOREM OneSourceAscends == OneSource /\ Spec => FinalAscends
<1> SUFFICES ASSUME OneSource PROVE Spec => FinalAscends
  OBVIOUS
<1>1. Init => TagInv
  BY DEF Init, TagInv, EmptyTree
<1>2. TypeInv /\ TagInv /\ [Next]_vars => TagInv'
  BY TagStep
<1>3. TagInv =>
         [ \A e \in Endpoint : TickFinalize(e) /\ tree.finalized # NoBlock =>
              Number[fin[e]] >= Number[tree.finalized] ]_vars
  BY DEF TagInv
<1>4. Spec => TagAdvances
  BY <1>1, <1>2, <1>3, TypeInvariant, PTL DEF Spec, TagAdvances
<1> QED BY <1>4, FinalityAscends, PTL

-----------------------------------------------------------------------------
(***************************************************************************)
(* Going back on finality.  While the tip stands at or above the floor,    *)
(* nothing the tree holds is below it; a tip below the floor cannot be     *)
(* replaced, because add_block refuses everything up to the floor.  So a   *)
(* revert never reaches below the floor, and what was declared is never    *)
(* above it.                                                               *)
(***************************************************************************)
RevertInv ==
    tree.finalized # NoBlock =>
        /\ tree.tip # NoBlock /\ Number[tree.tip] >= Number[tree.finalized] =>
              \A b \in tree.nodes : Number[b] >= Number[tree.finalized]
        /\ \A i \in 1..Len(pending) : pending[i].type = "Reverted" =>
              Number[pending[i].block] >= Number[tree.finalized]

\* The blocks held when a block above the floor finds its parent.
LEMMA GrowsAboveFloor ==
    ASSUME TypeInv, RevertInv, tree.finalized # NoBlock, NEW b \in Block,
           tree.nodes # {} => Parent[b] \in tree.nodes,
           Number[b] > Number[tree.finalized]
    PROVE  \A n \in tree.nodes : Number[n] >= Number[tree.finalized]
<1> SUFFICES ASSUME NEW n \in tree.nodes PROVE Number[n] >= Number[tree.finalized]
  OBVIOUS
<1>1. /\ TreeInv(tree) /\ tree.nodes \subseteq Block /\ tree.finalized \in Block
      /\ tree.tip # NoBlock /\ tree.tip \in tree.nodes
      /\ \A x \in Block : Number[x] \in Nat /\ x # NoBlock
  BY BlockAssumption DEF TypeInv, TreeInv, Tree
<1>2. Parent[b] \in tree.nodes /\ Number[b] = Number[Parent[b]] + 1
  BY <1>1, BlockAssumption
<1>3. Number[Parent[b]] >= Number[tree.finalized]
  BY <1>1, <1>2
<1>4. Number[tree.tip] >= Number[Parent[b]]
  <2>1. Parent[b] = tree.tip \/ ~Beats(tree, Parent[b])
    BY <1>1, <1>2 DEF TreeInv
  <2> QED BY <1>1, <1>2, <2>1 DEF Beats
<1>5. Number[tree.tip] >= Number[tree.finalized]
  BY <1>1, <1>2, <1>3, <1>4
<1> QED BY <1>1, <1>5 DEF RevertInv

LEMMA RevertStep == TypeInv /\ RevertInv /\ [Next]_vars => RevertInv'
<1> SUFFICES ASSUME TypeInv, RevertInv, [Next]_vars PROVE RevertInv'
  OBVIOUS
<1>t. /\ TreeInv(tree) /\ tree.finalized \in Block \cup {NoBlock}
      /\ tree.nodes \subseteq Block
      /\ \A b \in Block : Number[b] \in Nat /\ b # NoBlock
  BY BlockAssumption DEF TypeInv, TreeInv, Tree
<1>1. ASSUME AddStep PROVE RevertInv'
  <2>1. Turns(Top)
    BY <1>1, AddStepTurns
  <2> DEFINE b == Top
  <2>2. b \in Block /\ tree' = AddBlock(tree, b).tree
    BY <1>1, <2>1 DEF Turns, AddStep
  <2>3. /\ tree'.finalized = tree.finalized
        /\ tree'.nodes \subseteq tree.nodes \cup {b}
        /\ b \in tree'.nodes => \/ b \in tree.nodes \/ tree.finalized = NoBlock
                                \/ Number[b] > Number[tree.finalized]
    BY <1>t, <2>2, AddBlockFloor
  <2> HIDE DEF b
  <2> SUFFICES ASSUME tree.finalized # NoBlock PROVE RevertInv'
    BY <2>3 DEF RevertInv
  <2>4. CASE Refused(b)
    BY <2>4 DEF Refused, RevertInv
  <2>5. CASE Forked(b)
    <3>1. /\ b \notin tree.nodes /\ (tree.nodes # {} => Parent[b] \in tree.nodes)
          /\ tree' = Insert(tree, b) /\ b \in tree'.nodes
      BY <1>t, <2>2, <2>5, InsertFields DEF Forked
    <3>2. Number[b] > Number[tree.finalized]
      BY <2>3, <3>1
    <3>3. \A n \in tree.nodes : Number[n] >= Number[tree.finalized]
      BY <2>2, <3>1, <3>2, GrowsAboveFloor
    <3>4. \A n \in tree'.nodes : Number[n] >= Number[tree.finalized]
      BY <1>t, <2>2, <2>3, <3>2, <3>3
    <3>5. \A i \in 1..Len(pending') : pending'[i].type # "Reverted"
      <4>1. Len(pending') = 1 /\ pending'[1].type = "Assembled"
        BY <2>5 DEF Forked, Queued
      <4>2. \A i \in 1..1 : i = 1
        OBVIOUS
      <4> QED BY <4>1, <4>2
    <3> QED BY <2>3, <3>4, <3>5 DEF RevertInv
  <2>6. ASSUME NEW j \in Nat, NEW k \in Nat, Adopted(b, j, k) PROVE RevertInv'
    <3>1. /\ b \notin tree.nodes /\ (tree.nodes # {} => Parent[b] \in tree.nodes)
          /\ tree' = PruneToDepth([Insert(tree, b) EXCEPT !.tip = b])
      BY <2>6 DEF Adopted
    <3>2. Number[b] > Number[tree.finalized]
      <4>1. tree' # tree
        <5> DEFINE t == [Insert(tree, b) EXCEPT !.tip = b]
        <5>1. t \in Tree /\ t.tip = b
          BY <1>t, <2>2, <3>1, InsertFields DEF Tree
        <5>2. tree'.tip = b
          <6> HIDE DEF t
          <6>1. tree' = PruneToDepth(t)
            BY <3>1 DEF t
          <6> QED BY <5>1, <6>1 DEF PruneToDepth, PruneBelow, Tree
        <5>3. tree.tip # b
          BY <1>t, <2>2, <3>1 DEF TreeInv
        <5> QED BY <5>2, <5>3
      <4>2. ~(tree.finalized # NoBlock /\ Number[b] <= Number[tree.finalized])
        BY <2>2, <4>1, AddBlockReturns
      <4> QED BY <1>t, <2>2, <4>2
    <3>3. \A n \in tree.nodes : Number[n] >= Number[tree.finalized]
      BY <2>2, <3>1, <3>2, GrowsAboveFloor
    <3>4. \A n \in tree'.nodes : Number[n] >= Number[tree.finalized]
      BY <1>t, <2>2, <2>3, <3>2, <3>3
    <3>5. /\ Len(pending') = 1 + j + k /\ pending'[1].type = "Assembled"
          /\ \A i \in 1..j : pending'[1 + i].block = CanonicalIter(tree)[i]
          /\ \A i \in 1..k : pending'[1 + j + i].type = "Canonicalized"
          /\ j \in 0..Len(CanonicalIter(tree))
      BY <2>6 DEF Adopted, Announces, Queued, Replaces
    <3>6. ASSUME NEW i \in 1..Len(pending'), pending'[i].type = "Reverted"
          PROVE  Number[pending'[i].block] >= Number[tree.finalized]
      <4>1. i \in 1..(1 + j + k)
        BY <3>5
      <4>2. i # 1
        BY <3>5, <3>6
      <4>3. ~(i - 1 - j \in 1..k)
        <5> SUFFICES ASSUME i - 1 - j \in 1..k PROVE FALSE
          OBVIOUS
        <5>1. 1 + j + (i - 1 - j) = i
          BY <4>1
        <5>2. pending'[1 + j + (i - 1 - j)].type = "Canonicalized"
          BY <3>5
        <5> QED BY <3>6, <5>1, <5>2
      <4>4. i - 1 \in 1..j /\ 1 + (i - 1) = i
        BY <4>1, <4>2, <4>3
      <4>5. pending'[i].block = CanonicalIter(tree)[i - 1]
        BY <3>5, <4>4
      <4>6. tree.tip # NoBlock /\ i - 1 \in 1..Len(CanonicalIter(tree))
        <5>1. Len(CanonicalIter(tree)) \in Nat /\ (tree.tip = NoBlock => CanonicalIter(tree) = << >>)
          BY <1>t, ChainType
        <5> QED BY <3>5, <4>4, <5>1
      <4>7. CanonicalIter(tree)[i - 1] \in tree.nodes
        BY <1>t, <4>6, ChainIsWalk DEF Descends
      <4> QED BY <3>3, <4>5, <4>7
    <3> QED BY <2>3, <3>4, <3>6 DEF RevertInv
  <2> QED BY <2>1, <2>4, <2>5, <2>6 DEF Turns, b
<1>2. ASSUME NEW e \in Endpoint, TickFinalize(e) PROVE RevertInv'
  <2>1. Finalizes(fin[e])
    BY <1>2, TickFinalizes
  <2> DEFINE f == fin[e]
             new == Finalize(tree, f).newly
  <2>2. /\ f \in Block /\ tree' = Finalize(tree, f).tree
        /\ new \in Seq(Block) /\ pending' = FinalEvents(new)
    BY <2>1 DEF Finalizes
  <2>3. tree'.finalized = f /\ tree'.tip = tree.tip
    BY <1>t, <2>2 DEF Finalize, PruneBelow, TreeInv, Tree
  <2>4. ASSUME tree.tip # NoBlock, Number[tree.tip] >= Number[f]
        PROVE  \A b \in tree'.nodes : Number[b] >= Number[f]
    <3>1. Number[f] <= Number[tree.tip]
      BY <1>t, <2>2, <2>4 DEF TreeInv
    <3> HIDE DEF f
    <3>2. tree'.nodes = {b \in tree.nodes : Number[b] >= Number[f]}
      BY <1>t, <2>2, <2>4, <3>1, FinalizeFloor
    <3> QED BY <3>2
  <2>5. \A i \in 1..Len(pending') : pending'[i].type # "Reverted"
    <3>1. Len(new) \in Nat
      BY <2>2
    <3>2. Queued(FinalEvents(new), Len(new), 0, 0)
      BY <2>2, FinalEventsShape
    <3> HIDE DEF new
    <3>3. /\ Len(FinalEvents(new)) = Len(new)
          /\ \A i \in 1..Len(new) : FinalEvents(new)[i].type \in {"Assembled", "Finalized"}
      BY <3>1, <3>2 DEF Queued
    <3> QED BY <2>2, <3>3
  <2> HIDE DEF f
  <2> QED BY <2>3, <2>4, <2>5 DEF RevertInv
<1>3. ASSUME Publish \/ Abandon PROVE RevertInv'
  <2>1. Dequeued(pending, pending') /\ tree' = tree
    BY <1>3, PublishDequeues DEF Publish, Abandon
  <2>2. \A i \in 1..Len(pending') : i + 1 \in 1..Len(pending) /\ pending'[i] = pending[i + 1]
    BY <2>1 DEF Dequeued
  <2> QED BY <2>1, <2>2 DEF RevertInv
<1>4. ASSUME Restart PROVE RevertInv'
  BY <1>4 DEF Restart, RevertInv, EmptyTree
<1>5. ASSUME Silent PROVE RevertInv'
  BY <1>5 DEF Silent, RevertInv
<1> QED BY <1>1, <1>2, <1>3, <1>4, <1>5, StepKinds

\* As long as the tags it reads do not go back, one process takes back a block
\* it announced as final only at the very height of the finalized floor: a
\* head that was on its way while finality moved cannot reach below it.
THEOREM FinalRevertsStayAtFloor == Spec /\ TagAdvances => []FinalRevertedAtFloor
<1>1. Init => AscendInv
  BY DEF Init, AscendInv, EmptyTree
<1>2. Spec /\ TagAdvances => []AscendInv
  BY <1>1, AscendStep, TypeInvariant, PTL DEF Spec, TagAdvances
<1>3. Init => RevertInv
  BY DEF Init, RevertInv, EmptyTree
<1>4. Spec => []RevertInv
  BY <1>3, RevertStep, TypeInvariant, PTL DEF Spec
<1>5. TypeInv /\ AscendInv /\ RevertInv => FinalRevertedAtFloor
  <2> SUFFICES ASSUME TypeInv, AscendInv, RevertInv, restarts = 0,
                      NEW i \in DOMAIN pending, pending[i].type = "Reverted",
                      pending[i].block \in final
               PROVE  /\ tree.finalized # NoBlock
                      /\ Number[pending[i].block] = Number[tree.finalized]
    BY DEF FinalRevertedAtFloor
  <2>1. i \in 1..Len(pending) /\ pending[i].block \in Block
    BY DEF TypeInv
  <2>2. tree.finalized # NoBlock /\ Number[pending[i].block] <= Number[tree.finalized]
    BY DEF AscendInv
  <2>3. Number[pending[i].block] >= Number[tree.finalized]
    BY <2>1, <2>2 DEF RevertInv
  <2>4. Number[tree.finalized] \in Nat /\ Number[pending[i].block] \in Nat
    BY <2>1, <2>2, BlockAssumption DEF TypeInv, TreeInv, Tree
  <2> QED BY <2>2, <2>3, <2>4
<1> QED BY <1>2, <1>4, <1>5, TypeInvariant, PTL
==============================================================================
