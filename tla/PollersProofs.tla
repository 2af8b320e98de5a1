---------------------------- MODULE PollersProofs -----------------------------
(* Proofs about what the worker processes do by themselves: Outbox,            *)
(* SocialPublish and ReportDigest, with any number of processes, events, posts *)
(* and organisations, any batch size and bound on attempts, and any faults.    *)
EXTENDS Outbox, SocialPublish, ReportDigest, JobQueueProofs, FiniteSetTheorems

-----------------------------------------------------------------------------
(* The outbox.                                                               *)

\* What a dispatcher is working on: the rows of an open claim are still PENDING, no two
\* dispatchers share a row, a claim starts when the last batch is done, and at most one row of a batch is with markFailed, never
\* one that no queue wants.
WorkOK ==
  /\ \A d \in Dispatchers : \A e \in picked[d] : status[e] = "PENDING"
  /\ DisjointBatches
  /\ \A d \in Dispatchers :
       /\ picked[d] = {} \/ (batch[d] = {} /\ failing[d] = {})
       /\ batch[d] \cap failing[d] = {}
       /\ failing[d] \cap (Known \ Routed) = {}
       /\ \A e, f \in failing[d] : e = f

\* A row before its insert was never claimed; only routed events ever become jobs.
RowsOK ==
  /\ ParkedWhenExhausted
  /\ \A e \in Events : status[e] = "absent" => attempts[e] = 0
  /\ \A e \in Events : job[e] # "none" => e \in Routed /\ status[e] # "absent"

\* Faults are accounted for.
FaultsOK ==
  /\ faults > 0 => Faults # {}
  /\ \A d \in Dispatchers : mode[d] = "stopping" => faults > 0

OutboxInv == OutboxTypeOK /\ WorkOK /\ RowsOK /\ FaultsOK

\* The invariant holds of an empty outbox.
LEMMA OutboxInvInit == OutboxInit => OutboxInv
  BY OutboxAssumption
  DEF OutboxInit, QueueInit, OutboxInv, OutboxTypeOK, WorkOK, RowsOK, FaultsOK, Hands,
      DisjointBatches, ParkedWhenExhausted, OutboxAssumption, RowStatus, Mode, Events

-----------------------------------------------------------------------------
(* One lemma per group of actions.                                           *)

\* The producer and the clock.
LEMMA InvProducer ==
  ASSUME NEW e \in Events, OutboxInv, Publish(e) \/ Elapse(e)
  PROVE  OutboxInv'
<1> USE OutboxAssumption DEF OutboxInv, OutboxTypeOK, RowStatus, Mode, queueVars
<1>1. OutboxTypeOK' /\ FaultsOK'
  BY DEF Publish, Elapse, FaultsOK
<1>2. WorkOK'
  BY DEF Publish, Elapse, WorkOK, DisjointBatches, Hands
<1>3. RowsOK'
  BY DEF Publish, Elapse, RowsOK, ParkedWhenExhausted, OutboxAssumption, Events
<1> QED BY <1>1, <1>2, <1>3

\* Locking rows: a claim takes only what no other claim has locked.
LEMMA InvClaimSelect ==
  ASSUME NEW d \in Dispatchers, OutboxInv, ClaimSelect(d)
  PROVE  OutboxInv'
<1> USE OutboxAssumption DEF OutboxInv, OutboxTypeOK, RowStatus, Mode, queueVars
<1>1. PICK S \in SUBSET Eligible(d) : picked' = [picked EXCEPT ![d] = S]
  BY DEF ClaimSelect
<1>0. batch[d] = {} /\ failing[d] = {}
  BY DEF ClaimSelect, Idle, Hands
<1>2. UNCHANGED <<status, attempts, due, mode, batch, failing, faults, job>>
  BY DEF ClaimSelect
<1>3. S \subseteq Events /\ \A e \in S : status[e] = "PENDING" /\ \A c \in Dispatchers : e \notin picked[c]
  BY DEF Eligible
<1>4. OutboxTypeOK' /\ FaultsOK' /\ RowsOK'
  BY <1>1, <1>2, <1>3 DEF FaultsOK, RowsOK, ParkedWhenExhausted
<1>5. WorkOK'
  BY <1>0, <1>1, <1>2, <1>3 DEF WorkOK, DisjointBatches, Hands
<1> QED BY <1>4, <1>5

\* The claimed rows leave PENDING, one attempt later.
LEMMA MarkDispatchedEffect ==
  ASSUME NEW S \in SUBSET Events, OutboxTypeOK, RowsOK, MarkDispatched(S),
         \A e \in S : status[e] = "PENDING"
  PROVE  /\ status' \in [Events -> RowStatus]
         /\ attempts' \in [Events -> 0..MaxAttempts]
         /\ \A e \in S : status'[e] = "DISPATCHED"
         /\ \A e \in Events \ S : status'[e] = status[e] /\ attempts'[e] = attempts[e]
  BY OutboxAssumption
  DEF MarkDispatched, OutboxTypeOK, RowsOK, ParkedWhenExhausted, RowStatus, OutboxAssumption

\* A claim that commits, is rolled back, or commits without an answer.
LEMMA InvClaimEnds ==
  ASSUME NEW d \in Dispatchers, OutboxInv,
         ClaimCommit(d) \/ ClaimRollback(d) \/ ClaimUnacknowledged(d)
  PROVE  OutboxInv'
<1> USE OutboxAssumption DEF OutboxInv, OutboxTypeOK, RowStatus, Mode, queueVars
<1>1. picked[d] \in SUBSET Events /\ \A e \in picked[d] : status[e] = "PENDING"
  BY DEF WorkOK
<1>2. CASE ClaimRollback(d)
  <2>1. OutboxTypeOK' /\ FaultsOK' /\ RowsOK'
    BY <1>2 DEF ClaimRollback, Fault, FaultsOK, RowsOK, ParkedWhenExhausted, OutboxAssumption
  <2>2. WorkOK'
    BY <1>2 DEF ClaimRollback, WorkOK, DisjointBatches, Hands
  <2> QED BY <2>1, <2>2
<1>3. CASE MarkDispatched(picked[d]) /\ UNCHANGED <<due, mode, failing, job>>
           /\ picked' = [picked EXCEPT ![d] = {}]
           /\ (batch' = [batch EXCEPT ![d] = picked[d]] \/ batch' = batch)
           /\ ((faults' = faults) \/ (\E k \in FaultKinds : Fault(k)))
  <2>1. /\ status' \in [Events -> RowStatus]
        /\ attempts' \in [Events -> 0..MaxAttempts]
        /\ \A e \in picked[d] : status'[e] = "DISPATCHED"
        /\ \A e \in Events \ picked[d] : status'[e] = status[e] /\ attempts'[e] = attempts[e]
    BY <1>1, <1>3, MarkDispatchedEffect
  <2>2. OutboxTypeOK' /\ FaultsOK'
    BY <1>1, <1>3, <2>1 DEF Fault, FaultsOK, OutboxAssumption
  <2>3. RowsOK'
    BY <1>1, <1>3, <2>1 DEF RowsOK, ParkedWhenExhausted
  <2>4. WorkOK'
    <3>1. \A c \in Dispatchers : \A e \in picked'[c] : status'[e] = "PENDING"
      BY <1>1, <1>3, <2>1 DEF WorkOK, DisjointBatches, Hands
    <3>2. \A c, b \in Dispatchers :
            c # b => (picked'[c] \cup Hands(c)') \cap (picked'[b] \cup Hands(b)') = {}
      BY <1>1, <1>3 DEF WorkOK, DisjointBatches, Hands
    <3>3. \A c \in Dispatchers : \A e \in Hands(c)' : status'[e] = "DISPATCHED"
      BY <1>1, <1>3, <2>1 DEF WorkOK, DisjointBatches, Hands
    <3>4. \A c \in Dispatchers :
            /\ picked'[c] = {} \/ (batch'[c] = {} /\ failing'[c] = {})
            /\ batch'[c] \cap failing'[c] = {}
            /\ failing'[c] \cap (Known \ Routed) = {}
            /\ \A e, f \in failing'[c] : e = f
      BY <1>1, <1>3 DEF WorkOK, DisjointBatches, Hands
    <3> QED BY <3>1, <3>2, <3>3, <3>4 DEF WorkOK, DisjointBatches
  <2> QED BY <2>2, <2>3, <2>4
<1> QED BY <1>2, <1>3 DEF ClaimCommit, ClaimUnacknowledged, Fault, FaultKinds, OutboxAssumption

\* The loop over a batch.
LEMMA InvRelay ==
  ASSUME NEW d \in Dispatchers, NEW e \in Events, OutboxInv, QueueInv,
         RelayUnknown(d, e) \/ RelayUnrouted(d, e) \/ RelayRouted(d, e)
  PROVE  OutboxInv'
<1> USE OutboxAssumption DEF OutboxInv, OutboxTypeOK, RowStatus, Mode, queueVars
<1>1. /\ failing[d] = {} /\ e \in batch[d]
      /\ batch' = [batch EXCEPT ![d] = @ \ {e}]
      /\ failing' = failing \/ (e \notin Known \ Routed /\ failing' = [failing EXCEPT ![d] = {e}])
      /\ UNCHANGED <<status, attempts, due, mode, picked, faults>>
  BY DEF RelayUnknown, RelayUnrouted, RelayRouted, Reaches
<1>2. UNCHANGED job \/ (e \in Routed /\ job' = [job EXCEPT ![e] = IF @ = "none" THEN "waiting" ELSE @])
  BY DEF RelayUnknown, RelayUnrouted, RelayRouted, Add
<1>3. status[e] = "DISPATCHED"
  BY <1>1 DEF WorkOK, DisjointBatches, Hands
<1>4. OutboxTypeOK' /\ FaultsOK'
  BY <1>1 DEF FaultsOK
<1>5. RowsOK'
  BY <1>1, <1>2, <1>3 DEF RowsOK, ParkedWhenExhausted, Events, QueueInv, QueueTypeOK
<1>6. WorkOK'
  BY <1>1 DEF WorkOK, DisjointBatches, Hands
<1> QED BY <1>4, <1>5, <1>6

\* markFailed, whether the loop learns of it or not.
LEMMA InvRequeue ==
  ASSUME NEW d \in Dispatchers, OutboxInv, Requeue(d) \/ RequeueThrows(d)
  PROVE  OutboxInv'
<1> USE OutboxAssumption DEF OutboxInv, OutboxTypeOK, RowStatus, Mode, queueVars
<1>1. PICK e \in failing[d] :
        /\ RequeueRow(e) \/ UNCHANGED <<status, attempts, due>>
        /\ failing' = [failing EXCEPT ![d] = {}]
        /\ batch' = batch \/ batch' = [batch EXCEPT ![d] = {}]
        /\ faults' = faults \/ Fault("requeue")
        /\ UNCHANGED <<mode, picked, job>>
  BY DEF Requeue, RequeueThrows
<1>2. e \in Events /\ status[e] = "DISPATCHED" /\ \A c \in Dispatchers : e \notin picked[c]
  BY <1>1 DEF WorkOK, DisjointBatches, Hands
<1>3. \A c \in Dispatchers : e \notin batch'[c] /\ e \notin failing'[c]
  BY <1>1, <1>2 DEF WorkOK, DisjointBatches, Hands
<1>4. OutboxTypeOK' /\ FaultsOK'
  <2>1. status' \in [Events -> RowStatus] /\ due' \in [Events -> BOOLEAN] /\ attempts' = attempts
    <3>1. /\ attempts' = attempts
          /\ due' = due \/ due' = [due EXCEPT ![e] = FALSE]
          /\ status' = status \/ \E s \in RowStatus : status' = [status EXCEPT ![e] = s]
      BY <1>1 DEF RequeueRow
    <3>2. e \in Events /\ status \in [Events -> RowStatus] /\ due \in [Events -> BOOLEAN]
      BY <1>2
    <3> QED BY ONLY <3>1, <3>2
  <2>2. faults' \in 0..MaxFaults /\ FaultsOK'
    BY <1>1 DEF Fault, FaultsOK, OutboxAssumption
  <2> QED BY <1>1, <2>1, <2>2
<1>5. RowsOK'
  BY <1>1, <1>2 DEF RequeueRow, RowsOK, ParkedWhenExhausted, OutboxAssumption
<1>6. WorkOK'
  <2>1. \A f \in Events : f # e => status'[f] = status[f]
    BY <1>1, <1>2 DEF RequeueRow
  <2> QED BY <1>1, <1>2, <1>3, <2>1 DEF WorkOK, DisjointBatches, Hands
<1> QED BY <1>4, <1>5, <1>6

\* The life of the process.
LEMMA InvProcess ==
  ASSUME NEW d \in Dispatchers, OutboxInv, Stop(d) \/ Exit(d) \/ Crash(d) \/ Restart(d)
  PROVE  OutboxInv'
<1> USE OutboxAssumption DEF OutboxInv, OutboxTypeOK, RowStatus, Mode, queueVars
<1>1. /\ UNCHANGED <<status, attempts, due, job>>
      /\ \/ UNCHANGED <<picked, batch, failing>>
         \/ /\ picked' = [picked EXCEPT ![d] = {}]
            /\ batch' = [batch EXCEPT ![d] = {}]
            /\ failing' = [failing EXCEPT ![d] = {}]
  BY DEF Stop, Exit, Crash, Restart, Dies
<1>2. OutboxTypeOK' /\ FaultsOK'
  BY DEF Stop, Exit, Crash, Restart, Dies, Fault, FaultsOK, OutboxAssumption
<1>3. RowsOK'
  BY <1>1 DEF RowsOK, ParkedWhenExhausted
<1>4. WorkOK'
  BY <1>1 DEF WorkOK, DisjointBatches, Hands
<1> QED BY <1>2, <1>3, <1>4

\* The queue's workers touch no row, and what is a job stays one.
LEMMA ConsumeEffect ==
  ASSUME NEW j \in Jobs, Consume(j), QueueTypeOK
  PROVE  \A e \in Jobs : job'[e] = "none" <=> job[e] = "none"
  BY DEF Consume, Take, Succeed, Fail, WorkerDies, Reclaim, QueueTypeOK, JobState

LEMMA InvConsume ==
  ASSUME NEW j \in Jobs, OutboxInv, QueueInv, Consume(j), UNCHANGED relayVars
  PROVE  OutboxInv'
<1>1. OutboxTypeOK' /\ WorkOK' /\ FaultsOK'
  BY DEF OutboxInv, OutboxTypeOK, relayVars, WorkOK, FaultsOK, DisjointBatches, Hands
<1>2. RowsOK'
  BY ConsumeEffect DEF OutboxInv, relayVars, RowsOK, ParkedWhenExhausted, QueueInv, Events
<1> QED BY <1>1, <1>2 DEF OutboxInv

\* Every step of the outbox keeps its invariant.
LEMMA OutboxInvStep == OutboxInv /\ QueueInv /\ [OutboxNext]_outboxVars => OutboxInv'
<1> SUFFICES ASSUME OutboxInv, QueueInv, [OutboxNext]_outboxVars PROVE OutboxInv'
  OBVIOUS
<1>1. CASE UNCHANGED outboxVars
  BY <1>1
  DEF outboxVars, relayVars, queueVars, OutboxInv, OutboxTypeOK, WorkOK, RowsOK, FaultsOK,
      DisjointBatches, Hands, ParkedWhenExhausted
<1>2. CASE OutboxNext
  BY <1>2, InvProducer, InvClaimSelect, InvClaimEnds, InvRelay, InvRequeue, InvProcess, InvConsume
  DEF OutboxNext, Claims, Relays, Fails
<1> QED BY <1>1, <1>2

\* To the queue, the dispatchers are producers: each of their steps adds one job or
\* leaves the queue alone.
LEMMA OutboxStepIsQueueStep == [OutboxNext]_outboxVars => [QueueNext]_queueVars
<1> SUFFICES ASSUME [OutboxNext]_outboxVars PROVE [QueueNext]_queueVars
  OBVIOUS
<1>1. CASE UNCHANGED outboxVars
  BY <1>1 DEF outboxVars
<1>2. ASSUME NEW d \in Dispatchers, NEW e \in Events, RelayRouted(d, e)
      PROVE  [QueueNext]_queueVars
  BY <1>2 DEF RelayRouted, QueueNext, Produce, queueVars, Events
<1>3. ASSUME NEW d \in Dispatchers,
             Claims(d) \/ Fails(d) \/ Exit(d) \/ Restart(d) \/ Requeue(d)
      PROVE  UNCHANGED queueVars
  BY <1>3 DEF Claims, ClaimSelect, ClaimCommit, Fails, ClaimRollback, ClaimUnacknowledged,
              RequeueThrows, Stop, Crash, Dies, Exit, Restart, Requeue
<1>4. ASSUME NEW d \in Dispatchers, NEW e \in Events, RelayUnknown(d, e) \/ RelayUnrouted(d, e)
      PROVE  UNCHANGED queueVars
  BY <1>4 DEF RelayUnknown, RelayUnrouted
<1>5. ASSUME NEW e \in Events, Publish(e) \/ Elapse(e)
      PROVE  UNCHANGED queueVars
  BY <1>5 DEF Publish, Elapse
<1> QED BY <1>1, <1>2, <1>3, <1>4, <1>5 DEF OutboxNext, Relays, QueueNext

LEMMA OutboxInvAlways == OutboxSafe => [](OutboxInv /\ QueueInv)
<1>1. OutboxInit => QueueInv
  BY QueueInvInit DEF OutboxInit
<1>2. QueueInv /\ [OutboxNext]_outboxVars => QueueInv'
  BY OutboxStepIsQueueStep, QueueInvStep
<1> QED BY <1>1, <1>2, OutboxInvInit, OutboxInvStep, PTL DEF OutboxSafe

-----------------------------------------------------------------------------
\* Type correctness, the bound on claims per row included.
THEOREM OutboxTypeCorrect == OutboxSafe => []OutboxTypeOK
  BY OutboxInvAlways, PTL DEF OutboxInv

\* Any number of dispatchers, stopping, crashing and restarting as they may, work on
\* disjoint sets of claimed rows.
THEOREM BatchesDisjoint == OutboxSafe => []DisjointBatches
  BY OutboxInvAlways, PTL DEF OutboxInv, WorkOK

\* A row is parked after exactly MaxAttempts claims, never earlier and never later.
THEOREM ParkedExactlyWhenExhausted == OutboxSafe => []ParkedWhenExhausted
  BY OutboxInvAlways, PTL DEF OutboxInv, RowsOK

\* However often an event is relayed again, its handler starts at most once more than
\* the stalls that are tolerated.
THEOREM RelayedHandlerStartsBounded == OutboxSafe => []StartsBounded
  BY OutboxInvAlways, PTL DEF QueueInv

-----------------------------------------------------------------------------
(* The outbox implements the abstract relay.                                 *)

Unwanted == Known \ Routed

\* The refinement mapping, one event at a time.
LEMMA FateOf ==
  ASSUME NEW e \in Events
  PROVE  /\ job[e] # "none" => fate[e] = "delivered"
         /\ job[e] = "none" /\ status[e] = "absent" => fate[e] = "unborn"
         /\ job[e] = "none" /\ status[e] = "DEAD_LETTERED" => fate[e] = "parked"
         /\ job[e] = "none" /\ status[e] = "PENDING" => fate[e] = "held"
         /\ job[e] = "none" /\ status[e] = "DISPATCHED" =>
              fate[e] = IF e \in InHands THEN "held"
                        ELSE IF e \in Unwanted THEN "acknowledged" ELSE "lost"
  BY DEF fate, Unwanted

\* A step that leaves the jobs, the rows and the hands alone does not change it.
LEMMA FateSame ==
  ASSUME UNCHANGED status, InHands' = InHands,
         \A e \in Events : job'[e] = "none" <=> job[e] = "none"
  PROVE  UNCHANGED fate
<1>1. \A e \in Events : fate'[e] = fate[e]
  BY DEF fate
<1>2. fate = [e \in Events |-> fate[e]] /\ fate' = [e \in Events |-> fate'[e]]
  BY DEF fate
<1> QED BY <1>1, <1>2

\* The abstract Release, event by event.
LEMMA ReleaseRule ==
  ASSUME NEW S \in SUBSET Events, NEW P \in SUBSET Events,
         \A e \in S \cup P : fate[e] = "held",
         S \subseteq Unwanted \/ (Faults # {} /\ MaxFaults > 0),
         P \cap Unwanted = {},
         \A e \in P : fate'[e] = "parked",
         \A e \in S \ P : fate'[e] = IF e \in Unwanted THEN "acknowledged" ELSE "lost",
         \A e \in Events \ (S \cup P) : fate'[e] = fate[e]
  PROVE  Relay!Release(S, P)
<1>1. fate' = [e \in Events |-> fate'[e]]
  BY DEF fate
<1>2. fate' = [e \in Events |->
                 CASE e \in P -> "parked"
                   [] e \in S \ P -> IF e \in Unwanted THEN "acknowledged" ELSE "lost"
                   [] OTHER -> fate[e]]
  BY <1>1
<1> QED BY <1>2 DEF Relay!Release, Unwanted

LEMMA HandsMember ==
  \A e : e \in InHands <=> \E d \in Dispatchers : e \in batch[d] \/ e \in failing[d]
  BY DEF InHands, Hands

LEMMA HandsMemberNext ==
  \A e : e \in InHands' <=> \E d \in Dispatchers : e \in batch'[d] \/ e \in failing'[d]
  BY DEF InHands, Hands

\* An insert is an accepted event.
LEMMA PublishRefines ==
  ASSUME NEW e \in Events, OutboxInv, Publish(e)
  PROVE  Relay!Accept(e)
<1>1. status[e] = "absent" /\ job[e] = "none" /\ status' = [status EXCEPT ![e] = "PENDING"]
  BY DEF Publish, OutboxInv, RowsOK
<1>2. InHands' = InHands /\ job' = job
  BY DEF Publish, InHands, Hands, queueVars
<1>3. status'[e] = "PENDING" /\ \A f \in Events \ {e} : status'[f] = status[f]
  BY <1>1 DEF OutboxInv, OutboxTypeOK
<1>4. fate[e] = "unborn" /\ fate'[e] = "held" /\ \A f \in Events \ {e} : fate'[f] = fate[f]
  BY <1>1, <1>2, <1>3 DEF fate
<1>5. fate = [f \in Events |-> fate[f]] /\ fate' = [f \in Events |-> fate'[f]]
  BY DEF fate
<1> QED BY <1>4, <1>5 DEF Relay!Accept, Relay!Moves

\* A claim that commits keeps its events held.
LEMMA ClaimCommitRefines ==
  ASSUME NEW d \in Dispatchers, OutboxInv, ClaimCommit(d)
  PROVE  UNCHANGED fate
<1>1. /\ picked[d] \subseteq Events /\ \A e \in picked[d] : status[e] = "PENDING"
      /\ batch' = [batch EXCEPT ![d] = picked[d]] /\ failing' = failing /\ job' = job
      /\ batch \in [Dispatchers -> SUBSET Events] /\ batch[d] = {}
  BY DEF ClaimCommit, OutboxInv, OutboxTypeOK, WorkOK, queueVars
<1>2. /\ \A e \in picked[d] : status'[e] = "DISPATCHED"
      /\ \A e \in Events \ picked[d] : status'[e] = status[e]
  BY <1>1 DEF ClaimCommit, MarkDispatched
<1>3. \A e \in Events : e \in InHands' <=> e \in InHands \/ e \in picked[d]
  BY <1>1, HandsMember, HandsMemberNext
<1>4. \A e \in Events : fate'[e] = fate[e]
  BY <1>1, <1>2, <1>3 DEF fate
<1>5. fate = [e \in Events |-> fate[e]] /\ fate' = [e \in Events |-> fate'[e]]
  BY DEF fate
<1> QED BY <1>4, <1>5

\* A claim that commits unanswered releases the rows that are not jobs already.
LEMMA ClaimUnacknowledgedRefines ==
  ASSUME NEW d \in Dispatchers, OutboxInv, ClaimUnacknowledged(d)
  PROVE  Relay!Release({e \in picked[d] : job[e] = "none"}, {})
<1> DEFINE S == {e \in picked[d] : job[e] = "none"}
<1>1. /\ picked[d] \subseteq Events /\ \A e \in picked[d] : status[e] = "PENDING" /\ e \notin InHands
      /\ UNCHANGED <<batch, failing, job>>
      /\ Faults # {} /\ MaxFaults > 0
  BY HandsMember, OutboxAssumption
  DEF ClaimUnacknowledged, OutboxInv, OutboxTypeOK, WorkOK, DisjointBatches, Hands, Fault,
      queueVars, OutboxAssumption
<1>2. /\ \A e \in picked[d] : status'[e] = "DISPATCHED"
      /\ \A e \in Events \ picked[d] : status'[e] = status[e]
  BY <1>1 DEF ClaimUnacknowledged, MarkDispatched
<1>3. InHands' = InHands
  BY <1>1 DEF InHands, Hands
<1>4. \A e \in S : fate[e] = "held" /\ fate'[e] = IF e \in Unwanted THEN "acknowledged" ELSE "lost"
  BY <1>1, <1>2, <1>3 DEF fate, Unwanted
<1>5. \A e \in Events \ S : fate'[e] = fate[e]
  BY <1>1, <1>2, <1>3 DEF fate
<1>6. S \in SUBSET Events
  BY <1>1
<1> HIDE DEF S
<1>7. Relay!Release(S, {})
  BY <1>1, <1>4, <1>5, <1>6, ReleaseRule
<1> QED BY <1>7 DEF S

\* The loop: an unknown event stays held, an unrouted one is acknowledged, a routed one
\* is delivered unless it had been before.
LEMMA RelayRefines ==
  ASSUME NEW d \in Dispatchers, NEW e \in Events, OutboxInv, QueueInv,
         RelayUnknown(d, e) \/ RelayUnrouted(d, e) \/ RelayRouted(d, e)
  PROVE  Relay!Release({e}, {}) \/ Relay!Deliver(e) \/ UNCHANGED fate
<1>1. /\ failing[d] = {} /\ e \in batch[d] /\ status' = status
      /\ batch' = [batch EXCEPT ![d] = @ \ {e}]
  BY DEF RelayUnknown, RelayUnrouted, RelayRouted, Reaches
<1>2. /\ status[e] = "DISPATCHED" /\ e \in InHands
      /\ \A c \in Dispatchers \ {d} : e \notin batch[c] /\ e \notin failing[c]
  BY <1>1, HandsMember DEF OutboxInv, WorkOK, DisjointBatches, Hands
<1>t. /\ batch \in [Dispatchers -> SUBSET Events] /\ failing \in [Dispatchers -> SUBSET Events]
      /\ job \in [Events -> JobState]
  BY DEF OutboxInv, OutboxTypeOK, QueueInv, QueueTypeOK, Events
<1>3. CASE failing' = [failing EXCEPT ![d] = {e}] /\ job' = job
  <2>1. \A f : f \in InHands' <=> f \in InHands
    BY <1>1, <1>3, <1>t, HandsMember, HandsMemberNext
  <2>2. InHands' = InHands
    BY <2>1
  <2> QED BY <1>1, <1>3, <2>2, FateSame
<1>4. CASE failing' = failing \/ failing' = [failing EXCEPT ![d] = {e}]
  <2>1. \A f : f # e => (f \in InHands' <=> f \in InHands)
    BY <1>1, <1>4, <1>t, HandsMember, HandsMemberNext
  <2>2. CASE job' = job /\ e \in Unwanted /\ failing' = failing
    <3>1. job[e] = "none" /\ e \notin InHands'
      BY <1>1, <1>2, <1>t, <2>2, HandsMemberNext DEF OutboxInv, RowsOK, Unwanted
    <3>2. fate[e] = "held" /\ fate'[e] = "acknowledged"
      BY <1>1, <1>2, <2>2, <3>1 DEF fate, Unwanted
    <3>3. \A f \in Events \ {e} : fate'[f] = fate[f]
      BY <1>1, <2>1, <2>2 DEF fate
    <3> QED BY <2>2, <3>2, <3>3, ReleaseRule
  <2>3. CASE e \in Routed /\ job' = [job EXCEPT ![e] = IF @ = "none" THEN "waiting" ELSE @]
    <3>1. job'[e] # "none" /\ \A f \in Events \ {e} : job'[f] = job[f]
      BY <1>t, <2>3
    <3>2. fate'[e] = "delivered" /\ (fate[e] = "delivered" \/ fate[e] = "held")
      BY <1>1, <1>2, <3>1 DEF fate
    <3>3. \A f \in Events \ {e} : fate'[f] = fate[f]
      BY <1>1, <2>1, <3>1 DEF fate
    <3>4. fate = [f \in Events |-> fate[f]] /\ fate' = [f \in Events |-> fate'[f]]
      BY DEF fate
    <3> QED BY <2>3, <3>2, <3>3, <3>4 DEF Relay!Deliver, Relay!Moves
  <2>4. \/ job' = job /\ e \in Unwanted /\ failing' = failing
        \/ job' = job /\ failing' = [failing EXCEPT ![d] = {e}]
        \/ e \in Routed /\ job' = [job EXCEPT ![e] = IF @ = "none" THEN "waiting" ELSE @]
    BY DEF RelayUnknown, RelayUnrouted, RelayRouted, Add, queueVars, Unwanted
  <2> QED BY <1>3, <2>2, <2>3, <2>4
<1> QED BY <1>4 DEF RelayUnknown, RelayUnrouted, RelayRouted

\* markFailed: the last one parks an event that is not a job.
LEMMA RequeueRefines ==
  ASSUME NEW d \in Dispatchers, OutboxInv, Requeue(d)
  PROVE  (\E e \in Events : Relay!Release({}, {e})) \/ UNCHANGED fate
<1>1. PICK e \in failing[d] : RequeueRow(e) /\ failing' = [failing EXCEPT ![d] = {}]
                             /\ UNCHANGED <<mode, picked, batch, faults, queueVars>>
  BY DEF Requeue
<1>2. /\ e \in Events /\ e \notin Unwanted /\ status[e] = "DISPATCHED" /\ e \in InHands
      /\ \A f \in failing[d] : f = e
      /\ status \in [Events -> RowStatus] /\ failing \in [Dispatchers -> SUBSET Events]
  BY HandsMember DEF OutboxInv, OutboxTypeOK, WorkOK, DisjointBatches, Hands, Unwanted
<1>3. /\ status'[e] = "DEAD_LETTERED" \/ status'[e] = "PENDING"
      /\ \A f \in Events \ {e} : status'[f] = status[f]
  BY <1>1, <1>2 DEF RequeueRow
<1>4. \A f : f # e => (f \in InHands' <=> f \in InHands)
  BY <1>1, <1>2, HandsMember, HandsMemberNext
<1>5. job' = job
  BY <1>1 DEF queueVars
<1>6. \A f \in Events \ {e} : fate'[f] = fate[f]
  BY <1>3, <1>4, <1>5 DEF fate
<1>7. CASE fate'[e] = fate[e]
  <2>1. fate = [f \in Events |-> fate[f]] /\ fate' = [f \in Events |-> fate'[f]]
    BY DEF fate
  <2> QED BY <1>6, <1>7, <2>1
<1>8. CASE fate'[e] # fate[e]
  <2>1. fate[e] = "held" /\ fate'[e] = "parked"
    BY <1>2, <1>3, <1>5, <1>8 DEF fate
  <2>2. {e} \cap Unwanted = {}
    BY <1>2
  <2>3. Relay!Release({}, {e})
    BY <1>2, <1>6, <2>1, <2>2, ReleaseRule
  <2> QED BY <1>2, <2>3
<1> QED BY <1>7, <1>8

\* A dispatcher that forgets rows: the jobless ones leave the relay's hands, and the row
\* that markFailed was working on may have been requeued or parked.
LEMMA ForgetRefines ==
  ASSUME NEW d \in Dispatchers, OutboxInv, Faults # {}, MaxFaults > 0, job' = job,
         batch' = [batch EXCEPT ![d] = {}], failing' = [failing EXCEPT ![d] = {}],
         \/ status' = status
         \/ \E e \in failing[d] : RequeueRow(e)
  PROVE  \E S, P \in SUBSET Events : Relay!Release(S, P)
<1> DEFINE Dropped == {e \in Hands(d) : job[e] = "none"}
           S == {e \in Dropped : status'[e] = "DISPATCHED"}
           P == {e \in Dropped : status'[e] = "DEAD_LETTERED"}
<1>1. /\ batch \in [Dispatchers -> SUBSET Events] /\ failing \in [Dispatchers -> SUBSET Events]
      /\ status \in [Events -> RowStatus]
  BY DEF OutboxInv, OutboxTypeOK
<1>2. \A e \in Hands(d) : e \in Events /\ status[e] = "DISPATCHED" /\ e \in InHands /\ e \notin InHands'
  BY <1>1, HandsMember, HandsMemberNext DEF OutboxInv, WorkOK, DisjointBatches, Hands
<1>3. \A e : e \notin Hands(d) => (e \in InHands' <=> e \in InHands)
  BY <1>1, HandsMember, HandsMemberNext DEF Hands
<1>4. /\ \A e \in Hands(d) :
           \/ status'[e] = "DISPATCHED"
           \/ e \notin Unwanted /\ status'[e] \in {"DEAD_LETTERED", "PENDING"}
      /\ \A e \in Events \ Hands(d) : status'[e] = status[e]
  BY <1>1, <1>2 DEF RequeueRow, Hands, Unwanted, OutboxInv, WorkOK
<1>5. S \in SUBSET Events /\ P \in SUBSET Events /\ P \cap Unwanted = {} /\ S \cap P = {}
  BY <1>2, <1>4
<1>6. \A e \in S \cup P : fate[e] = "held"
  BY <1>2 DEF fate
<1>7. \A e \in P : fate'[e] = "parked"
  BY <1>2 DEF fate
<1>8. \A e \in S : fate'[e] = IF e \in Unwanted THEN "acknowledged" ELSE "lost"
  BY <1>2 DEF fate, Unwanted
<1>9. \A e \in Events \ (S \cup P) : fate'[e] = fate[e]
  <2> SUFFICES ASSUME NEW e \in Events, e \notin S \cup P PROVE fate'[e] = fate[e]
    OBVIOUS
  <2>1. CASE e \notin Hands(d)
    BY <1>3, <1>4, <2>1 DEF fate
  <2>2. CASE e \in Hands(d) /\ job[e] # "none"
    BY <2>2 DEF fate
  <2>3. CASE e \in Hands(d) /\ job[e] = "none" /\ status'[e] = "PENDING"
    BY <1>2, <2>3 DEF fate
  <2> QED BY <1>4, <2>1, <2>2, <2>3
<1> HIDE DEF S, P
<1>10. Relay!Release(S, P)
  BY <1>5, <1>6, <1>7, <1>8, <1>9, ReleaseRule
<1> QED BY <1>5, <1>10

\* Every step of the outbox is a step of the relay, or changes nothing it can see.
LEMMA OutboxStepRefines == OutboxInv /\ QueueInv /\ [OutboxNext]_outboxVars => [Relay!Next]_fate
<1> SUFFICES ASSUME OutboxInv, QueueInv, [OutboxNext]_outboxVars PROVE [Relay!Next]_fate
  OBVIOUS
<1>n. \A S, P \in SUBSET Events : Relay!Release(S, P) => Relay!Next
  BY DEF Relay!Next
<1>1. CASE UNCHANGED outboxVars
  BY <1>1, FateSame DEF outboxVars, relayVars, queueVars, InHands, Hands
<1>2. ASSUME NEW e \in Events, Publish(e) PROVE [Relay!Next]_fate
  BY <1>2, PublishRefines DEF Relay!Next
<1>3. ASSUME NEW d \in Dispatchers, ClaimUnacknowledged(d) PROVE [Relay!Next]_fate
  <2>1. {e \in picked[d] : job[e] = "none"} \in SUBSET Events
    BY DEF OutboxInv, OutboxTypeOK
  <2>2. Relay!Release({e \in picked[d] : job[e] = "none"}, {})
    BY <1>3, ClaimUnacknowledgedRefines
  <2>3. {} \in SUBSET Events
    OBVIOUS
  <2> HIDE DEF Relay!Release
  <2>4. Relay!Next
    BY ONLY <1>n, <2>1, <2>2, <2>3
  <2> QED BY <2>4
<1>4. ASSUME NEW d \in Dispatchers, NEW e \in Events,
             RelayUnknown(d, e) \/ RelayUnrouted(d, e) \/ RelayRouted(d, e)
      PROVE  [Relay!Next]_fate
  <2>1. {e} \in SUBSET Events /\ {} \in SUBSET Events
    OBVIOUS
  <2>2. Relay!Deliver(e) => Relay!Next
    BY DEF Relay!Next
  <2> QED BY <1>4, <1>n, <2>1, <2>2, RelayRefines
<1>5. ASSUME NEW d \in Dispatchers, Requeue(d) PROVE [Relay!Next]_fate
  <2>1. \A e \in Events : {e} \in SUBSET Events /\ {} \in SUBSET Events
    OBVIOUS
  <2> QED BY <1>5, <1>n, <2>1, RequeueRefines
<1>6. ASSUME NEW d \in Dispatchers, RequeueThrows(d) \/ Exit(d) \/ Crash(d) PROVE [Relay!Next]_fate
  <2>1. Faults # {} /\ MaxFaults > 0
    BY <1>6, OutboxAssumption
    DEF RequeueThrows, Exit, Crash, Fault, OutboxInv, FaultsOK, OutboxTypeOK, OutboxAssumption
  <2>2. /\ job' = job
        /\ batch' = [batch EXCEPT ![d] = {}] /\ failing' = [failing EXCEPT ![d] = {}]
        /\ status' = status \/ \E e \in failing[d] : RequeueRow(e)
    BY <1>6 DEF RequeueThrows, Exit, Crash, Dies, queueVars
  <2> QED BY <2>1, <2>2, <1>n, ForgetRefines
<1>7. ASSUME NEW d \in Dispatchers, ClaimCommit(d) PROVE [Relay!Next]_fate
  BY <1>7, ClaimCommitRefines
<1>8. ASSUME NEW d \in Dispatchers, ClaimSelect(d) \/ ClaimRollback(d) \/ Stop(d) \/ Restart(d)
      PROVE  [Relay!Next]_fate
  <2>1. UNCHANGED <<status, batch, failing, job>>
    BY <1>8 DEF ClaimSelect, ClaimRollback, Stop, Restart, queueVars
  <2>2. InHands' = InHands
    BY <2>1 DEF InHands, Hands
  <2> QED BY <2>1, <2>2, FateSame
<1>9. ASSUME NEW e \in Events, Elapse(e) PROVE [Relay!Next]_fate
  BY <1>9, FateSame DEF Elapse, queueVars, InHands, Hands
<1>10. ASSUME NEW j \in Jobs, Consume(j), UNCHANGED relayVars PROVE [Relay!Next]_fate
  <2>1. UNCHANGED <<status, batch, failing>>
    BY <1>10 DEF relayVars
  <2>2. InHands' = InHands
    BY <2>1 DEF InHands, Hands
  <2>3. \A e \in Events : job'[e] = "none" <=> job[e] = "none"
    BY <1>10, ConsumeEffect DEF QueueInv, Events
  <2> QED BY <2>1, <2>2, <2>3, FateSame
<1> QED BY <1>1, <1>2, <1>3, <1>4, <1>5, <1>6, <1>7, <1>8, <1>9, <1>10
        DEF OutboxNext, Claims, Relays, Fails

\* The outbox, with any faults, implements the abstract relay: it forgets, repeats and
\* revives no event, and loses one only if faults happen at all.
THEOREM OutboxImplementsRelay == OutboxSafe => RelaySpec
<1>1. OutboxInit => Relay!Init
  <2> SUFFICES ASSUME OutboxInit PROVE Relay!Init
    OBVIOUS
  <2>1. \A e \in Events : fate[e] = "unborn"
    BY FateOf DEF OutboxInit, QueueInit, Events
  <2>2. fate = [e \in Events |-> fate[e]]
    BY DEF fate
  <2> QED BY <2>1, <2>2 DEF Relay!Init
<1> QED BY <1>1, OutboxInvAlways, OutboxStepRefines, PTL DEF OutboxSafe, RelaySpec, Relay!Spec
-----------------------------------------------------------------------------
(* What faults may cost.                                                     *)

Stopping == {d \in Dispatchers : mode[d] = "stopping"}

\* A set of at most BatchSize rows.
OneBatch(S) == IsFiniteSet(S) /\ Cardinality(S) <= BatchSize

\* A process that was told to stop has spent its fault already, and may still lose the
\* batch it works on when it exits: that is set aside for it.
LossInv ==
  /\ \A d \in Dispatchers : OneBatch(picked[d]) /\ OneBatch(Hands(d))
  /\ IsFiniteSet(Stopping)
  /\ IsFiniteSet(Lost)
  /\ Cardinality(Lost) + BatchSize * Cardinality(Stopping) <= BatchSize * faults

\* A subset of a batch is at most a batch.
LEMMA WithinOneBatch ==
  ASSUME NEW S, NEW T \in SUBSET S, OneBatch(S)
  PROVE  OneBatch(T)
BY FS_Subset, FS_CardinalityType, OutboxAssumption DEF OneBatch, OutboxAssumption

\* What is lost and the processes that stop, counted.
LEMMA CountsAreNatural ==
  ASSUME LossInv
  PROVE  Cardinality(Lost) \in Nat /\ Cardinality(Stopping) \in Nat
BY FS_CardinalityType DEF LossInv

\* Nothing more is lost and nobody more stops.
LEMMA LossSame ==
  ASSUME LossInv, OutboxTypeOK, Lost' \subseteq Lost, Stopping' \subseteq Stopping, faults' = faults
  PROVE  /\ IsFiniteSet(Lost') /\ IsFiniteSet(Stopping')
         /\ Cardinality(Lost') + BatchSize * Cardinality(Stopping') <= BatchSize * faults'
<1>1. /\ IsFiniteSet(Lost') /\ Cardinality(Lost') \in Nat /\ Cardinality(Lost') <= Cardinality(Lost)
      /\ IsFiniteSet(Stopping') /\ Cardinality(Stopping') \in Nat
      /\ Cardinality(Stopping') <= Cardinality(Stopping)
  BY FS_Subset, FS_CardinalityType DEF LossInv
<1>2. BatchSize * Cardinality(Stopping') <= BatchSize * Cardinality(Stopping)
  BY <1>1, CountsAreNatural, OutboxAssumption DEF OutboxAssumption
<1> QED
  BY <1>1, <1>2, CountsAreNatural, OutboxAssumption DEF LossInv, OutboxAssumption, OutboxTypeOK

\* What is lost grows by a batch at most.
LEMMA LostGrows ==
  ASSUME LossInv, NEW X, OneBatch(X), Lost' \subseteq Lost \cup X
  PROVE  /\ IsFiniteSet(Lost') /\ Cardinality(Lost') \in Nat
         /\ Cardinality(Lost') <= Cardinality(Lost) + BatchSize
<1>1. /\ IsFiniteSet(Lost \cup X) /\ Cardinality(Lost \cup X) \in Nat
      /\ Cardinality(Lost \cup X) <= Cardinality(Lost) + BatchSize
  <2>1. /\ Cardinality(Lost \cup X) = Cardinality(Lost) + Cardinality(X) - Cardinality(Lost \cap X)
        /\ IsFiniteSet(Lost \cup X)
    BY FS_Union DEF LossInv, OneBatch
  <2>2. Cardinality(Lost \cap X) \in Nat /\ Cardinality(X) \in Nat
    BY FS_Intersection, FS_CardinalityType DEF LossInv, OneBatch
  <2>3. Cardinality(X) <= BatchSize /\ BatchSize \in Nat
    BY OutboxAssumption DEF OneBatch, OutboxAssumption
  <2> QED
    BY <2>1, <2>2, <2>3, CountsAreNatural, FS_CardinalityType
<1>2. /\ IsFiniteSet(Lost') /\ Cardinality(Lost') \in Nat
      /\ Cardinality(Lost') <= Cardinality(Lost \cup X)
  BY <1>1, FS_Subset, FS_CardinalityType
<1> QED
  BY <1>1, <1>2, CountsAreNatural, OutboxAssumption DEF OutboxAssumption

\* A batch more is lost, and a fault more has happened.
LEMMA LossPaid ==
  ASSUME LossInv, OutboxTypeOK, NEW X, OneBatch(X), Lost' \subseteq Lost \cup X,
         Stopping' \subseteq Stopping, faults' = faults + 1
  PROVE  /\ IsFiniteSet(Lost') /\ IsFiniteSet(Stopping')
         /\ Cardinality(Lost') + BatchSize * Cardinality(Stopping') <= BatchSize * faults'
<1>1. /\ IsFiniteSet(Lost') /\ Cardinality(Lost') \in Nat
      /\ Cardinality(Lost') <= Cardinality(Lost) + BatchSize
  BY LostGrows
<1>2. /\ IsFiniteSet(Stopping') /\ Cardinality(Stopping') \in Nat
      /\ Cardinality(Stopping') <= Cardinality(Stopping)
  BY FS_Subset, FS_CardinalityType DEF LossInv
<1>3. /\ BatchSize * Cardinality(Stopping') <= BatchSize * Cardinality(Stopping)
      /\ BatchSize * faults' = BatchSize * faults + BatchSize
  BY <1>2, CountsAreNatural, OutboxAssumption DEF OutboxAssumption, OutboxTypeOK
<1> QED
  BY <1>1, <1>2, <1>3, CountsAreNatural, OutboxAssumption
  DEF LossInv, OutboxAssumption, OutboxTypeOK

\* A process that exits loses the batch that was set aside for it.
LEMMA LossSetAside ==
  ASSUME LossInv, OutboxTypeOK, NEW X, OneBatch(X), Lost' \subseteq Lost \cup X,
         NEW d \in Stopping, Stopping' \subseteq Stopping \ {d}, faults' = faults
  PROVE  /\ IsFiniteSet(Lost') /\ IsFiniteSet(Stopping')
         /\ Cardinality(Lost') + BatchSize * Cardinality(Stopping') <= BatchSize * faults'
<1>1. /\ IsFiniteSet(Lost') /\ Cardinality(Lost') \in Nat
      /\ Cardinality(Lost') <= Cardinality(Lost) + BatchSize
  BY LostGrows
<1>2. /\ IsFiniteSet(Stopping') /\ Cardinality(Stopping') \in Nat
      /\ Cardinality(Stopping') <= Cardinality(Stopping) - 1
  BY FS_RemoveElement, FS_Subset, FS_CardinalityType DEF LossInv
<1>3. BatchSize * Cardinality(Stopping') <= BatchSize * (Cardinality(Stopping) - 1)
  BY <1>2, CountsAreNatural, OutboxAssumption DEF OutboxAssumption
<1>4. BatchSize * (Cardinality(Stopping) - 1) = BatchSize * Cardinality(Stopping) - BatchSize
  BY CountsAreNatural, OutboxAssumption DEF OutboxAssumption
<1> QED
  BY <1>1, <1>2, <1>3, <1>4, CountsAreNatural, OutboxAssumption
  DEF LossInv, OutboxAssumption, OutboxTypeOK

\* A process that is told to stop sets a batch aside.
LEMMA LossOfStop ==
  ASSUME LossInv, OutboxTypeOK, Lost' \subseteq Lost,
         NEW d, Stopping' \subseteq Stopping \cup {d}, faults' = faults + 1
  PROVE  /\ IsFiniteSet(Lost') /\ IsFiniteSet(Stopping')
         /\ Cardinality(Lost') + BatchSize * Cardinality(Stopping') <= BatchSize * faults'
<1>1. /\ IsFiniteSet(Lost') /\ Cardinality(Lost') \in Nat /\ Cardinality(Lost') <= Cardinality(Lost)
  BY FS_Subset, FS_CardinalityType DEF LossInv
<1>2. /\ IsFiniteSet(Stopping') /\ Cardinality(Stopping') \in Nat
      /\ Cardinality(Stopping') <= Cardinality(Stopping) + 1
  <2>1. /\ IsFiniteSet(Stopping \cup {d})
        /\ Cardinality(Stopping \cup {d}) <= Cardinality(Stopping) + 1
    BY FS_AddElement, CountsAreNatural DEF LossInv
  <2>2. Cardinality(Stopping \cup {d}) \in Nat
    BY <2>1, FS_CardinalityType
  <2>3. /\ IsFiniteSet(Stopping') /\ Cardinality(Stopping') \in Nat
        /\ Cardinality(Stopping') <= Cardinality(Stopping \cup {d})
    BY <2>1, FS_Subset, FS_CardinalityType
  <2> QED BY <2>1, <2>2, <2>3, CountsAreNatural
<1>3. BatchSize * Cardinality(Stopping') <= BatchSize * (Cardinality(Stopping) + 1)
  BY <1>2, CountsAreNatural, OutboxAssumption DEF OutboxAssumption
<1>4. /\ BatchSize * (Cardinality(Stopping) + 1) = BatchSize * Cardinality(Stopping) + BatchSize
      /\ BatchSize * faults' = BatchSize * faults + BatchSize
  BY CountsAreNatural, OutboxAssumption DEF OutboxAssumption, OutboxTypeOK
<1> QED
  BY <1>1, <1>2, <1>3, <1>4, CountsAreNatural, OutboxAssumption
  DEF LossInv, OutboxAssumption, OutboxTypeOK

\* A row is newly lost only where a step takes it out of every hand.
LEMMA LostWithin ==
  ASSUME NEW X,
         \A e \in Events : /\ status'[e] = "DISPATCHED" /\ job'[e] = "none" /\ e \notin InHands'
                         => \/ status[e] = "DISPATCHED" /\ job[e] = "none" /\ e \notin InHands
                            \/ e \in X
  PROVE  Lost' \subseteq Lost \cup X
BY DEF Lost

\* The batches of the dispatchers stay batches.
LEMMA BatchesStayBatches ==
  ASSUME OutboxInv, LossInv, OutboxInv', [OutboxNext]_outboxVars
  PROVE  \A d \in Dispatchers : OneBatch(picked'[d]) /\ OneBatch(Hands(d)')
<1> SUFFICES ASSUME NEW d \in Dispatchers PROVE OneBatch(picked'[d]) /\ OneBatch(Hands(d)')
  OBVIOUS
<1>e. OneBatch({})
  BY FS_EmptySet, OutboxAssumption DEF OneBatch, OutboxAssumption
<1>1. OneBatch(picked[d]) /\ OneBatch(Hands(d))
  BY DEF LossInv
<1>t. picked \in [Dispatchers -> SUBSET Events] /\ batch \in [Dispatchers -> SUBSET Events]
      /\ failing \in [Dispatchers -> SUBSET Events]
  BY DEF OutboxInv, OutboxTypeOK
<1>2. OneBatch(picked'[d])
  <2>1. ASSUME NEW c \in Dispatchers, ClaimSelect(c) PROVE OneBatch(picked'[d])
    <3>1. PICK S : OneBatch(S) /\ picked' = [picked EXCEPT ![c] = S]
      BY <2>1 DEF ClaimSelect, Oldest, OneBatch
    <3> QED BY <1>1, <1>t, <3>1
  <2>2. \/ \E c \in Dispatchers : ClaimSelect(c)
        \/ picked'[d] \in {{}, picked[d]}
    BY <1>t
    DEF OutboxNext, outboxVars, relayVars, Publish, Elapse, Claims, ClaimCommit, Relays,
        RelayUnknown, RelayUnrouted, RelayRouted, Requeue, Fails, ClaimRollback,
        ClaimUnacknowledged, RequeueThrows, Stop, Crash, Exit, Dies, Restart
  <2> QED BY <1>1, <1>e, <2>1, <2>2
<1>3. \/ Hands(d)' \subseteq Hands(d)
      \/ Hands(d)' = picked[d]
  <2>1. ASSUME NEW c \in Dispatchers, ClaimCommit(c)
        PROVE  Hands(d)' = Hands(d) \/ Hands(d)' = picked[d]
    BY <1>t, <2>1 DEF ClaimCommit, Hands, OutboxInv, WorkOK
  <2>2. ASSUME NEW c \in Dispatchers, NEW e \in Events,
               RelayUnknown(c, e) \/ RelayUnrouted(c, e) \/ RelayRouted(c, e)
        PROVE  Hands(d)' \subseteq Hands(d)
    BY <1>t, <2>2 DEF RelayUnknown, RelayUnrouted, RelayRouted, Reaches, Hands
  <2>3. ASSUME NEW c \in Dispatchers,
               Requeue(c) \/ RequeueThrows(c) \/ Exit(c) \/ Crash(c)
        PROVE  Hands(d)' \subseteq Hands(d)
    BY <1>t, <2>3 DEF Requeue, RequeueThrows, Exit, Crash, Dies, Hands
  <2>4. ASSUME NEW c \in Dispatchers,
               ClaimSelect(c) \/ ClaimRollback(c) \/ ClaimUnacknowledged(c) \/ Stop(c) \/ Restart(c)
        PROVE  Hands(d)' = Hands(d)
    BY <2>4 DEF ClaimSelect, ClaimRollback, ClaimUnacknowledged, Stop, Restart, Hands
  <2>5. ASSUME \/ UNCHANGED outboxVars
               \/ \E e \in Events : Publish(e) \/ Elapse(e)
               \/ UNCHANGED relayVars
        PROVE  Hands(d)' = Hands(d)
    BY <2>5 DEF outboxVars, relayVars, Publish, Elapse, Hands
  <2> QED BY <2>1, <2>2, <2>3, <2>4, <2>5 DEF OutboxNext, Claims, Relays, Fails
<1>4. OneBatch(Hands(d)')
  BY <1>1, <1>3, WithinOneBatch
<1> QED BY <1>2, <1>4

\* The losses of a step are within the batch it drops, and a fault or an exit pays for it.
LEMMA LossStep ==
  ASSUME OutboxInv, QueueInv, LossInv, [OutboxNext]_outboxVars
  PROVE  /\ IsFiniteSet(Lost') /\ IsFiniteSet(Stopping')
         /\ Cardinality(Lost') + BatchSize * Cardinality(Stopping') <= BatchSize * faults'
<1> DEFINE Goal == /\ IsFiniteSet(Lost') /\ IsFiniteSet(Stopping')
                   /\ Cardinality(Lost') + BatchSize * Cardinality(Stopping') <= BatchSize * faults'
<1>t. /\ OutboxTypeOK
      /\ batch \in [Dispatchers -> SUBSET Events] /\ failing \in [Dispatchers -> SUBSET Events]
      /\ mode \in [Dispatchers -> Mode] /\ job \in [Events -> JobState]
      /\ status \in [Events -> RowStatus]
  BY DEF OutboxInv, OutboxTypeOK, QueueInv, QueueTypeOK, Events
<1>1. ASSUME UNCHANGED outboxVars PROVE Goal
  <2>1. Lost' \subseteq Lost /\ Stopping' \subseteq Stopping /\ faults' = faults
    BY <1>1 DEF outboxVars, relayVars, queueVars, Lost, InHands, Hands, Stopping
  <2> QED BY <1>t, <2>1, LossSame
<1>2. ASSUME NEW e \in Events, Publish(e) \/ Elapse(e) PROVE Goal
  <2>1. /\ InHands' = InHands /\ job' = job /\ faults' = faults /\ Stopping' = Stopping
        /\ \A f \in Events : status'[f] = "DISPATCHED" => status[f] = "DISPATCHED"
    BY <1>2, <1>t DEF Publish, Elapse, InHands, Hands, queueVars, Stopping
  <2>2. Lost' \subseteq Lost
    BY <2>1 DEF Lost
  <2> QED BY <1>t, <2>1, <2>2, LossSame
<1>3. ASSUME NEW d \in Dispatchers, ClaimSelect(d) \/ ClaimRollback(d) PROVE Goal
  <2>1. Lost' = Lost /\ Stopping' = Stopping /\ (faults' = faults \/ faults' = faults + 1)
    BY <1>3 DEF ClaimSelect, ClaimRollback, Fault, Lost, InHands, Hands, queueVars, Stopping
  <2>2. Lost' \subseteq Lost \cup {} /\ OneBatch({})
    BY <2>1, FS_EmptySet, OutboxAssumption DEF OneBatch, OutboxAssumption
  <2> QED BY <1>t, <2>1, <2>2, LossSame, LossPaid
<1>4. ASSUME NEW d \in Dispatchers, ClaimCommit(d) PROVE Goal
  <2>1. /\ picked[d] \subseteq Events /\ job' = job /\ faults' = faults /\ mode' = mode
        /\ batch' = [batch EXCEPT ![d] = picked[d]] /\ failing' = failing
        /\ batch[d] = {} /\ picked[d] # {}
    BY <1>4 DEF ClaimCommit, OutboxInv, OutboxTypeOK, WorkOK, queueVars
  <2>2. \A e \in Events \ picked[d] : status'[e] = status[e]
    BY <1>4 DEF ClaimCommit, MarkDispatched
  <2>3. \A e \in Events : e \in InHands' <=> e \in InHands \/ e \in picked[d]
    BY <1>t, <2>1, HandsMember, HandsMemberNext
  <2>4. Lost' \subseteq Lost /\ Stopping' = Stopping
    BY <2>1, <2>2, <2>3 DEF Lost, Stopping
  <2> QED BY <1>t, <2>1, <2>4, LossSame
<1>5. ASSUME NEW d \in Dispatchers, ClaimUnacknowledged(d) PROVE Goal
  <2>1. /\ picked[d] \subseteq Events /\ job' = job /\ faults' = faults + 1
        /\ InHands' = InHands /\ Stopping' = Stopping
    BY <1>5 DEF ClaimUnacknowledged, Fault, OutboxInv, OutboxTypeOK, InHands, Hands, Stopping, queueVars
  <2>2. \A e \in Events \ picked[d] : status'[e] = status[e]
    BY <1>5 DEF ClaimUnacknowledged, MarkDispatched
  <2>3. Lost' \subseteq Lost \cup picked[d]
    BY <2>1, <2>2, LostWithin
  <2>4. OneBatch(picked[d])
    BY DEF LossInv
  <2> QED BY <1>t, <2>1, <2>3, <2>4, LossPaid
<1>6. ASSUME NEW d \in Dispatchers, NEW e \in Events,
             RelayUnknown(d, e) \/ RelayUnrouted(d, e) \/ RelayRouted(d, e)
      PROVE  Goal
  <2>1. /\ UNCHANGED <<status, faults, mode>>
        /\ batch' = [batch EXCEPT ![d] = @ \ {e}]
        /\ failing[d] = {}
        /\ failing' = failing \/ failing' = [failing EXCEPT ![d] = {e}]
        /\ \A f \in Events : job'[f] = "none" => job[f] = "none"
        /\ e \in Known \ Routed \/ job'[e] # "none" \/ failing' = [failing EXCEPT ![d] = {e}]
    BY <1>6, <1>t DEF RelayUnknown, RelayUnrouted, RelayRouted, Reaches, Add, queueVars
  <2>2. \A f \in Events : f # e \/ failing' = [failing EXCEPT ![d] = {e}]
                         => (f \in InHands => f \in InHands')
    BY <1>t, <2>1, HandsMember, HandsMemberNext
  <2>3. Lost' \subseteq Lost /\ Stopping' = Stopping
    BY <1>t, <2>1, <2>2, HandsMemberNext DEF Lost, Stopping
  <2> QED BY <1>t, <2>1, <2>3, LossSame
<1>7. ASSUME NEW d \in Dispatchers, Requeue(d) PROVE Goal
  <2>1. PICK e \in failing[d] : RequeueRow(e) /\ failing' = [failing EXCEPT ![d] = {}]
                               /\ UNCHANGED <<mode, picked, batch, faults, queueVars>>
    BY <1>7 DEF Requeue
  <2>2. /\ e \in Events /\ \A f \in failing[d] : f = e
    BY <1>t DEF OutboxInv, WorkOK
  <2>3. /\ status'[e] # "DISPATCHED"
        /\ \A f \in Events \ {e} : status'[f] = status[f]
    BY <1>t, <2>1, <2>2 DEF RequeueRow
  <2>4. \A f : f # e => (f \in InHands' <=> f \in InHands)
    BY <1>t, <2>1, <2>2, HandsMember, HandsMemberNext
  <2>5. Lost' \subseteq Lost /\ Stopping' = Stopping /\ faults' = faults
    BY <2>1, <2>3, <2>4 DEF Lost, Stopping, queueVars
  <2> QED BY <1>t, <2>5, LossSame
<1>8. ASSUME NEW d \in Dispatchers, RequeueThrows(d) \/ Exit(d) \/ Crash(d) PROVE Goal
  <2>1. /\ job' = job
        /\ batch' = [batch EXCEPT ![d] = {}] /\ failing' = [failing EXCEPT ![d] = {}]
        /\ status' = status \/ \E e \in failing[d] : RequeueRow(e)
    BY <1>8 DEF RequeueThrows, Exit, Crash, Dies, queueVars
  <2>2. \A e \in Events \ Hands(d) : status'[e] = status[e]
    BY <1>t, <2>1 DEF RequeueRow, Hands
  <2>3. \A e \in Events \ Hands(d) : e \in InHands => e \in InHands'
    BY <1>t, <2>1, HandsMember, HandsMemberNext DEF Hands
  <2>4. Lost' \subseteq Lost \cup Hands(d)
    BY <2>1, <2>2, <2>3, LostWithin
  <2>5. OneBatch(Hands(d))
    BY DEF LossInv
  <2>6. CASE Exit(d)
    <3>1. d \in Stopping /\ Stopping' \subseteq Stopping \ {d} /\ faults' = faults
      BY <1>t, <2>6 DEF Exit, Dies, Stopping, Mode
    <3> QED BY <1>t, <2>4, <2>5, <3>1, LossSetAside
  <2>7. CASE RequeueThrows(d) \/ Crash(d)
    <3>1. Stopping' \subseteq Stopping /\ faults' = faults + 1
      BY <1>t, <2>7 DEF RequeueThrows, Crash, Dies, Fault, Stopping
    <3> QED BY <1>t, <2>4, <2>5, <3>1, LossPaid
  <2> QED BY <1>8, <2>6, <2>7
<1>9. ASSUME NEW d \in Dispatchers, Stop(d) \/ Restart(d) PROVE Goal
  <2>1. Lost' \subseteq Lost
    BY <1>9 DEF Stop, Restart, Lost, InHands, Hands, queueVars
  <2>2. CASE Stop(d)
    <3>1. Stopping' \subseteq Stopping \cup {d} /\ faults' = faults + 1
      BY <1>t, <2>2 DEF Stop, Fault, Stopping
    <3> QED BY <1>t, <2>1, <3>1, LossOfStop
  <2>3. CASE Restart(d)
    <3>1. Stopping' \subseteq Stopping /\ faults' = faults
      BY <1>t, <2>3 DEF Restart, Stopping
    <3> QED BY <1>t, <2>1, <3>1, LossSame
  <2> QED BY <1>9, <2>2, <2>3
<1>10. ASSUME NEW j \in Jobs, Consume(j), UNCHANGED relayVars PROVE Goal
  <2>1. \A e \in Events : job'[e] = "none" <=> job[e] = "none"
    BY <1>10, ConsumeEffect DEF QueueInv, Events
  <2>2. Lost' \subseteq Lost /\ Stopping' \subseteq Stopping /\ faults' = faults
    BY <1>10, <2>1 DEF relayVars, Lost, InHands, Hands, Stopping
  <2> QED BY <1>t, <2>2, LossSame
<1> QED BY <1>1, <1>2, <1>3, <1>4, <1>5, <1>6, <1>7, <1>8, <1>9, <1>10
        DEF OutboxNext, Claims, Relays, Fails

\* Nothing is lost, and nobody stops, before the first event.
LEMMA LossInit == OutboxInit => LossInv
<1> SUFFICES ASSUME OutboxInit PROVE LossInv
  OBVIOUS
<1>1. Lost = {} /\ Stopping = {}
  BY DEF OutboxInit, Lost, Stopping
<1>2. \A d \in Dispatchers : picked[d] = {} /\ Hands(d) = {}
  BY DEF OutboxInit, Hands
<1> QED
  BY <1>1, <1>2, FS_EmptySet, OutboxAssumption
  DEF OutboxInit, LossInv, OneBatch, OutboxAssumption

\* However many dispatchers there are and however their faults, stops and restarts fall,
\* one fault costs at most the batch it interrupts.
THEOREM LossIsBounded == OutboxSafe => []LossBounded
<1>1. OutboxInv /\ QueueInv /\ OutboxInv' /\ LossInv /\ [OutboxNext]_outboxVars => LossInv'
  BY BatchesStayBatches, LossStep DEF LossInv
<1>2. OutboxInv /\ LossInv => LossBounded
  <2> SUFFICES ASSUME OutboxInv, LossInv PROVE Cardinality(Lost) <= BatchSize * faults
    BY DEF LossBounded
  <2>1. BatchSize * Cardinality(Stopping) >= 0 /\ BatchSize * faults \in Nat
    BY CountsAreNatural, OutboxAssumption DEF OutboxAssumption, OutboxInv, OutboxTypeOK
  <2> QED BY <2>1, CountsAreNatural, OutboxAssumption DEF LossInv, OutboxAssumption
<1> QED BY <1>1, <1>2, LossInit, OutboxInvAlways, PTL DEF OutboxSafe

-----------------------------------------------------------------------------
(* Social posts.                                                             *)

\* The types hold at the start.
LEMMA SocialTypeInit == SocialInit => PublishTypeOK
  BY SocialAssumption
  DEF SocialInit, PublishTypeOK, SocialAssumption, PostStatus, TargetStatus, SocialMode, Step

\* A post's status and the time of its last write keep their types.
LEMMA SetPostTypes ==
  ASSUME PublishTypeOK, NEW p \in Posts, NEW to \in PostStatus, SetPost(p, to)
  PROVE  post' \in [Posts -> PostStatus] /\ stale' \in [Posts -> BOOLEAN]
  BY DEF PublishTypeOK, SetPost

\* A target's status keeps its type, and only that one changes.
LEMMA SetTargetTypes ==
  ASSUME PublishTypeOK, NEW p \in Posts, NEW t \in Targets, NEW to \in TargetStatus,
         SetTarget(p, t, to)
  PROVE  /\ target' \in [Posts -> [Targets -> TargetStatus]]
         /\ \A q \in Posts, u \in Targets :
              target'[q][u] = IF q = p /\ u = t THEN to ELSE target[q][u]
<1> DEFINE row == [target[p] EXCEPT ![t] = to]
<1>1. row \in [Targets -> TargetStatus]
  BY DEF PublishTypeOK
<1>2. target' = [target EXCEPT ![p] = row]
  BY DEF SetTarget
<1>3. \A u \in Targets : row[u] = IF u = t THEN to ELSE target[p][u]
  BY DEF PublishTypeOK
<1> HIDE DEF row
<1> QED
  BY <1>1, <1>2, <1>3 DEF PublishTypeOK

\* A live post counts once more, there and nowhere else.
LEMMA GoesLiveTypes ==
  ASSUME PublishTypeOK, NEW w \in Workers, NEW t \in Targets, at[w] \in Posts, GoesLive(w, t)
  PROVE  /\ published' \in [Posts -> [Targets -> Nat]]
         /\ \A q \in Posts, u \in Targets :
              published'[q][u] =
                IF q = at[w] /\ u = t THEN published[q][u] + 1 ELSE published[q][u]
<1> DEFINE row == [published[at[w]] EXCEPT ![t] = @ + 1]
<1>1. published[at[w]] \in [Targets -> Nat] /\ published[at[w]][t] \in Nat
  BY DEF PublishTypeOK
<1>2. published[at[w]][t] + 1 \in Nat
  BY <1>1
<1>3. row \in [Targets -> Nat]
  BY <1>1, <1>2
<1>4. published' = [published EXCEPT ![at[w]] = row]
  BY DEF GoesLive
<1>5. \A u \in Targets :
        row[u] = IF u = t THEN published[at[w]][u] + 1 ELSE published[at[w]][u]
  BY <1>1
<1> HIDE DEF row
<1> QED
  BY <1>3, <1>4, <1>5 DEF PublishTypeOK

\* A fault keeps the number of them bounded.
LEMMA FaultTypes ==
  ASSUME PublishTypeOK, NEW kind, SocialFault(kind)
  PROVE  socialFaults' = socialFaults + 1 /\ socialFaults' \in 0..MaxSocialTrouble
  BY SocialAssumption DEF SocialAssumption, PublishTypeOK, SocialFault

\* What requests and the clock do keeps the types.
LEMMA SocialTypeAsked ==
  ASSUME PublishTypeOK, NEW p \in Posts, Asked(p) \/ SocialElapse(p) \/ Ages(p)
  PROVE  PublishTypeOK'
<1>1. CASE CreatePost(p)
  <2>1. "SCHEDULED" \in PostStatus
    BY DEF PostStatus
  <2>2. post' \in [Posts -> PostStatus] /\ stale' \in [Posts -> BOOLEAN]
    BY <1>1, <2>1, SetPostTypes DEF CreatePost
  <2> QED
    BY <1>1, <2>2 DEF CreatePost, PublishTypeOK, requestVars, loopVars
<1>2. CASE FindToPublish(p) \/ FindToRemove(p)
  BY <1>2, SocialAssumption
  DEF FindToPublish, FindToRemove, PublishTypeOK, SocialAssumption, postVars, loopVars
<1>3. CASE PublishNow(p)
  <2>1. "SCHEDULED" \in PostStatus /\ "SCHEDULED" \in TargetStatus
    BY DEF PostStatus, TargetStatus
  <2>2. post' \in [Posts -> PostStatus] /\ stale' \in [Posts -> BOOLEAN]
    BY <1>3, <2>1, SetPostTypes DEF PublishNow
  <2>3. target' \in [Posts -> [Targets -> TargetStatus]]
    BY <1>3, <2>1 DEF PublishNow, PublishTypeOK
  <2> QED
    BY <1>3, <2>2, <2>3 DEF PublishNow, PublishTypeOK, loopVars
<1>4. CASE RemovePost(p)
  <2>1. "DELETED" \in PostStatus
    BY DEF PostStatus
  <2>2. post' \in [Posts -> PostStatus] /\ stale' \in [Posts -> BOOLEAN]
    BY <1>4, <2>1, SetPostTypes DEF RemovePost
  <2> QED
    BY <1>4, <2>2 DEF RemovePost, PublishTypeOK, loopVars
<1>5. CASE SocialElapse(p)
  BY <1>5 DEF SocialElapse, PublishTypeOK, requestVars, loopVars
<1>6. CASE Ages(p)
  <2>1. socialFaults' \in 0..MaxSocialTrouble
    BY <1>6, FaultTypes DEF Ages, PublishTypeOK
  <2> QED
    BY <1>6, <2>1 DEF Ages, PublishTypeOK, requestVars, loopVars
<1> QED
  BY <1>1, <1>2, <1>3, <1>4, <1>5, <1>6 DEF Asked

\* The steps of a tick keep the types.
LEMMA SocialTypeTicks ==
  ASSUME PublishTypeOK, NEW w \in Workers, Ticks(w)
  PROVE  PublishTypeOK'
<1>1. CASE ReclaimPosts(w)
  BY <1>1 DEF ReclaimPosts, PublishTypeOK, requestVars, PostStatus, Step
<1>2. CASE Poll(w)
  <2>1. Candidates \subseteq Posts
    BY DEF Candidates
  <2> QED
    BY <1>2, <2>1 DEF Poll, PublishTypeOK, postVars, requestVars, Step
<1>3. ASSUME NEW p \in Posts, Claim(w, p)
      PROVE  PublishTypeOK'
  <2>1. CASE post[p] = "SCHEDULED"
    <3>1. "PUBLISHING" \in PostStatus
      BY DEF PostStatus
    <3>2. post' \in [Posts -> PostStatus] /\ stale' \in [Posts -> BOOLEAN]
      BY <1>3, <2>1, <3>1, SetPostTypes DEF Claim
    <3>3. /\ todo' = [todo EXCEPT ![w] = @ \ {p}]
          /\ at' = [at EXCEPT ![w] = p] /\ pc' = [pc EXCEPT ![w] = "claimed"]
          /\ UNCHANGED <<left, current, anyFailed, deleted, dueNow, target, clicking, removing,
                         clicks, notices, socialMode, published, socialFaults>>
      BY <1>3, <2>1 DEF Claim, requestVars
    <3>4. p # NoPost
      BY SocialAssumption DEF SocialAssumption
    <3>5. \A v \in Workers : pc'[v] \notin {"idle", "polling", "loop"} <=> at'[v] # NoPost
      BY <3>3, <3>4 DEF PublishTypeOK
    <3>6. \A v \in Workers : pc'[v] = "notifying" => left'[v] = {}
      BY <3>3 DEF PublishTypeOK
    <3>7. todo' \in [Workers -> SUBSET Posts]
      BY <3>3 DEF PublishTypeOK
    <3>8. at' \in [Workers -> Posts \cup {NoPost}] /\ pc' \in [Workers -> Step]
      BY <3>3 DEF PublishTypeOK, Step
    <3> QED
      BY <3>2, <3>3, <3>5, <3>6, <3>7, <3>8 DEF PublishTypeOK
  <2>2. CASE post[p] # "SCHEDULED"
    BY <1>3, <2>2 DEF Claim, PublishTypeOK, requestVars, Step
  <2> QED
    BY <2>1, <2>2
<1>4. CASE Read(w)
  BY <1>4 DEF Read, PublishTypeOK, postVars, requestVars, Step
<1>5. ASSUME NEW t \in Targets, PublishTarget(w, t)
      PROVE  PublishTypeOK'
  <2>1. at[w] \in Posts
    BY <1>5 DEF PublishTarget, PublishTypeOK
  <2>2. published' \in [Posts -> [Targets -> Nat]]
    BY <1>5, <2>1, GoesLiveTypes DEF PublishTarget, PublishTypeOK
  <2> QED
    BY <1>5, <2>2 DEF PublishTarget, PublishTypeOK, postVars, requestVars, Step
<1>6. CASE MarkPublished(w) \/ MarkFailed(w)
  <2>1. PICK t \in current[w] :
          SetTarget(at[w], t, "PUBLISHED") \/ SetTarget(at[w], t, "FAILED")
    BY <1>6 DEF MarkPublished, MarkFailed
  <2>2. t \in Targets /\ at[w] \in Posts
    BY <1>6 DEF PublishTypeOK, MarkPublished, MarkFailed
  <2>3. target' \in [Posts -> [Targets -> TargetStatus]]
    BY <2>1, <2>2, SetTargetTypes DEF TargetStatus
  <2> QED
    BY <1>6, <2>3
    DEF MarkPublished, MarkFailed, NextTarget, PublishTypeOK, requestVars, Step
<1>7. CASE Finish(w)
  <2>1. at[w] \in Posts
    BY <1>7 DEF Finish, PublishTypeOK
  <2>2. post' \in [Posts -> PostStatus] /\ stale' \in [Posts -> BOOLEAN]
    BY <1>7, <2>1, SetPostTypes DEF Finish, PostStatus
  <2> QED
    BY <1>7, <2>2 DEF Finish, PublishTypeOK, requestVars, Step
<1>8. CASE Notify(w)
  <2>1. at[w] \in Posts
    BY <1>8 DEF Notify, PublishTypeOK
  <2>2. notices' \in [Posts -> SUBSET Level]
    <3> DEFINE more == notices[at[w]] \cup {IF anyFailed[w] THEN "ERROR" ELSE "INFO"}
    <3>1. more \in SUBSET Level
      BY <2>1 DEF PublishTypeOK, Level
    <3>2. notices' = [notices EXCEPT ![at[w]] = more] \/ UNCHANGED notices
      BY <1>8 DEF Notify
    <3> HIDE DEF more
    <3> QED
      BY <3>1, <3>2, <2>1 DEF PublishTypeOK
  <2>3. socialFaults' \in 0..MaxSocialTrouble
    BY <1>8, FaultTypes DEF Notify, PublishTypeOK
  <2> QED
    BY <1>8, <2>2, <2>3 DEF Notify, PublishTypeOK, postVars, requestVars, Step
<1> QED
  BY <1>1, <1>2, <1>3, <1>4, <1>5, <1>6, <1>7, <1>8 DEF Ticks

\* What fails, and the process around the tick, keeps the types.
LEMMA SocialTypeFails ==
  ASSUME PublishTypeOK, NEW w \in Workers,
         SocialFails(w) \/ SocialStop(w) \/ SocialExit(w) \/ SocialRestart(w)
  PROVE  PublishTypeOK'
<1>1. ASSUME NEW t \in Targets, AnswerLost(w, t)
      PROVE  PublishTypeOK'
  <2>1. at[w] \in Posts
    BY <1>1 DEF AnswerLost, PublishTypeOK
  <2>2. published' \in [Posts -> [Targets -> Nat]]
    BY <1>1, <2>1, GoesLiveTypes DEF AnswerLost
  <2>3. socialFaults' \in 0..MaxSocialTrouble
    BY <1>1, FaultTypes DEF AnswerLost
  <2> QED
    BY <1>1, <2>2, <2>3 DEF AnswerLost, PublishTypeOK, postVars, requestVars, Step
<1>2. CASE MarkPublishedFails(w)
  <2>1. PICK t \in current[w] : SetTarget(at[w], t, "PUBLISHED") \/ UNCHANGED target
    BY <1>2 DEF MarkPublishedFails
  <2>2. t \in Targets /\ at[w] \in Posts
    BY <1>2 DEF PublishTypeOK, MarkPublishedFails
  <2>3. target' \in [Posts -> [Targets -> TargetStatus]]
    BY <2>1, <2>2, SetTargetTypes DEF TargetStatus, PublishTypeOK
  <2>4. socialFaults' \in 0..MaxSocialTrouble
    BY <1>2, FaultTypes DEF MarkPublishedFails
  <2> QED
    BY <1>2, <2>3, <2>4 DEF MarkPublishedFails, PublishTypeOK, requestVars, Step
<1>3. CASE MarkFailedFails(w)
  <2>1. socialFaults' \in 0..MaxSocialTrouble
    BY <1>3, FaultTypes DEF MarkFailedFails
  <2> QED
    BY <1>3, <2>1
    DEF MarkFailedFails, NextTarget, PublishTypeOK, postVars, requestVars, Step
<1>4. CASE TickThrows(w)
  <2>1. at[w] \in Posts
    BY <1>4 DEF TickThrows, PublishTypeOK
  <2>2. socialFaults' \in 0..MaxSocialTrouble
    BY <1>4, FaultTypes DEF TickThrows
  <2>3. post' \in [Posts -> PostStatus] /\ stale' \in [Posts -> BOOLEAN]
    BY <1>4, <2>1, SetPostTypes DEF TickThrows, PostStatus, PublishTypeOK
  <2> QED
    BY <1>4, <2>2, <2>3 DEF TickThrows, Forget, PublishTypeOK, requestVars, Step
<1>5. CASE SocialExit(w) \/ SocialCrash(w)
  <2>1. socialFaults' \in 0..MaxSocialTrouble
    BY <1>5, FaultTypes DEF SocialExit, SocialCrash, PublishTypeOK
  <2> QED
    BY <1>5, <2>1
    DEF SocialExit, SocialCrash, SocialDies, Forget, PublishTypeOK, postVars, requestVars, Step,
        SocialMode
<1>6. CASE SocialStop(w) \/ SocialRestart(w)
  BY <1>6
  DEF SocialStop, SocialRestart, PublishTypeOK, postVars, requestVars, loopVars, SocialMode
<1> QED
  BY <1>1, <1>2, <1>3, <1>4, <1>5, <1>6 DEF SocialFails

\* Every step keeps the types.
LEMMA SocialTypeNext == PublishTypeOK /\ [SocialNext]_socialVars => PublishTypeOK'
<1> SUFFICES ASSUME PublishTypeOK, [SocialNext]_socialVars PROVE PublishTypeOK'
  OBVIOUS
<1>1. CASE UNCHANGED socialVars
  BY <1>1 DEF socialVars, PublishTypeOK, postVars, requestVars, loopVars
<1> QED
  BY <1>1, SocialTypeAsked, SocialTypeTicks, SocialTypeFails DEF SocialNext


-----------------------------------------------------------------------------
(* What is shown as published has been live.                                *)

\* Every target of the post a worker is at is still to be tried, is being tried or has
\* been live.
Covers(w) ==
  \A t \in Targets : t \in left[w] \/ t \in current[w] \/ published[at[w]][t] > 0

\* A worker holds only the target it has just tried; if that went live it was live; and
\* while nothing failed, it has left no target out.
HonestWorker(w) ==
  /\ pc[w] \notin {"live", "failed", "unavailable"} => current[w] = {}
  /\ pc[w] = "live" => \A t \in current[w] : published[at[w]][t] > 0
  /\ pc[w] \in {"targets", "live", "failed", "unavailable", "notifying"} /\ ~ anyFailed[w] =>
       Covers(w)

HonestInv == PublishTypeOK /\ (\A w \in Workers : HonestWorker(w)) /\ NoFalseSuccess

\* What the loops of the other workers know stays as it is.
OnlyLoop(w) ==
  \A v \in Workers \ {w} :
    /\ pc'[v] = pc[v] /\ at'[v] = at[v] /\ left'[v] = left[v]
    /\ current'[v] = current[v] /\ anyFailed'[v] = anyFailed[v]

\* No post gets fewer times live.
LiveGrows == \A p \in Posts, t \in Targets : published[p][t] > 0 => published'[p][t] > 0

\* A success is shown only where one was shown, or of what has been live.
ShowsNoMore ==
  /\ \A p \in Posts, t \in Targets :
       target'[p][t] = "PUBLISHED" => target[p][t] = "PUBLISHED" \/ published[p][t] > 0
  /\ \A p \in Posts :
       post'[p] = "PUBLISHED" \/ "INFO" \in notices'[p] =>
         \/ post[p] = "PUBLISHED" \/ "INFO" \in notices[p]
         \/ \A t \in Targets : published[p][t] > 0

\* The invariant holds at the start.
LEMMA HonestInit == SocialInit => HonestInv
  BY SocialTypeInit DEF SocialInit, HonestInv, HonestWorker, NoFalseSuccess

\* A step of one worker has to be looked at where that worker is.
LEMMA HonestStep ==
  ASSUME HonestInv, PublishTypeOK', NEW w \in Workers, OnlyLoop(w), LiveGrows, ShowsNoMore,
         HonestWorker(w)'
  PROVE  HonestInv'
<1>1. ASSUME NEW v \in Workers \ {w}
      PROVE  HonestWorker(v)'
  <2>1. HonestWorker(v)
    BY DEF HonestInv
  <2>2. /\ pc'[v] = pc[v] /\ at'[v] = at[v] /\ left'[v] = left[v]
        /\ current'[v] = current[v] /\ anyFailed'[v] = anyFailed[v]
    BY DEF OnlyLoop
  <2>3. pc[v] \in {"targets", "live", "failed", "unavailable", "notifying"} => at[v] \in Posts
    BY DEF HonestInv, PublishTypeOK
  <2>4. current[v] \subseteq Targets
    BY DEF HonestInv, PublishTypeOK
  <2> QED
    BY <2>1, <2>2, <2>3, <2>4 DEF HonestWorker, Covers, LiveGrows
<1>2. NoFalseSuccess'
  BY DEF HonestInv, NoFalseSuccess, LiveGrows, ShowsNoMore
<1> QED
  BY <1>1, <1>2 DEF HonestInv

\* Requests, the clock and the process around the loop show nothing new.
LEMMA HonestOutside ==
  ASSUME HonestInv, PublishTypeOK',
         \/ \E p \in Posts : Asked(p) \/ SocialElapse(p) \/ Ages(p)
         \/ \E w \in Workers : SocialStop(w) \/ SocialRestart(w)
         \/ UNCHANGED socialVars
  PROVE  HonestInv'
<1>1. UNCHANGED <<pc, at, left, current, anyFailed, published, notices>>
  BY DEF Asked, CreatePost, FindToPublish, PublishNow, FindToRemove, RemovePost, SocialElapse,
     Ages, SocialStop, SocialRestart, loopVars, socialVars
<1>2. ShowsNoMore
  <2>1. CASE UNCHANGED <<post, target>>
    BY <1>1, <2>1 DEF ShowsNoMore
  <2>2. ASSUME NEW p \in Posts, CreatePost(p) \/ PublishNow(p) \/ RemovePost(p)
        PROVE  ShowsNoMore
    <3>1. \A q \in Posts : post'[q] = "PUBLISHED" => post[q] = "PUBLISHED"
      BY <2>2 DEF HonestInv, PublishTypeOK, CreatePost, PublishNow, RemovePost, SetPost
    <3>2. \A q \in Posts, t \in Targets :
            target'[q][t] = "PUBLISHED" => target[q][t] = "PUBLISHED"
      <4>1. CASE UNCHANGED target
        BY <4>1
      <4>2. CASE PublishNow(p)
        <5>1. target' = [target EXCEPT ![p] = [t \in Targets |-> "SCHEDULED"]]
          BY <4>2 DEF PublishNow
        <5> QED
          BY <5>1 DEF HonestInv, PublishTypeOK
      <4> QED
        BY <2>2, <4>1, <4>2 DEF CreatePost, RemovePost
    <3> QED
      BY <1>1, <3>1, <3>2 DEF ShowsNoMore
  <2> QED
    BY <2>1, <2>2
    DEF Asked, FindToPublish, FindToRemove, SocialElapse, Ages, SocialStop, SocialRestart,
        postVars, socialVars
<1>3. NoFalseSuccess'
  BY <1>1, <1>2 DEF HonestInv, NoFalseSuccess, ShowsNoMore
<1> QED
  BY <1>1, <1>3 DEF HonestInv, HonestWorker, Covers

\* Where what is shown is as it was, and what has been live too, nothing new is shown.
LEMMA ShowsTheSame ==
  ASSUME UNCHANGED <<target, notices>>,
         UNCHANGED post \/ \A p \in Posts : post'[p] = "PUBLISHED" => post[p] = "PUBLISHED"
  PROVE  ShowsNoMore
  BY DEF ShowsNoMore

\* Before the targets are read, there is nothing a worker could say of them.
LEMMA HonestBefore ==
  ASSUME HonestInv, PublishTypeOK', NEW w \in Workers,
         ReclaimPosts(w) \/ Poll(w) \/ \E p \in Posts : Claim(w, p)
  PROVE  HonestInv'
<1>1. OnlyLoop(w)
  <2>1. CASE ReclaimPosts(w)
    BY <2>1 DEF HonestInv, PublishTypeOK, OnlyLoop, ReclaimPosts
  <2>2. CASE Poll(w)
    BY <2>2 DEF HonestInv, PublishTypeOK, OnlyLoop, Poll
  <2>3. ASSUME NEW p \in Posts, Claim(w, p)
        PROVE  OnlyLoop(w)
    <3>1. \A v \in Workers \ {w} : pc'[v] = pc[v] /\ at'[v] = at[v]
      BY <2>3 DEF HonestInv, PublishTypeOK, Claim
    <3>2. UNCHANGED <<left, current, anyFailed>>
      BY <2>3 DEF Claim
    <3> QED
      BY <3>1, <3>2 DEF OnlyLoop
  <2> QED
    BY <2>1, <2>2, <2>3
<1>2. LiveGrows
  BY DEF LiveGrows, ReclaimPosts, Poll, Claim
<1>3. ShowsNoMore
  <2>1. UNCHANGED <<target, notices>>
    BY DEF ReclaimPosts, Poll, Claim, postVars
  <2>2. \A p \in Posts : post'[p] = "PUBLISHED" => post[p] = "PUBLISHED"
    <3>1. CASE ReclaimPosts(w)
      BY <3>1 DEF ReclaimPosts
    <3>2. CASE Poll(w)
      BY <3>2 DEF Poll, postVars
    <3>3. ASSUME NEW p \in Posts, Claim(w, p)
          PROVE  \A q \in Posts : post'[q] = "PUBLISHED" => post[q] = "PUBLISHED"
      BY <3>3 DEF HonestInv, PublishTypeOK, Claim, SetPost
    <3> QED
      BY <3>1, <3>2, <3>3
  <2> QED
    BY <2>1, <2>2, ShowsTheSame
<1>4. HonestWorker(w)'
  <2>1. /\ pc[w] \in {"idle", "polling", "loop"}
        /\ pc'[w] \in {"idle", "polling", "loop", "claimed"} /\ current'[w] = current[w]
    BY DEF HonestInv, PublishTypeOK, ReclaimPosts, Poll, Claim
  <2> QED
    BY <2>1 DEF HonestInv, HonestWorker
<1> QED
  BY <1>1, <1>2, <1>3, <1>4, HonestStep

\* Read() leaves out only targets that have been live.
LEMMA HonestRead ==
  ASSUME HonestInv, PublishTypeOK', NEW w \in Workers, Read(w)
  PROVE  HonestInv'
<1>1. OnlyLoop(w)
  BY DEF HonestInv, PublishTypeOK, OnlyLoop, Read
<1>2. LiveGrows /\ ShowsNoMore
  BY DEF LiveGrows, ShowsNoMore, Read, postVars
<1>3. at[w] \in Posts
  BY DEF HonestInv, PublishTypeOK, Read
<1>4. /\ pc'[w] = "targets" /\ at'[w] = at[w] /\ current'[w] = current[w]
      /\ left'[w] = {t \in Targets : target[at[w]][t] # "PUBLISHED"}
      /\ published' = published
  BY DEF HonestInv, PublishTypeOK, Read
<1>5. current[w] = {}
  BY DEF HonestInv, HonestWorker, Read
<1>6. Covers(w)'
  BY <1>3, <1>4 DEF HonestInv, NoFalseSuccess, Covers
<1> QED
  BY <1>1, <1>2, <1>4, <1>5, <1>6, HonestStep DEF HonestWorker

\* A target that is tried is in hand, and has been live if it went live.
LEMMA HonestTry ==
  ASSUME HonestInv, PublishTypeOK', NEW w \in Workers, NEW t \in Targets,
         PublishTarget(w, t) \/ AnswerLost(w, t)
  PROVE  HonestInv'
<1>1. OnlyLoop(w)
  BY DEF HonestInv, PublishTypeOK, OnlyLoop, PublishTarget, AnswerLost
<1>2. at[w] \in Posts
  BY DEF HonestInv, PublishTypeOK, PublishTarget, AnswerLost
<1>3. published' = published \/ GoesLive(w, t)
  BY DEF PublishTarget, AnswerLost
<1>4. LiveGrows
  <2>1. PublishTypeOK /\ \A q \in Posts, u \in Targets : published[q][u] \in Nat
    BY DEF HonestInv, PublishTypeOK
  <2>2. \A q \in Posts, u \in Targets : published'[q][u] \in {published[q][u], published[q][u] + 1}
    BY <2>1, <1>2, <1>3, GoesLiveTypes
  <2> QED
    BY <2>1, <2>2 DEF LiveGrows
<1>5. ShowsNoMore
  BY DEF ShowsNoMore, PublishTarget, AnswerLost, postVars
<1>6. /\ pc'[w] \in {"live", "failed", "unavailable"} /\ at'[w] = at[w]
      /\ left'[w] = left[w] \ {t} /\ current'[w] = {t} /\ anyFailed'[w] = anyFailed[w]
  BY DEF HonestInv, PublishTypeOK, PublishTarget, AnswerLost
<1>7. pc'[w] = "live" => published'[at[w]][t] > 0
  <2> SUFFICES ASSUME pc'[w] = "live" PROVE published'[at[w]][t] > 0
    OBVIOUS
  <2>1. GoesLive(w, t)
    BY DEF HonestInv, PublishTypeOK, PublishTarget, AnswerLost
  <2>2. published'[at[w]][t] = published[at[w]][t] + 1
    BY <2>1, <1>2, GoesLiveTypes DEF HonestInv
  <2>3. published[at[w]][t] \in Nat
    BY <1>2 DEF HonestInv, PublishTypeOK
  <2> QED
    BY <2>2, <2>3
<1>8. pc[w] = "targets" /\ current[w] = {}
  BY DEF HonestInv, HonestWorker, PublishTarget, AnswerLost
<1>9. ~ anyFailed[w] => Covers(w)'
  <2> SUFFICES ASSUME ~ anyFailed[w], NEW u \in Targets
               PROVE  u \in left'[w] \/ u \in current'[w] \/ published'[at'[w]][u] > 0
    BY DEF Covers
  <2>1. u \in left[w] \/ published[at[w]][u] > 0
    BY <1>8 DEF HonestInv, HonestWorker, Covers
  <2> QED
    BY <2>1, <1>2, <1>4, <1>6 DEF LiveGrows
<1>10. HonestWorker(w)'
  BY <1>6, <1>7, <1>9 DEF HonestWorker
<1> QED
  BY <1>1, <1>4, <1>5, <1>10, HonestStep

\* MarkPublished() says of a target what has happened, and goes on.
LEMMA HonestMarkPublished ==
  ASSUME HonestInv, PublishTypeOK', NEW w \in Workers, MarkPublished(w) \/ MarkPublishedFails(w)
  PROVE  HonestInv'
<1>1. OnlyLoop(w)
  BY DEF HonestInv, PublishTypeOK, OnlyLoop, MarkPublished, MarkPublishedFails, NextTarget
<1>2. at[w] \in Posts /\ pc[w] = "live"
  BY DEF HonestInv, PublishTypeOK, MarkPublished, MarkPublishedFails
<1>3. PICK t \in current[w] : SetTarget(at[w], t, "PUBLISHED") \/ UNCHANGED target
  BY DEF MarkPublished, MarkPublishedFails
<1>4. t \in Targets /\ published[at[w]][t] > 0
  BY <1>2 DEF HonestInv, PublishTypeOK, HonestWorker
<1>5. UNCHANGED <<published, post, notices>>
  BY DEF MarkPublished, MarkPublishedFails
<1>6. "PUBLISHED" \in TargetStatus
  BY DEF TargetStatus
<1>7. \A p \in Posts, u \in Targets :
        target'[p][u] = "PUBLISHED" => target[p][u] = "PUBLISHED" \/ published[p][u] > 0
  BY <1>2, <1>3, <1>4, <1>6, SetTargetTypes DEF HonestInv
<1>8. ShowsNoMore /\ LiveGrows
  BY <1>5, <1>7 DEF ShowsNoMore, LiveGrows
<1>9. /\ at'[w] = at[w] /\ left'[w] = left[w] /\ anyFailed'[w] = anyFailed[w]
      /\ \/ pc'[w] = "targets" /\ current'[w] = {}
         \/ pc'[w] = "failed" /\ current'[w] = current[w]
  BY DEF HonestInv, PublishTypeOK, MarkPublished, MarkPublishedFails, NextTarget
<1>10. ~ anyFailed[w] => Covers(w)'
  <2> SUFFICES ASSUME ~ anyFailed[w], NEW u \in Targets
               PROVE  u \in left'[w] \/ u \in current'[w] \/ published'[at'[w]][u] > 0
    BY DEF Covers
  <2>1. u \in left[w] \/ published[at[w]][u] > 0
    BY <1>2 DEF HonestInv, HonestWorker, Covers
  <2> QED
    BY <2>1, <1>5, <1>9
<1>11. HonestWorker(w)'
  BY <1>9, <1>10 DEF HonestWorker
<1> QED
  BY <1>1, <1>8, <1>11, HonestStep

\* A failed target is remembered.
LEMMA HonestMarkFailed ==
  ASSUME HonestInv, PublishTypeOK', NEW w \in Workers, MarkFailed(w) \/ MarkFailedFails(w)
  PROVE  HonestInv'
<1>1. OnlyLoop(w)
  BY DEF HonestInv, PublishTypeOK, OnlyLoop, MarkFailed, MarkFailedFails, NextTarget
<1>2. at[w] \in Posts
  BY DEF HonestInv, PublishTypeOK, MarkFailed, MarkFailedFails
<1>3. UNCHANGED <<published, post, notices>>
  BY DEF MarkFailed, MarkFailedFails, postVars
<1>4. UNCHANGED target \/ \E t \in Targets : SetTarget(at[w], t, "FAILED")
  BY DEF HonestInv, PublishTypeOK, MarkFailed, MarkFailedFails, postVars
<1>5. \A p \in Posts, u \in Targets :
        target'[p][u] = "PUBLISHED" => target[p][u] = "PUBLISHED"
  BY <1>2, <1>4, SetTargetTypes DEF HonestInv, TargetStatus
<1>6. ShowsNoMore /\ LiveGrows
  BY <1>3, <1>5 DEF ShowsNoMore, LiveGrows
<1>7. pc'[w] = "targets" /\ current'[w] = {} /\ anyFailed'[w] = TRUE
  BY DEF HonestInv, PublishTypeOK, MarkFailed, MarkFailedFails, NextTarget
<1>8. HonestWorker(w)'
  BY <1>7 DEF HonestWorker
<1> QED
  BY <1>1, <1>6, <1>8, HonestStep

\* The outcome of a post is a success only when every target has been live.
LEMMA HonestFinish ==
  ASSUME HonestInv, PublishTypeOK', NEW w \in Workers, Finish(w) \/ Notify(w) \/ TickThrows(w)
  PROVE  HonestInv'
<1>1. OnlyLoop(w)
  BY DEF HonestInv, PublishTypeOK, OnlyLoop, Finish, Notify, TickThrows, Forget
<1>2. at[w] \in Posts
  BY DEF HonestInv, PublishTypeOK, Finish, Notify, TickThrows
<1>3. UNCHANGED <<published, target>>
  BY DEF Finish, Notify, TickThrows, postVars
<1>4. pc[w] \in {"claimed", "targets", "notifying"} /\ current[w] = {}
  BY DEF HonestInv, HonestWorker, Finish, Notify, TickThrows
<1>5. ASSUME ~ anyFailed[w], pc[w] # "claimed"
      PROVE  \A t \in Targets : published[at[w]][t] > 0
  <2>1. left[w] = {}
    BY <1>5 DEF HonestInv, PublishTypeOK, Finish, Notify, TickThrows
  <2>2. Covers(w)
    BY <1>4, <1>5 DEF HonestInv, HonestWorker
  <2> QED
    BY <1>4, <2>1, <2>2 DEF Covers
<1>6. \A p \in Posts : post'[p] = "PUBLISHED" =>
        post[p] = "PUBLISHED" \/ (p = at[w] /\ ~ anyFailed[w] /\ pc[w] # "claimed")
  BY <1>2 DEF HonestInv, PublishTypeOK, Finish, Notify, TickThrows, SetPost, postVars
<1>7. \A p \in Posts : "INFO" \in notices'[p] =>
        "INFO" \in notices[p] \/ (p = at[w] /\ ~ anyFailed[w] /\ pc[w] # "claimed")
  BY <1>2 DEF HonestInv, PublishTypeOK, Finish, Notify, TickThrows
<1>8. ShowsNoMore /\ LiveGrows
  BY <1>3, <1>5, <1>6, <1>7 DEF ShowsNoMore, LiveGrows
<1>9. CASE Finish(w)
  <2>1. /\ pc[w] = "targets" /\ pc'[w] = "notifying" /\ current'[w] = current[w]
        /\ left'[w] = left[w] /\ at'[w] = at[w] /\ anyFailed'[w] = anyFailed[w]
    BY <1>9 DEF HonestInv, PublishTypeOK, Finish
  <2>2. HonestWorker(w)'
    BY <2>1, <1>3, <1>4, <1>5 DEF HonestWorker, Covers
  <2> QED
    BY <2>2, <1>1, <1>8, HonestStep
<1>10. CASE Notify(w) \/ TickThrows(w)
  <2>1. pc'[w] \in {"idle", "loop"} /\ current'[w] = {}
    BY <1>4, <1>10 DEF HonestInv, PublishTypeOK, Notify, TickThrows, Forget
  <2>2. HonestWorker(w)'
    BY <2>1 DEF HonestWorker
  <2> QED
    BY <2>2, <1>1, <1>8, HonestStep
<1> QED
  BY <1>9, <1>10

\* A process that ends shows nothing.
LEMMA HonestDies ==
  ASSUME HonestInv, PublishTypeOK', NEW w \in Workers, SocialDies(w)
  PROVE  HonestInv'
<1>1. OnlyLoop(w)
  BY DEF HonestInv, PublishTypeOK, OnlyLoop, SocialDies, Forget
<1>2. LiveGrows /\ ShowsNoMore
  BY DEF LiveGrows, ShowsNoMore, SocialDies, postVars
<1>3. pc'[w] = "idle" /\ current'[w] = {}
  BY DEF HonestInv, PublishTypeOK, SocialDies, Forget
<1> QED
  BY <1>1, <1>2, <1>3, HonestStep DEF HonestWorker

\* Every step preserves the invariant.
LEMMA HonestNext == HonestInv /\ [SocialNext]_socialVars => HonestInv'
<1> SUFFICES ASSUME HonestInv, [SocialNext]_socialVars PROVE HonestInv'
  OBVIOUS
<1>1. PublishTypeOK'
  BY SocialTypeNext DEF HonestInv
<1>2. CASE UNCHANGED socialVars \/ \E p \in Posts : Asked(p) \/ SocialElapse(p) \/ Ages(p)
  BY <1>1, <1>2, HonestOutside
<1>3. ASSUME NEW w \in Workers,
             Ticks(w) \/ SocialFails(w) \/ SocialStop(w) \/ SocialExit(w) \/ SocialRestart(w)
      PROVE  HonestInv'
  <2>1. CASE Ticks(w)
    BY <2>1, <1>1, HonestBefore, HonestRead, HonestTry, HonestMarkPublished, HonestMarkFailed,
       HonestFinish DEF Ticks
  <2>2. CASE SocialFails(w) \/ SocialExit(w)
    BY <2>2, <1>1, HonestTry, HonestMarkPublished, HonestMarkFailed, HonestFinish, HonestDies
    DEF SocialFails, SocialExit, SocialCrash
  <2>3. CASE SocialStop(w) \/ SocialRestart(w)
    BY <2>3, <1>1, HonestOutside
  <2> QED
    BY <1>3, <2>1, <2>2, <2>3
<1> QED
  BY <1>2, <1>3 DEF SocialNext


-----------------------------------------------------------------------------
(* How often a post goes live.                                              *)

\* A worker may still publish the post there.
MayPublish(w, p, t) ==
  /\ at[w] = p
  /\ \/ pc[w] = "claimed"
     \/ pc[w] \in {"targets", "live", "failed", "unavailable"} /\ t \in left[w]

Publishers(p, t) == {w \in Workers : MayPublish(w, p, t)}

\* A worker has yet to write the post's outcome.
Finishes(w, p) == at[w] = p /\ pc[w] # "notifying"

\* The post can be claimed, or will be when it is reclaimed.
Claimable(p) ==
  \/ post[p] \in {"absent", "SCHEDULED"}
  \/ post[p] = "PUBLISHING" /\ (stale[p] \/ \A w \in Workers : ~ Finishes(w, p))

One(b) == IF b THEN 1 ELSE 0

\* How often the post may still go live there without another fault or request.
Pending(p, t) ==
  One(Claimable(p)) + One(p \in clicking) + Cardinality(Publishers(p, t))

\* Every time a post has gone live or may yet go live is the first one, or has a cause.
PaidFor ==
  \A p \in Posts, t \in Targets :
    published[p][t] + Pending(p, t) <= 1 + socialFaults + clicks

SocialInv == HonestInv /\ PaidFor

\* Those who may publish are finitely many workers.
LEMMA PublishersFinite ==
  ASSUME NEW p \in Posts, NEW t \in Targets
  PROVE  /\ IsFiniteSet(Publishers(p, t)) /\ IsFiniteSet(Publishers(p, t)')
         /\ Cardinality(Publishers(p, t)) \in Nat /\ Cardinality(Publishers(p, t)') \in Nat
<1>1. Publishers(p, t) \subseteq Workers /\ Publishers(p, t)' \subseteq Workers
  BY DEF Publishers
<1>2. IsFiniteSet(Publishers(p, t)) /\ IsFiniteSet(Publishers(p, t)')
  BY <1>1, SocialAssumption, FS_Subset DEF SocialAssumption
<1> QED
  BY <1>2, FS_CardinalityType

\* Nobody becomes able to publish, so no more of them may.
LEMMA PublishersFewer ==
  ASSUME NEW p \in Posts, NEW t \in Targets, Publishers(p, t)' \subseteq Publishers(p, t)
  PROVE  Cardinality(Publishers(p, t)') <= Cardinality(Publishers(p, t))
  BY PublishersFinite, FS_Subset

\* One worker becomes able to publish.
LEMMA PublisherMore ==
  ASSUME NEW p \in Posts, NEW t \in Targets, NEW w,
         Publishers(p, t)' \subseteq Publishers(p, t) \cup {w}
  PROVE  Cardinality(Publishers(p, t)') <= Cardinality(Publishers(p, t)) + 1
<1>1. /\ IsFiniteSet(Publishers(p, t) \cup {w})
      /\ Cardinality(Publishers(p, t) \cup {w}) \in
           {Cardinality(Publishers(p, t)), Cardinality(Publishers(p, t)) + 1}
  BY PublishersFinite, FS_AddElement
<1>2. Cardinality(Publishers(p, t)') <= Cardinality(Publishers(p, t) \cup {w})
  BY <1>1, FS_Subset
<1> QED
  BY <1>1, <1>2, PublishersFinite

\* One worker has published.
LEMMA PublisherLess ==
  ASSUME NEW p \in Posts, NEW t \in Targets, NEW w \in Publishers(p, t),
         Publishers(p, t)' \subseteq Publishers(p, t) \ {w}
  PROVE  Cardinality(Publishers(p, t)') + 1 <= Cardinality(Publishers(p, t))
<1>1. /\ IsFiniteSet(Publishers(p, t) \ {w})
      /\ Cardinality(Publishers(p, t) \ {w}) = Cardinality(Publishers(p, t)) - 1
  BY PublishersFinite, FS_RemoveElement
<1>2. Cardinality(Publishers(p, t)') <= Cardinality(Publishers(p, t) \ {w})
  BY <1>1, FS_Subset
<1> QED
  BY <1>1, <1>2, PublishersFinite

\* A worker that was able to publish nothing new leaves the others to it.
LEMMA PublishersOthers ==
  ASSUME PublishTypeOK, NEW p \in Posts, NEW t \in Targets, NEW w \in Workers, OnlyLoop(w),
         MayPublish(w, p, t)' => MayPublish(w, p, t)
  PROVE  Publishers(p, t)' \subseteq Publishers(p, t)
  BY DEF Publishers, MayPublish, OnlyLoop

\* A post whose row stays as it is becomes claimable only when its worker gives up.
LEMMA ClaimableKept ==
  ASSUME NEW p \in Posts, post'[p] = post[p], stale'[p] = stale[p],
         \A v \in Workers : Finishes(v, p) => Finishes(v, p)'
  PROVE  Claimable(p)' => Claimable(p)
  BY DEF Claimable

\* Before the first post, nothing has gone live and every post may once.
LEMMA PaidForInit == SocialInit => PaidFor
<1> SUFFICES ASSUME SocialInit, NEW p \in Posts, NEW t \in Targets
             PROVE  published[p][t] + Pending(p, t) <= 1 + socialFaults + clicks
  BY DEF PaidFor
<1>1. Publishers(p, t) = {}
  BY DEF SocialInit, Publishers, MayPublish
<1>2. Cardinality(Publishers(p, t)) = 0
  BY <1>1, FS_EmptySet
<1> QED
  BY <1>2 DEF SocialInit, Pending, One

\* Requests and the clock: a request that makes a post claimable was counted when it
\* found the post, and a post that ages in a worker's hands is a fault.
LEMMA PaidForAsked ==
  ASSUME SocialInv, PublishTypeOK', NEW q \in Posts, Asked(q) \/ SocialElapse(q) \/ Ages(q),
         NEW p \in Posts, NEW t \in Targets
  PROVE  published'[p][t] + Pending(p, t)' <= 1 + socialFaults' + clicks'
<1>1. published[p][t] + Pending(p, t) <= 1 + socialFaults + clicks
  BY DEF SocialInv, PaidFor
<1>2. /\ published[p][t] \in Nat /\ socialFaults \in Nat /\ clicks \in Nat
      /\ PublishTypeOK
  BY SocialAssumption DEF SocialAssumption, SocialInv, HonestInv, PublishTypeOK
<1>3. UNCHANGED <<pc, at, left, published>>
  BY DEF Asked, CreatePost, FindToPublish, PublishNow, FindToRemove, RemovePost, SocialElapse,
     Ages, loopVars
<1>4. Publishers(p, t)' = Publishers(p, t) /\ \A v \in Workers : Finishes(v, p)' = Finishes(v, p)
  BY <1>3 DEF Publishers, MayPublish, Finishes
<1>5. CASE CreatePost(q) \/ RemovePost(q)
  <2>1. Claimable(p)' => Claimable(p)
    BY <1>2, <1>4, <1>5 DEF PublishTypeOK, CreatePost, RemovePost, SetPost, Claimable
  <2>2. UNCHANGED <<clicking, clicks, socialFaults>>
    BY <1>5 DEF CreatePost, RemovePost, requestVars
  <2> QED
    BY <1>1, <1>2, <1>3, <1>4, <2>1, <2>2, PublishersFinite DEF Pending, One
<1>6. CASE FindToPublish(q) \/ FindToRemove(q) \/ SocialElapse(q)
  <2>1. UNCHANGED <<post, stale>>
    BY <1>6 DEF FindToPublish, FindToRemove, SocialElapse, postVars
  <2>2. Claimable(p)' => Claimable(p)
    BY <2>1, <1>4, ClaimableKept
  <2>3. /\ socialFaults' = socialFaults
        /\ \/ clicking' = clicking /\ clicks' = clicks
           \/ clicks' = clicks + 1
    BY <1>6 DEF FindToPublish, FindToRemove, SocialElapse, requestVars
  <2> QED
    BY <1>1, <1>2, <1>3, <1>4, <2>2, <2>3, PublishersFinite DEF Pending, One
<1>7. CASE PublishNow(q)
  <2>1. UNCHANGED <<clicks, socialFaults>> /\ clicking' = clicking \ {q} /\ q \in clicking
    BY <1>7 DEF PublishNow
  <2>2. p # q => (Claimable(p)' => Claimable(p))
    <3>1. p # q => post'[p] = post[p] /\ stale'[p] = stale[p]
      BY <1>2, <1>7 DEF PublishNow, SetPost, PublishTypeOK
    <3> QED
      BY <3>1, <1>4, ClaimableKept
  <2> QED
    BY <1>1, <1>2, <1>3, <1>4, <2>1, <2>2, PublishersFinite DEF Pending, One
<1>8. CASE Ages(q)
  <2>1. UNCHANGED <<clicking, clicks>> /\ UNCHANGED post
    BY <1>8 DEF Ages, requestVars
  <2>2. CASE socialFaults' = socialFaults + 1
    BY <1>1, <1>2, <1>3, <1>4, <2>1, <2>2, PublishersFinite DEF Pending, One
  <2>3. CASE ~ \E w \in Workers : at[w] = q
    <3>1. socialFaults' = socialFaults
      BY <1>8, <2>3 DEF Ages
    <3>2. Claimable(p)' => Claimable(p)
      BY <1>2, <1>4, <1>8, <2>3 DEF Ages, Claimable, Finishes, PublishTypeOK
    <3> QED
      BY <1>1, <1>2, <1>3, <1>4, <2>1, <3>1, <3>2, PublishersFinite DEF Pending, One
  <2> QED
    BY <1>8, <2>2, <2>3 DEF Ages, SocialFault
<1> QED
  BY <1>5, <1>6, <1>7, <1>8 DEF Asked

\* A claim takes from the post what it gives to the worker.
LEMMA PaidForClaim ==
  ASSUME SocialInv, NEW w \in Workers, NEW q \in Posts, Claim(w, q),
         NEW p \in Posts, NEW t \in Targets
  PROVE  published'[p][t] + Pending(p, t)' <= 1 + socialFaults' + clicks'
<1>1. published[p][t] + Pending(p, t) <= 1 + socialFaults + clicks
  BY DEF SocialInv, PaidFor
<1>2. /\ published[p][t] \in Nat /\ socialFaults \in Nat /\ clicks \in Nat
      /\ PublishTypeOK
  BY SocialAssumption DEF SocialAssumption, SocialInv, HonestInv, PublishTypeOK
<1>3. UNCHANGED <<clicking, clicks, socialFaults, published>>
  BY DEF Claim, requestVars
<1>4. OnlyLoop(w) /\ pc[w] = "loop"
  BY <1>2 DEF PublishTypeOK, OnlyLoop, Claim
<1>5. CASE post[q] = "SCHEDULED" /\ p = q
  <2>1. pc'[w] = "claimed" /\ at'[w] = q /\ post'[q] = "PUBLISHING" /\ stale'[q] = FALSE
    BY <1>2, <1>5 DEF Claim, PublishTypeOK, SetPost
  <2>2. Claimable(p) /\ ~ Claimable(p)'
    BY <1>5, <2>1 DEF Claimable, Finishes
  <2>3. Publishers(p, t)' \subseteq Publishers(p, t) \cup {w}
    BY <1>4 DEF Publishers, MayPublish, OnlyLoop
  <2>4. Cardinality(Publishers(p, t)') <= Cardinality(Publishers(p, t)) + 1
    BY <2>3, PublisherMore
  <2> QED
    BY <1>1, <1>2, <1>3, <2>2, <2>4, PublishersFinite DEF Pending, One
<1>6. CASE post[q] # "SCHEDULED" \/ p # q
  <2>1. post'[p] = post[p] /\ stale'[p] = stale[p]
    BY <1>2, <1>6 DEF Claim, PublishTypeOK, SetPost
  <2>2. at[w] = NoPost /\ p # NoPost
    BY <1>2, <1>4, SocialAssumption DEF PublishTypeOK, SocialAssumption
  <2>3. \A v \in Workers : Finishes(v, p) => Finishes(v, p)'
    BY <1>4, <2>2 DEF Finishes, OnlyLoop
  <2>4. Claimable(p)' => Claimable(p)
    BY <2>1, <2>3, ClaimableKept
  <2>5. at'[w] # p
    BY <1>2, <1>6, <2>2 DEF Claim, PublishTypeOK
  <2>6. Publishers(p, t)' \subseteq Publishers(p, t)
    BY <1>2, <1>4, <2>5, PublishersOthers DEF MayPublish
  <2> QED
    BY <1>1, <1>2, <1>3, <2>4, <2>6, PublishersFewer, PublishersFinite DEF Pending, One
<1> QED
  BY <1>5, <1>6

\* A target that is tried is not tried again by this worker, whether it went live or not.
LEMMA PaidForTry ==
  ASSUME SocialInv, NEW w \in Workers, NEW u \in Targets,
         PublishTarget(w, u) \/ AnswerLost(w, u),
         NEW p \in Posts, NEW t \in Targets
  PROVE  published'[p][t] + Pending(p, t)' <= 1 + socialFaults' + clicks'
<1>1. published[p][t] + Pending(p, t) <= 1 + socialFaults + clicks
  BY DEF SocialInv, PaidFor
<1>2. /\ published[p][t] \in Nat /\ socialFaults \in Nat /\ clicks \in Nat
      /\ PublishTypeOK
  BY SocialAssumption DEF SocialAssumption, SocialInv, HonestInv, PublishTypeOK
<1>3. UNCHANGED <<clicking, clicks>> /\ socialFaults' \in {socialFaults, socialFaults + 1}
  BY DEF PublishTarget, AnswerLost, SocialFault, requestVars
<1>4. /\ OnlyLoop(w) /\ pc[w] = "targets" /\ u \in left[w] /\ at'[w] = at[w]
      /\ pc'[w] \in {"live", "failed", "unavailable"} /\ left'[w] = left[w] \ {u}
  BY <1>2 DEF PublishTypeOK, OnlyLoop, PublishTarget, AnswerLost
<1>5. at[w] \in Posts
  BY <1>2, <1>4 DEF PublishTypeOK
<1>6. UNCHANGED <<post, stale>>
  BY DEF PublishTarget, AnswerLost, postVars
<1>7. \A v \in Workers : Finishes(v, p) => Finishes(v, p)'
  BY <1>4 DEF Finishes, OnlyLoop
<1>8. Claimable(p)' => Claimable(p)
  BY <1>6, <1>7, ClaimableKept
<1>9. published' = published \/ GoesLive(w, u)
  BY DEF PublishTarget, AnswerLost
<1>10. CASE p = at[w] /\ t = u
  <2>1. published'[p][t] <= published[p][t] + 1 /\ published'[p][t] \in Nat
    BY <1>2, <1>5, <1>9, GoesLiveTypes
  <2>2. w \in Publishers(p, t)
    BY <1>4, <1>10 DEF Publishers, MayPublish
  <2>3. Publishers(p, t)' \subseteq Publishers(p, t) \ {w}
    BY <1>4, <1>10 DEF Publishers, MayPublish, OnlyLoop
  <2>4. Cardinality(Publishers(p, t)') + 1 <= Cardinality(Publishers(p, t))
    BY <2>2, <2>3, PublisherLess
  <2> QED
    BY <1>1, <1>2, <1>3, <1>8, <2>1, <2>4, PublishersFinite DEF Pending, One
<1>11. CASE ~ (p = at[w] /\ t = u)
  <2>1. published'[p][t] = published[p][t]
    BY <1>2, <1>5, <1>9, <1>11, GoesLiveTypes
  <2>2. MayPublish(w, p, t)' => MayPublish(w, p, t)
    BY <1>4 DEF MayPublish
  <2>3. Cardinality(Publishers(p, t)') <= Cardinality(Publishers(p, t))
    BY <1>2, <1>4, <2>2, PublishersOthers, PublishersFewer
  <2> QED
    BY <1>1, <1>2, <1>3, <1>8, <2>1, <2>3, PublishersFinite DEF Pending, One
<1> QED
  BY <1>10, <1>11

\* The other steps of a tick give a worker nothing more to publish, and leave the post
\* to nobody unless its outcome is written.
LEMMA PaidForLoop ==
  ASSUME SocialInv, NEW w \in Workers,
         \/ ReclaimPosts(w) \/ Poll(w) \/ Read(w) \/ MarkPublished(w) \/ MarkFailed(w)
         \/ Finish(w) \/ Notify(w),
         NEW p \in Posts, NEW t \in Targets
  PROVE  published'[p][t] + Pending(p, t)' <= 1 + socialFaults' + clicks'
<1>1. published[p][t] + Pending(p, t) <= 1 + socialFaults + clicks
  BY DEF SocialInv, PaidFor
<1>2. /\ published[p][t] \in Nat /\ socialFaults \in Nat /\ clicks \in Nat
      /\ PublishTypeOK
  BY SocialAssumption DEF SocialAssumption, SocialInv, HonestInv, PublishTypeOK
<1>3. /\ UNCHANGED <<clicking, clicks, published>>
      /\ socialFaults' \in {socialFaults, socialFaults + 1}
  BY DEF ReclaimPosts, Poll, Read, MarkPublished, MarkFailed, Finish, Notify, requestVars,
     SocialFault
<1>4. OnlyLoop(w)
  BY <1>2 DEF PublishTypeOK, OnlyLoop, ReclaimPosts, Poll, Read, MarkPublished, MarkFailed,
     NextTarget, Finish, Notify
<1>5. MayPublish(w, p, t)' => MayPublish(w, p, t)
  BY <1>2 DEF PublishTypeOK, MayPublish, ReclaimPosts, Poll, Read, MarkPublished, MarkFailed,
     NextTarget, Finish, Notify
<1>6. Cardinality(Publishers(p, t)') <= Cardinality(Publishers(p, t))
  BY <1>2, <1>4, <1>5, PublishersOthers, PublishersFewer
<1>7. Claimable(p)' => Claimable(p)
  <2>1. CASE ReclaimPosts(w)
    <3>1. UNCHANGED at /\ pc[w] = "idle" /\ pc'[w] = "polling"
      BY <1>2, <2>1 DEF ReclaimPosts, PublishTypeOK
    <3>2. \A v \in Workers : Finishes(v, p) => Finishes(v, p)'
      BY <3>1, <1>4 DEF Finishes, OnlyLoop
    <3>3. CASE post[p] = "PUBLISHING" /\ stale[p]
      BY <3>3 DEF Claimable
    <3>4. CASE ~ (post[p] = "PUBLISHING" /\ stale[p])
      <4>1. post'[p] = post[p] /\ stale'[p] = stale[p]
        BY <2>1, <3>4 DEF ReclaimPosts
      <4> QED
        BY <4>1, <3>2, ClaimableKept
    <3> QED
      BY <3>3, <3>4
  <2>2. CASE Poll(w) \/ Read(w) \/ MarkPublished(w) \/ MarkFailed(w)
    <3>1. UNCHANGED <<post, stale>>
      BY <2>2 DEF Poll, Read, MarkPublished, MarkFailed, postVars
    <3>2. UNCHANGED at /\ pc'[w] # "notifying"
      BY <1>2, <2>2 DEF Poll, Read, MarkPublished, MarkFailed, NextTarget, PublishTypeOK
    <3>3. \A v \in Workers : Finishes(v, p) => Finishes(v, p)'
      BY <3>2, <1>4 DEF Finishes, OnlyLoop
    <3> QED
      BY <3>1, <3>3, ClaimableKept
  <2>3. CASE Finish(w) /\ p = at[w]
    <3>1. post'[p] \in {"FAILED", "PUBLISHED"}
      BY <1>2, <2>3 DEF Finish, SetPost, PublishTypeOK
    <3> QED
      BY <3>1 DEF Claimable
  <2>4. CASE Finish(w) /\ p # at[w]
    <3>1. post'[p] = post[p] /\ stale'[p] = stale[p] /\ UNCHANGED at
      BY <1>2, <2>4 DEF Finish, SetPost, PublishTypeOK
    <3>2. \A v \in Workers : Finishes(v, p) => Finishes(v, p)'
      BY <3>1, <2>4, <1>4 DEF Finishes, OnlyLoop
    <3> QED
      BY <3>1, <3>2, ClaimableKept
  <2>5. CASE Notify(w)
    <3>1. UNCHANGED <<post, stale>> /\ pc[w] = "notifying"
      BY <2>5 DEF Notify, postVars
    <3>2. \A v \in Workers : Finishes(v, p) => Finishes(v, p)'
      BY <3>1, <1>4 DEF Finishes, OnlyLoop
    <3> QED
      BY <3>1, <3>2, ClaimableKept
  <2> QED
    BY <2>1, <2>2, <2>3, <2>4, <2>5
<1> QED
  BY <1>1, <1>2, <1>3, <1>6, <1>7, PublishersFinite DEF Pending, One

\* A fault pays for the claim it leaves behind.
LEMMA PaidForFails ==
  ASSUME SocialInv, NEW w \in Workers,
         \/ MarkPublishedFails(w) \/ MarkFailedFails(w) \/ TickThrows(w) \/ SocialCrash(w)
         \/ (SocialExit(w) /\ pc[w] # "idle"),
         NEW p \in Posts, NEW t \in Targets
  PROVE  published'[p][t] + Pending(p, t)' <= 1 + socialFaults' + clicks'
<1>1. published[p][t] + Pending(p, t) <= 1 + socialFaults + clicks
  BY DEF SocialInv, PaidFor
<1>2. /\ published[p][t] \in Nat /\ socialFaults \in Nat /\ clicks \in Nat
      /\ PublishTypeOK
  BY SocialAssumption DEF SocialAssumption, SocialInv, HonestInv, PublishTypeOK
<1>3. /\ UNCHANGED <<clicking, clicks, published>>
      /\ socialFaults' = socialFaults + 1
  BY DEF MarkPublishedFails, MarkFailedFails, TickThrows, SocialCrash, SocialExit, SocialDies,
     requestVars, SocialFault
<1>4. OnlyLoop(w)
  BY <1>2 DEF PublishTypeOK, OnlyLoop, MarkPublishedFails, MarkFailedFails, TickThrows,
     SocialCrash, SocialExit, SocialDies, NextTarget, Forget
<1>5. MayPublish(w, p, t)' => MayPublish(w, p, t)
  BY <1>2 DEF PublishTypeOK, MayPublish, MarkPublishedFails, MarkFailedFails, TickThrows,
     SocialCrash, SocialExit, SocialDies, NextTarget, Forget
<1>6. Cardinality(Publishers(p, t)') <= Cardinality(Publishers(p, t))
  BY <1>2, <1>4, <1>5, PublishersOthers, PublishersFewer
<1> QED
  BY <1>1, <1>2, <1>3, <1>6, PublishersFinite DEF Pending, One

\* A process that stops, starts, or ends with its tick over, leaves no claim behind.
LEMMA PaidForProcess ==
  ASSUME SocialInv, NEW w \in Workers,
         SocialStop(w) \/ SocialRestart(w) \/ (SocialExit(w) /\ pc[w] = "idle"),
         NEW p \in Posts, NEW t \in Targets
  PROVE  published'[p][t] + Pending(p, t)' <= 1 + socialFaults' + clicks'
<1>1. published[p][t] + Pending(p, t) <= 1 + socialFaults + clicks
  BY DEF SocialInv, PaidFor
<1>2. /\ published[p][t] \in Nat /\ socialFaults \in Nat /\ clicks \in Nat
      /\ PublishTypeOK
  BY SocialAssumption DEF SocialAssumption, SocialInv, HonestInv, PublishTypeOK
<1>3. UNCHANGED <<clicking, clicks, published, socialFaults, post, stale>>
  BY DEF SocialStop, SocialRestart, SocialExit, SocialDies, requestVars, postVars
<1>4. OnlyLoop(w)
  BY <1>2 DEF PublishTypeOK, OnlyLoop, SocialStop, SocialRestart, SocialExit, SocialDies, Forget,
     loopVars
<1>5. \/ UNCHANGED <<at, pc, left>>
      \/ at[w] = NoPost /\ at'[w] = NoPost
  BY <1>2 DEF PublishTypeOK, SocialStop, SocialRestart, SocialExit, SocialDies, Forget, loopVars
<1>6. p # NoPost
  BY SocialAssumption DEF SocialAssumption
<1>7. MayPublish(w, p, t)' => MayPublish(w, p, t)
  BY <1>5, <1>6 DEF MayPublish
<1>8. \A v \in Workers : Finishes(v, p) => Finishes(v, p)'
  BY <1>4, <1>5, <1>6 DEF Finishes, OnlyLoop
<1>9. Cardinality(Publishers(p, t)') <= Cardinality(Publishers(p, t))
  BY <1>2, <1>4, <1>7, PublishersOthers, PublishersFewer
<1>10. Claimable(p)' => Claimable(p)
  BY <1>3, <1>8, ClaimableKept
<1> QED
  BY <1>1, <1>2, <1>3, <1>9, <1>10, PublishersFinite DEF Pending, One

\* Every step preserves the invariant.
LEMMA SocialInvNext == SocialInv /\ [SocialNext]_socialVars => SocialInv'
<1> SUFFICES ASSUME SocialInv, [SocialNext]_socialVars PROVE SocialInv'
  OBVIOUS
<1>1. HonestInv' /\ PublishTypeOK'
  BY HonestNext DEF SocialInv, HonestInv
<1>2. CASE UNCHANGED socialVars
  <2>1. UNCHANGED <<post, stale, at, pc, left, clicking, clicks, published, socialFaults>>
    BY <1>2 DEF socialVars, postVars, requestVars, loopVars
  <2>2. \A p \in Posts, t \in Targets : Publishers(p, t)' = Publishers(p, t)
    BY <2>1 DEF Publishers, MayPublish
  <2>3. \A p \in Posts : Claimable(p)' = Claimable(p)
    BY <2>1 DEF Claimable, Finishes
  <2>4. PaidFor'
    BY <2>1, <2>2, <2>3 DEF SocialInv, PaidFor, Pending
  <2> QED
    BY <1>1, <2>4 DEF SocialInv
<1>3. CASE SocialNext
  <2> SUFFICES ASSUME NEW p \in Posts, NEW t \in Targets
               PROVE  published'[p][t] + Pending(p, t)' <= 1 + socialFaults' + clicks'
    BY <1>1 DEF SocialInv, PaidFor
  <2>1. ASSUME NEW q \in Posts, Asked(q) \/ SocialElapse(q) \/ Ages(q)
        PROVE  published'[p][t] + Pending(p, t)' <= 1 + socialFaults' + clicks'
    BY <2>1, <1>1, PaidForAsked
  <2>2. ASSUME NEW w \in Workers, Ticks(w)
        PROVE  published'[p][t] + Pending(p, t)' <= 1 + socialFaults' + clicks'
    BY <2>2, PaidForClaim, PaidForTry, PaidForLoop DEF Ticks
  <2>3. ASSUME NEW w \in Workers,
               SocialFails(w) \/ SocialStop(w) \/ SocialExit(w) \/ SocialRestart(w)
        PROVE  published'[p][t] + Pending(p, t)' <= 1 + socialFaults' + clicks'
    <3>1. CASE SocialFails(w)
      BY <3>1, PaidForTry, PaidForFails DEF SocialFails
    <3>2. CASE SocialExit(w)
      BY <3>2, PaidForFails, PaidForProcess
    <3>3. CASE SocialStop(w) \/ SocialRestart(w)
      BY <3>3, PaidForProcess
    <3> QED
      BY <2>3, <3>1, <3>2, <3>3
  <2> QED
    BY <1>3, <2>1, <2>2, <2>3 DEF SocialNext
<1> QED
  BY <1>2, <1>3

-----------------------------------------------------------------------------
\* Every variable keeps its type; what is shown as published has been live; every time a
\* post goes live has its cause.
THEOREM SocialInvariant == SocialSafe => []SocialInv
<1>1. SocialInit => SocialInv
  BY HonestInit, PaidForInit DEF SocialInv
<1> QED
  BY <1>1, SocialInvNext, PTL DEF SocialSafe

\* A post goes live twice on a target only after a fault or a request, and no success that
\* is shown is false (schedule-poller.ts:248).
THEOREM PostsAreSound == SocialSafe => []PostsSound
<1>1. SocialInv => PostsSound
  <2> SUFFICES ASSUME SocialInv PROVE PostsSound
    OBVIOUS
  <2>1. ASSUME NEW p \in Posts, NEW t \in Targets
        PROVE  published[p][t] <= 1 + socialFaults + clicks
    <3>1. published[p][t] + Pending(p, t) <= 1 + socialFaults + clicks
      BY DEF SocialInv, PaidFor
    <3>2. published[p][t] \in Nat /\ socialFaults \in Nat /\ clicks \in Nat
      BY SocialAssumption DEF SocialAssumption, SocialInv, HonestInv, PublishTypeOK
    <3> QED
      BY <3>1, <3>2, PublishersFinite DEF Pending, One
  <2> QED
    BY <2>1 DEF SocialInv, HonestInv, PostsSound, ExtraPostsNeedCause
<1> QED
  BY <1>1, SocialInvariant, PTL

\* What is true of a post once it is removed, with what the induction needs: it has a row,
\* and a worker that has yet to reach it had it in its batch at the removal.
Removed(p) ==
  /\ p \in revived => deleted[p]
  /\ deleted[p] =>
       /\ post[p] # "absent"
       /\ \A w \in Workers : p \in todo[w] => w \in listed[p]
       /\ \A w \in Workers : at[w] = p => w \in MayHold(p)
       /\ post[p] \in {"SCHEDULED", "PUBLISHING"} => p \in revived
       /\ post[p] \in {"PUBLISHED", "FAILED"} => MayHold(p) # {}

RemovalInv == SocialTypeOK /\ \A p \in Posts : Removed(p)

\* Workers may let go of a post, and of what they have yet to reach.
LEMMA RemovedLetGo ==
  ASSUME NEW p \in Posts, Removed(p), UNCHANGED <<post, deleted, removalVars>>,
         \A v \in Workers : at'[v] \in {at[v], NoPost} /\ todo'[v] \subseteq todo[v]
  PROVE  Removed(p)'
<1>1. p # NoPost
  BY SocialAssumption DEF SocialAssumption
<1>2. MayHold(p)' = MayHold(p)
  BY DEF MayHold, removalVars
<1> QED
  BY <1>1, <1>2 DEF Removed, removalVars

\* The requests: a removal notes who is at the post, a crossing "publish now" is noted.
LEMMA RemovedAsked ==
  ASSUME RemovalInv, NEW p \in Posts, NEW q \in Posts, Asked(q) \/ SocialElapse(q) \/ Ages(q)
  PROVE  Removed(p)'
<1>1. Removed(p) /\ SocialTypeOK
  BY DEF RemovalInv
<1>2. CASE FindToPublish(q) \/ FindToRemove(q) \/ SocialElapse(q) \/ Ages(q)
  BY <1>1, <1>2, RemovedLetGo
  DEF FindToPublish, FindToRemove, SocialElapse, Ages, postVars, requestVars, loopVars, removalVars
<1>3. CASE CreatePost(q)
  <2>1. CASE q = p
    BY <1>1, <1>3, <2>1 DEF CreatePost, Removed, requestVars, removalVars
  <2>2. CASE q # p
    <3>1. post'[p] = post[p] /\ UNCHANGED <<deleted, removalVars, at, todo>>
      BY <1>1, <1>3, <2>2
      DEF CreatePost, SetPost, SocialTypeOK, PublishTypeOK, requestVars, loopVars
    <3> QED
      BY <1>1, <3>1 DEF Removed, MayHold, removalVars
  <2> QED
    BY <2>1, <2>2
<1>4. CASE PublishNow(q)
  <2>1. UNCHANGED <<deleted, held, listed, at, todo>>
    BY <1>4 DEF PublishNow, loopVars
  <2>2. CASE q = p
    <3>1. post'[p] = "SCHEDULED" /\ (deleted[p] => p \in revived')
      BY <1>1, <1>4, <2>2 DEF PublishNow, SetPost, SocialTypeOK, PublishTypeOK
    <3>2. ~ deleted[p] => revived' = revived
      BY <1>4, <2>2 DEF PublishNow
    <3>3. deleted[p] => MayHold(p) \subseteq MayHold(p)'
      BY <2>1, <3>1 DEF MayHold
    <3> QED
      BY <1>1, <2>1, <3>1, <3>2, <3>3 DEF Removed
  <2>3. CASE q # p
    <3>1. post'[p] = post[p] /\ (p \in revived' <=> p \in revived)
      BY <1>1, <1>4, <2>3 DEF PublishNow, SetPost, SocialTypeOK, PublishTypeOK
    <3> QED
      BY <1>1, <2>1, <3>1 DEF Removed, MayHold
  <2> QED
    BY <2>2, <2>3
<1>5. CASE RemovePost(q)
  <2>1. UNCHANGED <<revived, at, todo>>
    BY <1>5 DEF RemovePost, loopVars
  <2>2. CASE q = p
    <3>1. /\ post'[p] = "DELETED" /\ deleted'[p]
          /\ held'[p] = {w \in Workers : at[w] = p}
          /\ listed'[p] = {w \in Workers : p \in todo[w]}
      BY <1>1, <1>5, <2>2 DEF RemovePost, SetPost, SocialTypeOK, PublishTypeOK, RemovalTypeOK
    <3> QED
      BY <2>1, <3>1 DEF Removed, MayHold
  <2>3. CASE q # p
    <3>1. /\ post'[p] = post[p] /\ deleted'[p] = deleted[p]
          /\ held'[p] = held[p] /\ listed'[p] = listed[p]
      BY <1>1, <1>5, <2>3 DEF RemovePost, SetPost, SocialTypeOK, PublishTypeOK, RemovalTypeOK
    <3> QED
      BY <1>1, <2>1, <3>1 DEF Removed, MayHold
  <2> QED
    BY <2>2, <2>3
<1> QED
  BY <1>2, <1>3, <1>4, <1>5 DEF Asked

\* The steps that give a worker something: a batch is read without deleted posts, and a
\* removed post is claimed only if it is SCHEDULED again.
LEMMA RemovedTaken ==
  ASSUME RemovalInv, NEW p \in Posts, NEW w \in Workers,
         Poll(w) \/ ReclaimPosts(w) \/ \E q \in Posts : Claim(w, q)
  PROVE  Removed(p)'
<1>1. Removed(p) /\ SocialTypeOK
  BY DEF RemovalInv
<1>2. UNCHANGED <<deleted, removalVars>> /\ MayHold(p)' = MayHold(p)
  BY DEF Poll, ReclaimPosts, Claim, postVars, requestVars, removalVars, MayHold
<1>3. CASE Poll(w)
  <2>1. deleted[p] => p \notin Candidates
    BY DEF Candidates
  <2>2. \A v \in Workers : deleted[p] /\ p \in todo'[v] => p \in todo[v]
    BY <1>1, <1>3, <2>1 DEF Poll, SocialTypeOK, PublishTypeOK
  <2> QED
    BY <1>1, <1>2, <1>3, <2>2 DEF Poll, Removed, postVars, removalVars
<1>4. CASE ReclaimPosts(w)
  <2>1. post'[p] = post[p] \/ (post[p] = "PUBLISHING" /\ post'[p] = "SCHEDULED")
    BY <1>1, <1>4 DEF ReclaimPosts
  <2> QED
    BY <1>1, <1>2, <1>4, <2>1 DEF ReclaimPosts, Removed, removalVars
<1>5. ASSUME NEW q \in Posts, Claim(w, q)
      PROVE  Removed(p)'
  <2>1. \A v \in Workers : todo'[v] \subseteq todo[v]
    BY <1>1, <1>5 DEF Claim, SocialTypeOK, PublishTypeOK
  <2>2. CASE UNCHANGED <<post, at>>
    BY <1>1, <1>2, <2>1, <2>2, RemovedLetGo
  <2>3. CASE ~ UNCHANGED <<post, at>>
    <3>1. /\ q \in todo[w] /\ post[q] = "SCHEDULED"
          /\ SetPost(q, "PUBLISHING") /\ at' = [at EXCEPT ![w] = q]
      BY <1>5, <2>3 DEF Claim
    <3>2. CASE q = p
      <4>1. post'[p] = "PUBLISHING" /\ \A v \in Workers : at'[v] = p => at[v] = p \/ v = w
        BY <1>1, <3>1, <3>2 DEF SetPost, SocialTypeOK, PublishTypeOK
      <4>2. deleted[p] => p \in revived /\ w \in MayHold(p)
        BY <1>1, <3>1, <3>2 DEF Removed, MayHold
      <4> QED
        BY <1>1, <1>2, <2>1, <4>1, <4>2 DEF Removed, removalVars
    <3>3. CASE q # p
      <4>1. post'[p] = post[p] /\ \A v \in Workers : at'[v] = p => at[v] = p
        BY <1>1, <3>1, <3>3 DEF SetPost, SocialTypeOK, PublishTypeOK
      <4> QED
        BY <1>1, <1>2, <2>1, <4>1 DEF Removed, removalVars
    <3> QED
      BY <3>2, <3>3
  <2> QED
    BY <2>2, <2>3
<1> QED
  BY <1>3, <1>4, <1>5

\* The final status is written by a worker that is at the post.
LEMMA RemovedFinished ==
  ASSUME RemovalInv, NEW p \in Posts, NEW w \in Workers, Finish(w) \/ TickThrows(w)
  PROVE  Removed(p)'
<1>1. Removed(p) /\ SocialTypeOK
  BY DEF RemovalInv
<1>2. UNCHANGED <<deleted, removalVars>> /\ MayHold(p)' = MayHold(p)
  BY DEF Finish, TickThrows, postVars, requestVars, removalVars, MayHold
<1>3. \A v \in Workers : at'[v] \in {at[v], NoPost} /\ todo'[v] \subseteq todo[v]
  BY <1>1 DEF Finish, TickThrows, Forget, SocialTypeOK, PublishTypeOK
<1>4. post' = post \/ SetPost(at[w], IF anyFailed[w] THEN "FAILED" ELSE "PUBLISHED")
  BY DEF Finish, TickThrows
<1>5. post'[p] = post[p] \/ (at[w] = p /\ post'[p] \in {"PUBLISHED", "FAILED"})
  BY <1>1, <1>4 DEF SetPost, SocialTypeOK, PublishTypeOK
<1>6. p # NoPost
  BY SocialAssumption DEF SocialAssumption
<1> QED
  BY <1>1, <1>2, <1>3, <1>5, <1>6 DEF Removed, removalVars

\* The history of removals keeps its types.
LEMMA RemovalTypeNext ==
  ASSUME RemovalTypeOK, [SocialNext]_socialVars
  PROVE  RemovalTypeOK'
<1>1. CASE UNCHANGED removalVars
  BY <1>1 DEF RemovalTypeOK, removalVars
<1>2. ASSUME NEW p \in Posts, PublishNow(p)
      PROVE  RemovalTypeOK'
  BY <1>2 DEF PublishNow, RemovalTypeOK
<1>3. ASSUME NEW p \in Posts, RemovePost(p)
      PROVE  RemovalTypeOK'
  <2>1. {w \in Workers : at[w] = p} \subseteq Workers
    OBVIOUS
  <2>2. {w \in Workers : p \in todo[w]} \subseteq Workers
    OBVIOUS
  <2> QED
    BY <1>3, <2>1, <2>2 DEF RemovePost, RemovalTypeOK
<1>4. ASSUME NEW p \in Posts,
             CreatePost(p) \/ FindToPublish(p) \/ FindToRemove(p) \/ SocialElapse(p) \/ Ages(p)
      PROVE  UNCHANGED removalVars
  BY <1>4 DEF CreatePost, FindToPublish, FindToRemove, SocialElapse, Ages, requestVars
<1>5. ASSUME NEW w \in Workers, Ticks(w)
      PROVE  UNCHANGED removalVars
  BY <1>5
  DEF Ticks, ReclaimPosts, Poll, Claim, Read, PublishTarget, MarkPublished, MarkFailed, Finish,
      Notify, requestVars
<1>6. ASSUME NEW w \in Workers,
             SocialFails(w) \/ SocialStop(w) \/ SocialExit(w) \/ SocialRestart(w)
      PROVE  UNCHANGED removalVars
  BY <1>6
  DEF SocialFails, AnswerLost, MarkPublishedFails, MarkFailedFails, TickThrows, SocialCrash,
      SocialExit, SocialStop, SocialRestart, SocialDies, requestVars
<1> QED
  BY <1>1, <1>2, <1>3, <1>4, <1>5, <1>6 DEF SocialNext, Asked, socialVars, requestVars

\* No step of the program breaks it.
LEMMA RemovalNext == RemovalInv /\ [SocialNext]_socialVars => RemovalInv'
<1> SUFFICES ASSUME RemovalInv, [SocialNext]_socialVars PROVE RemovalInv'
  OBVIOUS
<1>1. SocialTypeOK'
  BY SocialTypeNext, RemovalTypeNext DEF RemovalInv, SocialTypeOK
<1>2. ASSUME NEW p \in Posts
      PROVE  Removed(p)'
  <2>1. Removed(p) /\ SocialTypeOK
    BY DEF RemovalInv
  <2>2. CASE UNCHANGED <<post, deleted, removalVars, at, todo>>
    BY <2>1, <2>2, RemovedLetGo
  <2>3. CASE UNCHANGED socialVars
    BY <2>2, <2>3 DEF socialVars, postVars, requestVars, loopVars
  <2>4. CASE \E q \in Posts : Asked(q) \/ SocialElapse(q) \/ Ages(q)
    BY <2>4, RemovedAsked
  <2>5. ASSUME NEW w \in Workers, Ticks(w)
        PROVE  Removed(p)'
    <3>1. CASE Notify(w)
      <4>1. \A v \in Workers : at'[v] \in {at[v], NoPost}
        BY <2>1, <3>1 DEF Notify, SocialTypeOK, PublishTypeOK
      <4> QED
        BY <2>1, <3>1, <4>1, RemovedLetGo DEF Notify, postVars, requestVars
    <3>2. CASE \/ Read(w) \/ MarkPublished(w) \/ MarkFailed(w)
               \/ \E t \in Targets : PublishTarget(w, t)
      BY <2>2, <3>2
      DEF Read, PublishTarget, MarkPublished, MarkFailed, NextTarget, postVars, requestVars
    <3> QED
      BY <2>5, <3>1, <3>2, RemovedTaken, RemovedFinished DEF Ticks
  <2>6. ASSUME NEW w \in Workers,
               SocialFails(w) \/ SocialStop(w) \/ SocialExit(w) \/ SocialRestart(w)
        PROVE  Removed(p)'
    <3>1. CASE SocialCrash(w) \/ SocialExit(w)
      <4>1. \A v \in Workers : at'[v] \in {at[v], NoPost} /\ todo'[v] \subseteq todo[v]
        BY <2>1, <3>1 DEF SocialCrash, SocialExit, SocialDies, Forget, SocialTypeOK, PublishTypeOK
      <4> QED
        BY <2>1, <3>1, <4>1, RemovedLetGo
        DEF SocialCrash, SocialExit, SocialDies, postVars, requestVars
    <3>2. CASE \/ MarkPublishedFails(w) \/ MarkFailedFails(w) \/ SocialStop(w)
               \/ SocialRestart(w) \/ \E t \in Targets : AnswerLost(w, t)
      BY <2>2, <3>2
      DEF AnswerLost, MarkPublishedFails, MarkFailedFails, NextTarget, SocialStop, SocialRestart,
          postVars, requestVars, loopVars
    <3> QED
      BY <2>6, <3>1, <3>2, RemovedFinished DEF SocialFails
  <2> QED
    BY <2>3, <2>4, <2>5, <2>6 DEF SocialNext
<1> QED
  BY <1>1, <1>2 DEF RemovalInv

\* A removed post is published by a worker only to the end of what that worker had in hand,
\* and its row says anything but DELETED only after such a worker or a crossing request.
THEOREM RemovalsHold == SocialSafe => []RemovalHolds
<1>1. SocialInit => RemovalInv
  BY SocialTypeInit DEF SocialInit, RemovalInv, Removed, SocialTypeOK, RemovalTypeOK
<1>2. RemovalInv => RemovalHolds
  BY DEF RemovalInv, Removed, RemovalHolds
<1> QED
  BY <1>1, <1>2, RemovalNext, PTL DEF SocialSafe

-----------------------------------------------------------------------------
(* The monthly report: any number of pollers, organisations and months.     *)

\* From the recipient to the campaign, the loop is at an organisation.
AtClient ==
  \A w \in Pollers :
    poller[w].step \in {"collecting", "creating", "writing"} => poller[w].at \in Clients

\* A poller is in the transaction for an organisation and a month.
Transacts(w, c, m) ==
  /\ poller[w].step \in {"creating", "writing"}
  /\ poller[w].at = c /\ poller[w].month = m

\* Where no two transactions overlapped, one poller at most is in it, there is one campaign
\* at most, and none while that poller has looked and is about to write.
AloneInTransaction ==
  \A c \in Clients, m \in 1..Periods : <<c, m>> \notin raced =>
    /\ \A v, w \in Pollers : Transacts(v, c, m) /\ Transacts(w, c, m) => v = w
    /\ campaigns[c][m] <= 1
    /\ \A w \in Pollers :
         Transacts(w, c, m) /\ poller[w].step = "writing" => campaigns[c][m] = 0

DigestInv == DigestTypeOK /\ AtClient /\ AloneInTransaction

\* The invariant holds before the first tick.
LEMMA DigestInvInit == DigestInit => DigestInv
<1> SUFFICES ASSUME DigestInit PROVE DigestInv
  OBVIOUS
<1>1. DigestTypeOK
  BY DigestAssumption DEF DigestInit, DigestTypeOK, DigestStep, Resting, DigestAssumption
<1>2. \A w \in Pollers : poller[w].step = "resting"
  BY DEF DigestInit, Resting
<1>3. \A c \in Clients, m \in 1..Periods : campaigns[c][m] = 0
  BY DEF DigestInit
<1> QED
  BY <1>1, <1>2, <1>3 DEF DigestInv, AtClient, AloneInTransaction, Transacts

\* A poller that goes elsewhere than into the transaction for an organisation leaves
\* everything as it was.
LEMMA PollerElsewhere ==
  ASSUME DigestInv, NEW w \in Pollers,
         NEW p \in [step : DigestStep, todo : SUBSET Clients, at : Clients \cup {Nobody},
                    month : 1..Periods],
         p.step \in {"resting", "looping", "collecting"},
         p.step = "collecting" => p.at \in Clients,
         poller' = [poller EXCEPT ![w] = p],
         UNCHANGED <<period, wants, reachable, campaigns, raced>>
  PROVE  DigestInv'
<1>1. DigestTypeOK'
  BY DEF DigestInv, DigestTypeOK
<1>2. poller'[w] = p /\ \A v \in Pollers \ {w} : poller'[v] = poller[v]
  BY DEF DigestInv, DigestTypeOK
<1>3. AtClient'
  BY <1>2 DEF DigestInv, AtClient
<1>4. \A v \in Pollers : \A c, m : Transacts(v, c, m)' => v # w /\ Transacts(v, c, m)
  BY <1>2 DEF Transacts
<1>5. AloneInTransaction'
  BY <1>2, <1>4 DEF DigestInv, AloneInTransaction
<1> QED
  BY <1>1, <1>3, <1>5 DEF DigestInv

\* The places the loop goes on to are outside any transaction.
LEMMA OnwardRests ==
  ASSUME DigestInv, NEW w \in Pollers
  PROVE  /\ Onward(w) \in [step : DigestStep, todo : SUBSET Clients,
                           at : Clients \cup {Nobody}, month : 1..Periods]
         /\ Onward(w).step \in {"resting", "looping"}
<1>1. poller[w] \in [step : DigestStep, todo : SUBSET Clients, at : Clients \cup {Nobody},
                     month : 1..Periods]
  BY DEF DigestInv, DigestTypeOK
<1>2. 1 \in 1..Periods
  BY DigestAssumption DEF DigestAssumption
<1>3. CASE poller[w].todo = {}
  BY <1>2, <1>3 DEF Onward, Resting, DigestStep
<1>4. CASE poller[w].todo # {}
  BY <1>1, <1>4 DEF Onward, DigestStep
<1> QED
  BY <1>3, <1>4

\* runOnce() begins outside any transaction.
LEMMA DigestInvTick ==
  ASSUME DigestInv, NEW w \in Pollers, Tick(w)
  PROVE  DigestInv'
<1> DEFINE p == [step |-> "looping", todo |-> wants, at |-> Nobody, month |-> period]
<1>1. p \in [step : DigestStep, todo : SUBSET Clients, at : Clients \cup {Nobody},
             month : 1..Periods]
  BY DEF DigestInv, DigestTypeOK, DigestStep
<1>2. poller' = [poller EXCEPT ![w] = p] /\ UNCHANGED <<period, wants, reachable, campaigns, raced>>
  BY DEF Tick
<1>3. p.step = "looping"
  OBVIOUS
<1> HIDE DEF p
<1> QED
  BY <1>1, <1>2, <1>3, PollerElsewhere

\* The cheap check and the recipient lead to the figures of an organisation, or on.
LEMMA DigestInvApproach ==
  ASSUME DigestInv, NEW w \in Pollers, Approach(w)
  PROVE  DigestInv'
<1> DEFINE Record == [step : DigestStep, todo : SUBSET Clients, at : Clients \cup {Nobody},
                      month : 1..Periods]
<1>1. poller[w] \in Record /\ poller[w].step = "looping"
  BY DEF DigestInv, DigestTypeOK, Approach
<1>2. PICK c \in poller[w].todo :
        LET here == [poller[w] EXCEPT !.todo = @ \ {c}, !.at = c]
        IN poller' = [poller EXCEPT ![w] =
                        IF campaigns[c][here.month] = 0 /\ c \in reachable
                        THEN [here EXCEPT !.step = "collecting"]
                        ELSE IF here.todo = {} THEN Resting
                        ELSE [here EXCEPT !.at = Nobody]]
  BY DEF Approach
<1> DEFINE here == [poller[w] EXCEPT !.todo = @ \ {c}, !.at = c]
<1>3. c \in Clients
  BY <1>1
<1>4. here \in Record /\ here.step = "looping"
  BY <1>1, <1>3
<1>5. UNCHANGED <<period, wants, reachable, campaigns, raced>>
  BY DEF Approach
<1>6. CASE campaigns[c][here.month] = 0 /\ c \in reachable
  <2> DEFINE p == [here EXCEPT !.step = "collecting"]
  <2>1. poller' = [poller EXCEPT ![w] = p]
    BY <1>2, <1>6
  <2>2. here.at = c
    BY <1>1
  <2>3. p \in Record /\ p.step = "collecting" /\ p.at = here.at
    <3> HIDE DEF here
    <3> QED
      BY <1>4 DEF DigestStep
  <2> HIDE DEF p
  <2> QED
    BY <2>1, <2>2, <2>3, <1>3, <1>5, PollerElsewhere
<1>7. CASE ~ (campaigns[c][here.month] = 0 /\ c \in reachable) /\ here.todo = {}
  <2>1. poller' = [poller EXCEPT ![w] = Resting]
    BY <1>2, <1>7
  <2>2. Resting \in Record /\ Resting.step = "resting"
    BY DigestAssumption DEF Resting, DigestStep, DigestAssumption
  <2> QED
    BY <2>1, <2>2, <1>5, PollerElsewhere
<1>8. CASE ~ (campaigns[c][here.month] = 0 /\ c \in reachable) /\ here.todo # {}
  <2> DEFINE p == [here EXCEPT !.at = Nobody]
  <2>1. poller' = [poller EXCEPT ![w] = p]
    BY <1>2, <1>8
  <2>2. p \in Record /\ p.step = "looping"
    <3> HIDE DEF here
    <3> QED
      BY <1>4
  <2> HIDE DEF p
  <2> QED
    BY <2>1, <2>2, <1>5, PollerElsewhere
<1> HIDE DEF here
<1> QED
  BY <1>6, <1>7, <1>8

\* A transaction that begins beside another one for the same report is remembered.
LEMMA DigestInvCollect ==
  ASSUME DigestInv, NEW w \in Pollers, Collect(w)
  PROVE  DigestInv'
<1>1. poller[w].step = "collecting" /\ poller[w].at \in Clients /\ poller[w].month \in 1..Periods
  BY DEF DigestInv, AtClient, DigestTypeOK, Collect
<1>2. /\ poller'[w] = [poller[w] EXCEPT !.step = "creating"]
      /\ \A v \in Pollers \ {w} : poller'[v] = poller[v]
  BY DEF DigestInv, DigestTypeOK, Collect
<1>3. poller[w] \in [step : DigestStep, todo : SUBSET Clients, at : Clients \cup {Nobody},
                     month : 1..Periods]
  BY DEF DigestInv, DigestTypeOK
<1>4. poller'[w].step = "creating" /\ poller'[w].at = poller[w].at
        /\ poller'[w].month = poller[w].month
  BY <1>2, <1>3
<1>5. [poller[w] EXCEPT !.step = "creating"] \in
        [step : DigestStep, todo : SUBSET Clients, at : Clients \cup {Nobody},
         month : 1..Periods]
  BY <1>3 DEF DigestStep
<1>6. /\ raced \subseteq raced' /\ raced' \subseteq raced \cup {<<poller[w].at, poller[w].month>>}
      /\ \A v \in Pollers \ {w} : Transacts(v, poller[w].at, poller[w].month) =>
           <<poller[w].at, poller[w].month>> \in raced'
  BY DEF Collect, Transacts
<1>7. DigestTypeOK'
  <2>1. poller' \in [Pollers -> [step : DigestStep, todo : SUBSET Clients,
                                 at : Clients \cup {Nobody}, month : 1..Periods]]
    BY <1>5 DEF DigestInv, DigestTypeOK, Collect
  <2>2. raced' \subseteq Clients \X (1..Periods)
    BY <1>1, <1>6 DEF DigestInv, DigestTypeOK
  <2>3. UNCHANGED <<period, wants, reachable, campaigns>>
    BY DEF Collect
  <2> QED
    BY <2>1, <2>2, <2>3 DEF DigestInv, DigestTypeOK
<1>8. AtClient'
  BY <1>1, <1>2, <1>4 DEF DigestInv, AtClient
<1>9. \A v \in Pollers : \A c, m :
        Transacts(v, c, m)' <=>
          IF v = w THEN c = poller[w].at /\ m = poller[w].month ELSE Transacts(v, c, m)
  BY <1>2, <1>4 DEF Transacts
<1>10. UNCHANGED campaigns
  BY DEF Collect
<1>11. ASSUME NEW c \in Clients, NEW m \in 1..Periods, <<c, m>> \notin raced'
       PROVE  /\ \A v, u \in Pollers : Transacts(v, c, m)' /\ Transacts(u, c, m)' => v = u
              /\ campaigns'[c][m] <= 1
              /\ \A v \in Pollers :
                   Transacts(v, c, m)' /\ poller'[v].step = "writing" => campaigns'[c][m] = 0
  <2>1. <<c, m>> \notin raced
    BY <1>6, <1>11
  <2>2. /\ \A v, u \in Pollers : Transacts(v, c, m) /\ Transacts(u, c, m) => v = u
        /\ campaigns[c][m] <= 1
        /\ \A v \in Pollers :
             Transacts(v, c, m) /\ poller[v].step = "writing" => campaigns[c][m] = 0
    BY <2>1 DEF DigestInv, AloneInTransaction
  <2>3. Transacts(w, c, m)' => \A v \in Pollers \ {w} : ~ Transacts(v, c, m)
    BY <1>6, <1>9, <1>11
  <2>4. \A v \in Pollers : poller'[v].step = "writing" => v # w /\ poller[v].step = "writing"
    BY <1>2, <1>4
  <2> QED
    BY <2>2, <2>3, <2>4, <1>9, <1>10
<1>12. AloneInTransaction'
  BY <1>11 DEF AloneInTransaction
<1> QED
  BY <1>7, <1>8, <1>12 DEF DigestInv

\* The transaction writes only what it has not found.
LEMMA DigestInvRecheck ==
  ASSUME DigestInv, NEW w \in Pollers, Recheck(w)
  PROVE  DigestInv'
<1>1. UNCHANGED <<period, wants, reachable, campaigns, raced>>
  BY DEF Recheck
<1>2. CASE Reported(w)
  <2>1. poller' = [poller EXCEPT ![w] = Onward(w)]
    BY <1>2 DEF Recheck, MadeMeanwhile
  <2> QED
    BY <2>1, <1>1, OnwardRests, PollerElsewhere
<1>3. CASE ~ Reported(w)
  <2> DEFINE p == [poller[w] EXCEPT !.step = "writing"]
  <2>1. poller' = [poller EXCEPT ![w] = p]
    BY <1>3 DEF Recheck, MadeMeanwhile
  <2>2. poller[w] \in [step : DigestStep, todo : SUBSET Clients, at : Clients \cup {Nobody},
                       month : 1..Periods]
    BY DEF DigestInv, DigestTypeOK
  <2>3. /\ p \in [step : DigestStep, todo : SUBSET Clients, at : Clients \cup {Nobody},
                  month : 1..Periods]
        /\ p.step = "writing" /\ p.at = poller[w].at /\ p.month = poller[w].month
    BY <2>2 DEF DigestStep
  <2> HIDE DEF p
  <2>4. poller[w].step = "creating"
    BY DEF Recheck
  <2>5. poller'[w] = p /\ \A v \in Pollers \ {w} : poller'[v] = poller[v]
    BY <2>1 DEF DigestInv, DigestTypeOK
  <2>6. DigestTypeOK'
    BY <2>1, <2>3, <1>1 DEF DigestInv, DigestTypeOK
  <2>7. AtClient'
    BY <2>3, <2>4, <2>5 DEF DigestInv, AtClient
  <2>8. \A v \in Pollers : \A c, m : Transacts(v, c, m)' <=> Transacts(v, c, m)
    BY <2>3, <2>4, <2>5 DEF Transacts
  <2>9. campaigns[poller[w].at][poller[w].month] = 0
    <3>1. poller[w].at \in Clients /\ poller[w].month \in 1..Periods
      BY <2>2, <2>4 DEF DigestInv, AtClient
    <3>2. campaigns[poller[w].at][poller[w].month] \in Nat
      BY <3>1 DEF DigestInv, DigestTypeOK
    <3> QED
      BY <3>2, <1>3 DEF Reported
  <2>10. \A c, m : Transacts(w, c, m) => c = poller[w].at /\ m = poller[w].month
    BY DEF Transacts
  <2>11. AloneInTransaction'
    BY <2>5, <2>8, <2>9, <2>10, <1>1 DEF DigestInv, AloneInTransaction
  <2> QED
    BY <2>6, <2>7, <2>11 DEF DigestInv
<1> QED
  BY <1>2, <1>3

\* A campaign is made where there was none, unless transactions overlapped.
LEMMA DigestInvCreate ==
  ASSUME DigestInv, NEW w \in Pollers, Create(w)
  PROVE  DigestInv'
<1> DEFINE c0 == poller[w].at
           m0 == poller[w].month
<1>1. c0 \in Clients /\ m0 \in 1..Periods /\ poller[w].step = "writing"
  BY DEF DigestInv, AtClient, DigestTypeOK, Create
<1>2. /\ poller' = [poller EXCEPT ![w] = Onward(w)]
      /\ campaigns' = [campaigns EXCEPT ![c0][m0] = @ + 1]
      /\ UNCHANGED <<period, wants, reachable, raced>>
  BY DEF Create
<1>3. Transacts(w, c0, m0)
  BY <1>1 DEF Transacts
<1> HIDE DEF c0, m0
<1>4. campaigns \in [Clients -> [1..Periods -> Nat]]
  BY DEF DigestInv, DigestTypeOK
<1>5. \A c \in Clients, m \in 1..Periods :
        campaigns'[c][m] = IF c = c0 /\ m = m0 THEN campaigns[c][m] + 1 ELSE campaigns[c][m]
  BY <1>1, <1>2, <1>4
<1>6. campaigns' \in [Clients -> [1..Periods -> Nat]]
  <2> DEFINE row == [campaigns[c0] EXCEPT ![m0] = @ + 1]
  <2>1. row \in [1..Periods -> Nat]
    <3>1. campaigns[c0] \in [1..Periods -> Nat] /\ campaigns[c0][m0] \in Nat
      BY <1>1, <1>4
    <3>2. campaigns[c0][m0] + 1 \in Nat
      BY <3>1
    <3> QED
      BY <3>1, <3>2
  <2>2. campaigns' = [campaigns EXCEPT ![c0] = row]
    BY <1>2
  <2> HIDE DEF row
  <2> QED
    BY <2>1, <2>2, <1>1, <1>4
<1>7. DigestTypeOK'
  BY <1>2, <1>6, OnwardRests DEF DigestInv, DigestTypeOK
<1>8. poller'[w] = Onward(w) /\ \A v \in Pollers \ {w} : poller'[v] = poller[v]
  BY <1>2 DEF DigestInv, DigestTypeOK
<1>9. AtClient'
  BY <1>8, OnwardRests DEF DigestInv, AtClient
<1>10. \A v \in Pollers : \A c, m : Transacts(v, c, m)' => v # w /\ Transacts(v, c, m)
  BY <1>8, OnwardRests DEF Transacts
<1>11. ASSUME NEW c \in Clients, NEW m \in 1..Periods, <<c, m>> \notin raced'
       PROVE  /\ \A v, u \in Pollers : Transacts(v, c, m)' /\ Transacts(u, c, m)' => v = u
              /\ campaigns'[c][m] <= 1
              /\ \A v \in Pollers :
                   Transacts(v, c, m)' /\ poller'[v].step = "writing" => campaigns'[c][m] = 0
  <2>1. /\ \A v, u \in Pollers : Transacts(v, c, m) /\ Transacts(u, c, m) => v = u
        /\ campaigns[c][m] <= 1
        /\ \A v \in Pollers :
             Transacts(v, c, m) /\ poller[v].step = "writing" => campaigns[c][m] = 0
    BY <1>2, <1>11 DEF DigestInv, AloneInTransaction
  <2>2. CASE c = c0 /\ m = m0
    <3>1. \A v \in Pollers : ~ Transacts(v, c, m)'
      BY <2>1, <2>2, <1>3, <1>10
    <3>2. campaigns'[c][m] = 1
      BY <2>1, <2>2, <1>1, <1>3, <1>5
    <3> QED
      BY <3>1, <3>2
  <2>3. CASE ~ (c = c0 /\ m = m0)
    <3>1. campaigns'[c][m] = campaigns[c][m]
      BY <2>3, <1>5
    <3> QED
      BY <3>1, <2>1, <1>8, <1>10
  <2> QED
    BY <2>2, <2>3
<1>12. AloneInTransaction'
  BY <1>11 DEF AloneInTransaction
<1> QED
  BY <1>7, <1>9, <1>12 DEF DigestInv

\* What fails leaves the transaction without a campaign.
LEMMA DigestInvInterrupt ==
  ASSUME DigestInv, NEW w \in Pollers, Interrupt(w)
  PROVE  DigestInv'
<1>1. UNCHANGED <<period, wants, reachable, campaigns, raced>>
  BY DEF Interrupt
<1>2. CASE poller' = [poller EXCEPT ![w] = Onward(w)]
  BY <1>1, <1>2, OnwardRests, PollerElsewhere
<1>3. CASE poller' = [poller EXCEPT ![w] = Resting]
  <2>1. /\ Resting \in [step : DigestStep, todo : SUBSET Clients, at : Clients \cup {Nobody},
                        month : 1..Periods]
        /\ Resting.step = "resting"
    BY DigestAssumption DEF Resting, DigestStep, DigestAssumption
  <2> QED
    BY <1>1, <1>3, <2>1, PollerElsewhere
<1> QED
  BY <1>2, <1>3 DEF Interrupt

\* Neither the calendar nor the settings touch a transaction.
LEMMA DigestInvOutside ==
  ASSUME DigestInv, MonthEnds \/ \E c \in Clients : ChangeSettings(c)
  PROVE  DigestInv'
<1>1. UNCHANGED <<campaigns, poller, raced>>
  BY DEF MonthEnds, ChangeSettings
<1>2. period' \in 1..Periods
  BY DigestAssumption DEF DigestAssumption, DigestInv, DigestTypeOK, MonthEnds, ChangeSettings
<1>3. wants' \subseteq Clients /\ reachable' \subseteq Clients
  BY DEF DigestInv, DigestTypeOK, MonthEnds, ChangeSettings
<1> QED
  BY <1>1, <1>2, <1>3 DEF DigestInv, DigestTypeOK, AtClient, AloneInTransaction, Transacts

\* Every step preserves the invariant.
LEMMA DigestInvNext == DigestInv /\ [DigestNext]_digestVars => DigestInv'
<1> SUFFICES ASSUME DigestInv, [DigestNext]_digestVars PROVE DigestInv'
  OBVIOUS
<1>1. CASE UNCHANGED digestVars
  BY <1>1
  DEF digestVars, DigestInv, DigestTypeOK, AtClient, AloneInTransaction, Transacts
<1>2. CASE MonthEnds \/ \E c \in Clients : ChangeSettings(c)
  BY <1>2, DigestInvOutside
<1>3. ASSUME NEW w \in Pollers, Tick(w) \/ PollerStep(w) \/ Interrupt(w)
      PROVE  DigestInv'
  BY <1>3, DigestInvTick, DigestInvApproach, DigestInvCollect, DigestInvRecheck,
     DigestInvCreate, DigestInvInterrupt DEF PollerStep
<1> QED
  BY <1>1, <1>2, <1>3 DEF DigestNext

\* The types, the organisation a poller is at, and at most one campaign and one
\* transaction for a report of which no two transactions overlapped.
THEOREM DigestInvariant == DigestSpec => []DigestInv
<1> QED
  BY DigestInvInit, DigestInvNext, PTL DEF DigestSpec

\* A client gets one report a month, however many workers, crashes and retries, unless two
\* workers were in the transaction for it at the same time.
THEOREM ReportsNeedRaceToRepeat == DigestSpec => []SecondReportNeedsRace
<1>1. DigestInv => SecondReportNeedsRace
  <2> SUFFICES ASSUME DigestInv, NEW c \in Clients, NEW m \in 1..Periods,
                      campaigns[c][m] > 1, <<c, m>> \notin raced
               PROVE  FALSE
    BY DEF SecondReportNeedsRace
  <2>1. campaigns[c][m] \in Nat /\ campaigns[c][m] <= 1
    BY DEF DigestInv, DigestTypeOK, AloneInTransaction
  <2> QED
    BY <2>1
<1> QED
  BY <1>1, DigestInvariant, PTL
=============================================================================
