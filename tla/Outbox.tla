------------------------------- MODULE Outbox -------------------------------
(***************************************************************************)
(* The transactional outbox (packages/database/src/outbox.ts), the         *)
(* dispatchers that relay it (apps/worker/src/outbox-dispatcher.ts), one   *)
(* per worker process, and the queue they relay it to (JobQueue).          *)
(*                                                                         *)
(* An event is its row id, which is also its job id; ids are numbers in    *)
(* the order of occurred_at.  All queues are modelled as one.              *)
(***************************************************************************)
EXTENDS JobQueue

CONSTANTS
  Dispatchers,  \* the worker processes
  Known,        \* events whose name isKnownEventName accepts
  Routed,       \* known events with an entry in EVENT_ROUTES
  BatchSize,    \* DispatcherOptions.batchSize
  MaxAttempts,  \* requeueOutboxEvent's maxAttempts
  Faults,       \* the kinds of fault that happen
  MaxFaults     \* bound: how many faults happen in one behaviour

Events == Jobs

FaultKinds == {"crash", "stop", "rollback", "claim_ack", "requeue"}

ASSUME OutboxAssumption ==
  /\ Jobs \subseteq Nat
  /\ Known \subseteq Events
  /\ Routed \subseteq Known
  /\ BatchSize \in Nat \ {0}
  /\ MaxAttempts \in Nat \ {0}
  /\ Faults \subseteq FaultKinds
  /\ MaxFaults \in Nat

VARIABLES
  status,    \* [Events -> RowStatus]: outbox_event.status, "absent" before the insert
  attempts,  \* [Events -> Nat]: outbox_event.attempts
  due,       \* [Events -> BOOLEAN]: available_at <= now()
  mode,      \* [Dispatchers -> Mode]: the process and its `running` flag
  picked,    \* rows the dispatcher's open claim transaction has locked
  batch,     \* rows of its committed claim that the loop has yet to reach
  failing,   \* the row whose markFailed is under way, if any
  faults     \* history: faults so far

relayVars == <<status, attempts, due, mode, picked, batch, failing, faults>>
outboxVars == <<relayVars, queueVars>>

RowStatus == {"absent", "PENDING", "DISPATCHED", "DEAD_LETTERED"}
Mode == {"running", "stopping", "down"}

OutboxTypeOK ==
  /\ status \in [Events -> RowStatus]
  /\ attempts \in [Events -> 0..MaxAttempts]
  /\ due \in [Events -> BOOLEAN]
  /\ mode \in [Dispatchers -> Mode]
  /\ picked \in [Dispatchers -> SUBSET Events]
  /\ batch \in [Dispatchers -> SUBSET Events]
  /\ failing \in [Dispatchers -> SUBSET Events]
  /\ faults \in 0..MaxFaults

OutboxInit ==
  /\ QueueInit
  /\ status = [e \in Events |-> "absent"]
  /\ attempts = [e \in Events |-> 0]
  /\ due = [e \in Events |-> FALSE]
  /\ mode = [d \in Dispatchers |-> "running"]
  /\ picked = [d \in Dispatchers |-> {}]
  /\ batch = [d \in Dispatchers |-> {}]
  /\ failing = [d \in Dispatchers |-> {}]
  /\ faults = 0

\* The rows a dispatcher has claimed and not finished with.
Hands(d) == batch[d] \cup failing[d]
InHands == UNION {Hands(d) : d \in Dispatchers}

Idle(d) == picked[d] = {} /\ Hands(d) = {}

Fault(kind) ==
  /\ kind \in Faults
  /\ faults < MaxFaults
  /\ faults' = faults + 1

-----------------------------------------------------------------------------
(* The producer and the clock.                                             *)

\* A request commits its change together with the event row; availableAt may
\* lie in the future.
Publish(e) ==
  /\ status[e] = "absent"
  /\ status' = [status EXCEPT ![e] = "PENDING"]
  /\ \E now \in BOOLEAN : due' = [due EXCEPT ![e] = now]
  /\ UNCHANGED <<attempts, mode, picked, batch, failing, faults, queueVars>>

\* available_at passes.
Elapse(e) ==
  /\ status[e] = "PENDING"
  /\ ~ due[e]
  /\ due' = [due EXCEPT ![e] = TRUE]
  /\ UNCHANGED <<status, attempts, mode, picked, batch, failing, faults, queueVars>>

-----------------------------------------------------------------------------
(* One tick of a dispatcher.                                               *)

\* Seeded fault: rows locked by another claim are not skipped.
EligibleLockedToo(d) == {e \in Events : status[e] = "PENDING" /\ due[e]}

\* Seeded fault: parked rows are taken as well.
EligibleParkedToo(d) ==
  {e \in Events : /\ status[e] \in {"PENDING", "DEAD_LETTERED"}
                  /\ due[e] \/ status[e] = "DEAD_LETTERED"
                  /\ \A c \in Dispatchers : e \notin picked[c]}

\* The rows FOR UPDATE SKIP LOCKED may return to d.
Eligible(d) ==
  {e \in Events : /\ status[e] = "PENDING"
                  /\ due[e]
                  /\ \A c \in Dispatchers : e \notin picked[c]}

\* S is what ORDER BY occurred_at LIMIT BatchSize leaves of E.
Oldest(S, E) ==
  /\ S \subseteq E
  /\ IsFiniteSet(S)
  /\ S = E \/ Cardinality(S) = BatchSize
  /\ Cardinality(S) <= BatchSize
  /\ \A e \in S, f \in E \ S : e < f

\* The CTE of claimOutboxBatch locks its rows; a tick that finds none ends there.
ClaimSelect(d) ==
  /\ mode[d] = "running"
  /\ Idle(d)
  /\ \E S \in SUBSET Eligible(d) \ {{}} :
       /\ Oldest(S, Eligible(d))
       /\ picked' = [picked EXCEPT ![d] = S]
  /\ UNCHANGED <<status, attempts, due, mode, batch, failing, faults, queueVars>>

\* The UPDATE of claimOutboxBatch on the rows in S.
MarkDispatched(S) ==
  /\ status' = [e \in Events |-> IF e \in S THEN "DISPATCHED" ELSE status[e]]
  /\ attempts' = [e \in Events |-> IF e \in S THEN attempts[e] + 1 ELSE attempts[e]]

\* The claim commits and its rows reach the loop.
ClaimCommit(d) ==
  /\ picked[d] # {}
  /\ MarkDispatched(picked[d])
  /\ batch' = [batch EXCEPT ![d] = picked[d]]
  /\ picked' = [picked EXCEPT ![d] = {}]
  /\ UNCHANGED <<due, mode, failing, faults, queueVars>>

\* The claim transaction fails: its locks are gone and start() carries on.
ClaimRollback(d) ==
  /\ picked[d] # {}
  /\ Fault("rollback")
  /\ picked' = [picked EXCEPT ![d] = {}]
  /\ UNCHANGED <<status, attempts, due, mode, batch, failing, queueVars>>

\* The claim commits but the answer is lost: tick() throws without the rows.
ClaimUnacknowledged(d) ==
  /\ picked[d] # {}
  /\ Fault("claim_ack")
  /\ MarkDispatched(picked[d])
  /\ picked' = [picked EXCEPT ![d] = {}]
  /\ UNCHANGED <<due, mode, batch, failing, queueVars>>

\* The loop looks at e, the previous event's markFailed having returned.
Reaches(d, e) ==
  /\ failing[d] = {}
  /\ e \in batch[d]
  /\ batch' = [batch EXCEPT ![d] = @ \ {e}]

\* An event whose name no contract knows goes to markFailed.
RelayUnknown(d, e) ==
  /\ Reaches(d, e)
  /\ e \notin Known
  /\ failing' = [failing EXCEPT ![d] = {e}]
  /\ UNCHANGED <<status, attempts, due, mode, picked, faults, queueVars>>

\* An event no queue wants is acknowledged: its row is DISPATCHED already.
RelayUnrouted(d, e) ==
  /\ Reaches(d, e)
  /\ e \in Known \ Routed
  /\ UNCHANGED <<status, attempts, due, mode, picked, failing, faults, queueVars>>

\* Queue.add succeeds, or it throws, whether or not Redis took the job, and the
\* event goes to markFailed.
RelayRouted(d, e) ==
  /\ Reaches(d, e)
  /\ e \in Routed
  /\ \/ Add(e) /\ UNCHANGED failing
     \/ /\ Add(e) \/ UNCHANGED job
        /\ failing' = [failing EXCEPT ![d] = {e}]
  /\ UNCHANGED <<status, attempts, due, mode, picked, faults,
                 made, stalls, starts, dlq, logged>>

\* Seeded fault: no limit on the attempts (kept within MaxAttempts by the model).
RequeueRowForever(e) ==
  /\ status' = [status EXCEPT ![e] = "PENDING"]
  /\ attempts' = [attempts EXCEPT ![e] = IF @ = MaxAttempts THEN @ - 1 ELSE @]
  /\ due' = [due EXCEPT ![e] = FALSE]

\* Seeded fault: `>` instead of `>=`.
RequeueRowLate(e) ==
  /\ status' = [status EXCEPT ![e] = IF attempts[e] > MaxAttempts
                                       THEN "DEAD_LETTERED" ELSE "PENDING"]
  /\ due' = [due EXCEPT ![e] = FALSE]
  /\ UNCHANGED attempts

\* The UPDATE of requeueOutboxEvent: the back-off is at least a second.
RequeueRow(e) ==
  /\ status' = [status EXCEPT ![e] = IF attempts[e] >= MaxAttempts
                                       THEN "DEAD_LETTERED" ELSE "PENDING"]
  /\ due' = [due EXCEPT ![e] = FALSE]
  /\ UNCHANGED attempts

\* Seeded fault: markFailed only logs.
RequeueNot(d) ==
  \E e \in failing[d] :
    /\ failing' = [failing EXCEPT ![d] = {}]
    /\ UNCHANGED <<status, attempts, due, mode, picked, batch, faults, queueVars>>

\* markFailed returns and the loop goes on.
Requeue(d) ==
  \E e \in failing[d] :
    /\ RequeueRow(e)
    /\ failing' = [failing EXCEPT ![d] = {}]
    /\ UNCHANGED <<mode, picked, batch, faults, queueVars>>

\* markFailed throws, committed or not: tick() throws out of the loop and the rest
\* of the batch is forgotten.
RequeueThrows(d) ==
  \E e \in failing[d] :
    /\ Fault("requeue")
    /\ RequeueRow(e) \/ UNCHANGED <<status, attempts, due>>
    /\ failing' = [failing EXCEPT ![d] = {}]
    /\ batch' = [batch EXCEPT ![d] = {}]
    /\ UNCHANGED <<mode, picked, queueVars>>

-----------------------------------------------------------------------------
(* The process around it.                                                  *)

\* SIGTERM: stop() clears `running`; a tick in flight goes on.
Stop(d) ==
  /\ mode[d] = "running"
  /\ Fault("stop")
  /\ mode' = [mode EXCEPT ![d] = "stopping"]
  /\ UNCHANGED <<status, attempts, due, picked, batch, failing, queueVars>>

\* The process is gone: an open claim rolls back, the batch was in memory only.
Dies(d) ==
  /\ mode' = [mode EXCEPT ![d] = "down"]
  /\ picked' = [picked EXCEPT ![d] = {}]
  /\ batch' = [batch EXCEPT ![d] = {}]
  /\ failing' = [failing EXCEPT ![d] = {}]
  /\ UNCHANGED <<status, attempts, due, queueVars>>

\* process.exit(0): the shutdown sequence never waits for the tick in flight.
Exit(d) ==
  /\ mode[d] = "stopping"
  /\ Dies(d)
  /\ UNCHANGED faults

Crash(d) ==
  /\ mode[d] # "down"
  /\ Fault("crash")
  /\ Dies(d)

\* The orchestrator starts the process again.
Restart(d) ==
  /\ mode[d] = "down"
  /\ mode' = [mode EXCEPT ![d] = "running"]
  /\ UNCHANGED <<status, attempts, due, picked, batch, failing, faults, queueVars>>

-----------------------------------------------------------------------------
Claims(d) == ClaimSelect(d) \/ ClaimCommit(d)

Relays(d) ==
  \/ \E e \in Events : RelayUnknown(d, e) \/ RelayUnrouted(d, e) \/ RelayRouted(d, e)
  \/ Requeue(d)

Fails(d) ==
  ClaimRollback(d) \/ ClaimUnacknowledged(d) \/ RequeueThrows(d) \/ Stop(d) \/ Crash(d)

OutboxNext ==
  \/ \E e \in Events : Publish(e) \/ Elapse(e)
  \/ \E d \in Dispatchers : Claims(d) \/ Relays(d) \/ Fails(d) \/ Exit(d) \/ Restart(d)
  \/ \E j \in Jobs : Consume(j) /\ UNCHANGED relayVars

\* start() loops for ever, so a live dispatcher keeps ticking; time passes; a process
\* that has stopped exits and is started again. No fault ever has to happen.
OutboxFairness ==
  /\ \A e \in Events : WF_outboxVars(Elapse(e))
  /\ \A d \in Dispatchers :
       /\ WF_outboxVars(Claims(d) \/ Relays(d))
       /\ WF_outboxVars(Exit(d) \/ Restart(d))

OutboxSafe == OutboxInit /\ [][OutboxNext]_outboxVars
OutboxSpec == OutboxSafe /\ OutboxFairness

-----------------------------------------------------------------------------
(* Properties.                                                             *)

\* Two dispatchers never hold the same row, in a claim under way or in a committed
\* batch, and what a committed batch holds is DISPATCHED: "each takes a disjoint
\* batch" (outbox.ts:117), also across requeues and restarts.
DisjointBatches ==
  /\ \A c, d \in Dispatchers :
       c # d => (picked[c] \cup Hands(c)) \cap (picked[d] \cup Hands(d)) = {}
  /\ \A d \in Dispatchers : \A e \in Hands(d) : status[e] = "DISPATCHED"

\* A row that says DISPATCHED although no queue got the event and no dispatcher is
\* still working on it: nothing will ever look at it again.
Lost ==
  {e \in Events \ (Known \ Routed) :
     status[e] = "DISPATCHED" /\ job[e] = "none" /\ e \notin InHands}

\* Whatever fails, one fault costs at most the batch it interrupts.
LossBounded == Cardinality(Lost) <= BatchSize * faults

\* A row is parked after exactly MaxAttempts claims, however its failures were
\* spread over dispatchers and restarts, and until then it is still being relayed.
ParkedWhenExhausted ==
  \A e \in Events :
    /\ status[e] = "DEAD_LETTERED" => attempts[e] = MaxAttempts
    /\ status[e] = "PENDING" => attempts[e] < MaxAttempts

\* The outbox read as the abstract relay.
fate ==
  [e \in Events |->
     CASE job[e] # "none" -> "delivered"
       [] job[e] = "none" /\ status[e] = "absent" -> "unborn"
       [] job[e] = "none" /\ status[e] = "DEAD_LETTERED" -> "parked"
       [] job[e] = "none" /\ status[e] = "PENDING" -> "held"
       [] OTHER -> IF e \in InHands THEN "held"
                   ELSE IF e \in Known \ Routed THEN "acknowledged" ELSE "lost"]

Relay == INSTANCE EventRelay WITH
           NoConsumer <- Known \ Routed,
           Lossy <- Faults # {} /\ MaxFaults > 0

\* The outbox implements the relay: it never forgets, duplicates or revives an event,
\* and loses one only if faults happen at all.
RelaySpec == Relay!Spec

\* Every committed event eventually leaves the relay: delivered, acknowledged, parked,
\* or, if faults happen, lost. A poisoned row blocks nobody (outbox.ts:165).
EventsSettle == Relay!Settles

\* outbox-dispatcher.ts:15 "an event cannot be lost".
NoEventLost == Relay!NothingLost
=============================================================================
