------------------------------ MODULE JobQueue ------------------------------
(***************************************************************************)
(* One BullMQ queue, the worker that consumes it and its dead-letter queue *)
(* (apps/worker/src/main.ts, apps/worker/src/queues.ts).                   *)
(*                                                                         *)
(* Redis and BullMQ are not part of the repository: what they do with a    *)
(* job is modelled from how the worker configures and calls them.          *)
(***************************************************************************)
EXTENDS Naturals, FiniteSets

CONSTANTS
  Jobs,            \* the job ids producers use
  Tenantless,      \* jobs whose payload carries no organizationId
  PolicyAttempts,  \* [Jobs -> Nat]: the attempts the job's queue declares in QUEUE_POLICIES
  MaxStalled       \* Worker option maxStalledCount

ASSUME JobQueueAssumption ==
  /\ Tenantless \subseteq Jobs
  /\ PolicyAttempts \in [Jobs -> Nat \ {0}]
  /\ MaxStalled \in Nat

VARIABLES
  job,      \* [Jobs -> JobState]: where BullMQ holds the job
  made,     \* [Jobs -> Nat]: job.attemptsMade
  stalls,   \* [Jobs -> Nat]: times the job was reclaimed from a dead worker
  starts,   \* [Jobs -> Nat]: history, times the handler was started
  dlq,      \* the jobs copied to the dead-letter queue
  logged    \* the jobs whose copy to it failed: kept in a log line only

queueVars == <<job, made, stalls, starts, dlq, logged>>

\* "held" is an active job whose worker died and whose lock has not expired yet.
JobState == {"none", "waiting", "active", "held", "completed", "failed"}

\* Queue.add passes no `attempts`, and no Queue is built with defaultJobOptions,
\* so a job runs once: the attempts of QUEUE_POLICIES never reach it.
JobAttempts == 1

QueueTypeOK ==
  /\ job \in [Jobs -> JobState]
  /\ made \in [Jobs -> 0..JobAttempts]
  /\ stalls \in [Jobs -> 0..MaxStalled + 1]
  /\ starts \in [Jobs -> Nat]
  /\ dlq \subseteq Jobs
  /\ logged \subseteq Jobs

QueueInit ==
  /\ job = [j \in Jobs |-> "none"]
  /\ made = [j \in Jobs |-> 0]
  /\ stalls = [j \in Jobs |-> 0]
  /\ starts = [j \in Jobs |-> 0]
  /\ dlq = {}
  /\ logged = {}

-----------------------------------------------------------------------------

\* Queue.add with an explicit jobId: an id that Redis still knows is ignored, and
\* without removeOnComplete/removeOnFail Redis never forgets one.
Add(j) == job' = [job EXCEPT ![j] = IF @ = "none" THEN "waiting" ELSE @]

\* A worker picks the job up, opens the tenant context and starts the handler; a
\* job without a tenant is refused before the handler.
Take(j) ==
  /\ job[j] = "waiting"
  /\ job' = [job EXCEPT ![j] = "active"]
  /\ starts' = [starts EXCEPT ![j] = IF j \in Tenantless THEN @ ELSE @ + 1]
  /\ UNCHANGED <<made, stalls, dlq, logged>>

Succeed(j) ==
  /\ job[j] = "active"
  /\ j \notin Tenantless
  /\ job' = [job EXCEPT ![j] = "completed"]
  /\ UNCHANGED <<made, stalls, starts, dlq, logged>>

\* The 'failed' listener of attachDeadLetter. The copy to the dead-letter queue is
\* not awaited and may fail; then the payload survives in a log line only.
DeadLetter(j) ==
  IF made'[j] >= PolicyAttempts[j]
    THEN \/ dlq' = dlq \cup {j} /\ UNCHANGED logged
         \/ logged' = logged \cup {j} /\ UNCHANGED dlq
    ELSE UNCHANGED <<dlq, logged>>

\* The handler throws, or the payload names no tenant. BullMQ retries while the
\* job's own attempts allow it; the listener runs after every failure.
Fail(j) ==
  /\ job[j] = "active"
  /\ made' = [made EXCEPT ![j] = @ + 1]
  /\ job' = [job EXCEPT ![j] = IF made'[j] < JobAttempts THEN "waiting" ELSE "failed"]
  /\ DeadLetter(j)
  /\ UNCHANGED <<stalls, starts>>

\* The worker process dies with the job active: nobody renews its lock.
WorkerDies(j) ==
  /\ job[j] = "active"
  /\ job' = [job EXCEPT ![j] = "held"]
  /\ UNCHANGED <<made, stalls, starts, dlq, logged>>

\* The stalled-job check: back to the queue, or failed once the job has stalled
\* more than MaxStalled times (which is also a 'failed' event).
Reclaim(j) ==
  /\ job[j] = "held"
  /\ stalls' = [stalls EXCEPT ![j] = @ + 1]
  /\ \/ /\ stalls'[j] <= MaxStalled
        /\ job' = [job EXCEPT ![j] = "waiting"]
        /\ UNCHANGED <<made, dlq, logged>>
     \/ /\ stalls'[j] > MaxStalled
        /\ job' = [job EXCEPT ![j] = "failed"]
        /\ made' = [made EXCEPT ![j] = @ + 1]
        /\ DeadLetter(j)
  /\ UNCHANGED starts

Consume(j) == Take(j) \/ Succeed(j) \/ Fail(j) \/ WorkerDies(j) \/ Reclaim(j)

\* Any producer may add any id at any time, repeatedly.
Produce(j) == Add(j) /\ UNCHANGED <<made, stalls, starts, dlq, logged>>

QueueNext == \E j \in Jobs : Produce(j) \/ Consume(j)

QueueSpec == QueueInit /\ [][QueueNext]_queueVars

-----------------------------------------------------------------------------
\* The handler of a job starts at most once per attempt plus once per reclaim,
\* however many times its id is added: the dedup consumers are promised.
StartsBounded == \A j \in Jobs : starts[j] <= JobAttempts + MaxStalled

\* A finished job stays finished (main.ts keeps no path that revives one): a late
\* re-delivery of its event cannot run the handler again.
FinishedIsFinal ==
  [][\A j \in Jobs : job[j] \in {"completed", "failed"} => job'[j] = job[j]]_queueVars

\* main.ts:57 "Moves an exhausted job onto its dead-letter queue": a job BullMQ
\* will never run again is in the dead-letter queue, or was at least logged there.
ExhaustedIsDeadLettered ==
  \A j \in Jobs : job[j] = "failed" => j \in dlq \cup logged

\* The dead-letter queue holds final failures only: a job in it never runs (again)
\* and did not succeed, so that replaying it cannot repeat finished work.
DeadLettersAreFinal == \A j \in dlq \cup logged : job[j] = "failed"
=============================================================================
