------------------------------ MODULE Workflow ------------------------------
(***************************************************************************)
(* One workflow run: the requests that create, retry, pause and resume it  *)
(* (apps/api/src/modules/automation/workflow-engine.service.ts) and the    *)
(* handler that walks its graph (apps/worker/src/workflow/executor.ts),    *)
(* once per job of the workflow-execution queue (JobQueue).                *)
(*                                                                         *)
(* A run never becomes CANCELED and its graph, fixed by its version, always *)
(* parses: nothing in the repository writes anything else.                 *)
(***************************************************************************)
EXTENDS JobQueue

CONSTANTS
  Nodes,      \* the node ids of a graph
  NoNode,     \* no node, or an id the graph does not have
  Kind,       \* [Nodes -> NodeKind]
  Start,      \* graph.start
  Graphs,     \* the graphs a run may have, each [Nodes -> Nodes or NoNode]: node.next, and
              \* for a condition the branch it takes
  CanPause,   \* whether anybody pauses the workflow
  Faults,     \* the kinds of fault that happen
  MaxTrouble   \* bound: how many retry requests and faults happen in one behaviour

NodeKind == {"action", "delay", "condition"}
FaultKinds == {"crash", "enqueue", "answer", "write"}

ASSUME WorkflowAssumption ==
  /\ Jobs \subseteq Nat
  /\ Tenantless = {}
  /\ IsFiniteSet(Nodes)
  /\ NoNode \notin Nodes
  /\ Kind \in [Nodes -> NodeKind]
  /\ Start \in Nodes
  /\ Graphs \subseteq [Nodes -> Nodes \cup {NoNode}]
  /\ CanPause \in BOOLEAN
  /\ Faults \subseteq FaultKinds
  /\ MaxTrouble \in Nat

VARIABLES
  graph,     \* the graph of the run's version, which never changes
  run,       \* workflow_run.status, "absent" before the insert
  saved,     \* context._done of the run: the completed nodes, as persisted
  steps,     \* how many workflow_run_step rows the run has
  failed,    \* the <<position, node>> of those that are FAILED
  paused,    \* workflow.status = PAUSED
  wins,      \* workflow.successCount
  losses,    \* workflow.failureCount
  calling,   \* requests that have written but not yet enqueued: <<number, resume node>>
  payload,   \* [Jobs -> [resume, after]]: resumeNodeId, and the delay node it continues
  pc,        \* [Jobs -> Step]: where the job's handler is
  at,        \* [Jobs -> Nodes or NoNode]: its nodeId
  done,      \* [Jobs -> SUBSET Nodes]: its `done` set
  count,     \* [Jobs -> Nat]: its `steps` counter
  position,  \* [Jobs -> Nat]: its `position` counter
  effects,   \* [Nodes -> Nat]: history, how often the node's action took effect
  waited,    \* history: delay nodes whose delay ran out
  dropped,   \* history: why a job ended, or never began, without a verdict or a successor
  clicks,    \* history: retry requests so far
  faults     \* history: faults so far

runVars == <<run, saved, steps, failed>>
flowVars == <<paused, wins, losses>>
memory == <<at, done, count, position>>
history == <<effects, waited, dropped, clicks, faults>>
workflowVars == <<graph, runVars, flowVars, calling, payload, pc, memory, history, queueVars>>

RunStatus == {"absent", "PENDING", "RUNNING", "WAITING", "SUCCEEDED", "FAILED"}
Step == {"idle", "start", "pausing", "marking", "loop", "opened", "acted", "suspended",
         "throwing", "failing", "saving", "rethrowing", "returning"}

WorkflowTypeOK ==
  /\ QueueTypeOK
  /\ graph \in Graphs
  /\ run \in RunStatus
  /\ saved \subseteq Nodes
  /\ steps \in Nat
  /\ failed \subseteq Nat \X Nodes
  /\ paused \in BOOLEAN
  /\ wins \in Nat
  /\ losses \in Nat
  /\ calling \subseteq (0..MaxTrouble) \X (Nodes \cup {NoNode})
  /\ payload \in [Jobs -> [resume : Nodes \cup {NoNode}, after : Nodes \cup {NoNode}]]
  /\ pc \in [Jobs -> Step]
  /\ \A j \in Jobs : pc[j] = "idle" <=> job[j] # "active"
  /\ at \in [Jobs -> Nodes \cup {NoNode}]
  /\ \A j \in Jobs : pc[j] \in {"opened", "acted", "suspended", "throwing"} => at[j] # NoNode
  /\ done \in [Jobs -> SUBSET Nodes]
  /\ count \in [Jobs -> Nat]
  /\ position \in [Jobs -> Nat]
  /\ effects \in [Nodes -> Nat]
  /\ waited \subseteq {n \in Nodes : Kind[n] = "delay"}
  /\ dropped \subseteq {"enqueue", "pause", "write", "stalled"}
  /\ clicks \in 0..MaxTrouble
  /\ faults \in 0..MaxTrouble

WorkflowInit ==
  /\ QueueInit
  /\ graph \in Graphs
  /\ run = "absent"
  /\ saved = {}
  /\ steps = 0
  /\ failed = {}
  /\ paused = FALSE
  /\ wins = 0
  /\ losses = 0
  /\ calling = {}
  /\ payload = [j \in Jobs |-> [resume |-> NoNode, after |-> NoNode]]
  /\ pc = [j \in Jobs |-> "idle"]
  /\ at = [j \in Jobs |-> NoNode]
  /\ done = [j \in Jobs |-> {}]
  /\ count = [j \in Jobs |-> 0]
  /\ position = [j \in Jobs |-> 0]
  /\ effects = [n \in Nodes |-> 0]
  /\ waited = {}
  /\ dropped = {}
  /\ clicks = 0
  /\ faults = 0

Fault(kind) ==
  /\ kind \in Faults
  /\ clicks + faults < MaxTrouble
  /\ faults' = faults + 1

Drop(why) == dropped' = dropped \cup {why}

Goto(j, step) == pc' = [pc EXCEPT ![j] = step]

\* Queue.add without a jobId: a new job, the smallest free number here. (The runs have
\* jobs enough: none of their behaviours uses them all.)
AddJob(resume, after) ==
  \E j \in Jobs :
    /\ job[j] = "none"
    /\ \A i \in Jobs : job[i] = "none" => j <= i
    /\ Add(j)
    /\ payload' = [payload EXCEPT ![j] = [resume |-> resume, after |-> after]]
    /\ UNCHANGED <<made, stalls, starts, dlq, logged>>

-----------------------------------------------------------------------------
(* Requests.                                                               *)

\* trigger(): the run and the workflow's counters are committed first ...
Trigger ==
  /\ run = "absent"
  /\ run' = "PENDING"
  /\ calling' = calling \cup {<<0, NoNode>>}
  /\ UNCHANGED <<saved, steps, failed, flowVars, payload, pc, memory, history, queueVars>>

\* Where retry() resumes: the first FAILED step by position, if there is one.
FirstFailed ==
  {s[2] : s \in {s \in failed : \A t \in failed : s[1] <= t[1]}}

\* retry(): of a run in whatever status.
Retry ==
  /\ run # "absent"
  /\ clicks + faults < MaxTrouble
  /\ clicks' = clicks + 1
  /\ run' = "PENDING"
  /\ \E n \in IF failed = {} THEN {NoNode} ELSE FirstFailed :
       calling' = calling \cup {<<clicks', n>>}
  /\ UNCHANGED <<saved, steps, failed, flowVars, payload, pc, memory, effects, waited, dropped,
                 faults, queueVars>>

\* ... and the job is added after the commit, unless the API process dies in between
\* or Redis cannot be reached.
Enqueue ==
  \E c \in calling :
    /\ calling' = calling \ {c}
    /\ \/ AddJob(c[2], NoNode) /\ UNCHANGED <<dropped, faults>>
       \/ Fault("enqueue") /\ Drop("enqueue") /\ UNCHANGED <<payload, queueVars>>
    /\ UNCHANGED <<runVars, flowVars, pc, memory, effects, waited, clicks>>

\* pause and resume write the workflow's status and nothing else.
PauseOrResume ==
  /\ CanPause
  /\ run # "absent"
  /\ paused' = ~ paused
  /\ UNCHANGED <<runVars, wins, losses, calling, payload, pc, memory, history, queueVars>>

-----------------------------------------------------------------------------
(* The handler, from the job being taken to its return.                    *)

\* A worker takes the job; a delayed job not before its delay is over.
Begin(j) ==
  /\ Take(j)
  /\ Goto(j, "start")
  /\ waited' = waited \cup ({payload[j].after} \ {NoNode})
  /\ UNCHANGED <<runVars, flowVars, calling, payload, memory, effects, dropped, clicks, faults>>

\* The run, its completed nodes and the workflow's status are read.
Load(j) ==
  /\ pc[j] = "start"
  /\ Goto(j, IF paused THEN "pausing" ELSE "marking")
  /\ done' = [done EXCEPT ![j] = saved]
  /\ UNCHANGED <<runVars, flowVars, calling, payload, at, count, position, history, queueVars>>

\* The workflow was paused: the run is left WAITING, and the job is over.
LeaveWaiting(j) ==
  /\ pc[j] = "pausing"
  /\ run' = "WAITING"
  /\ Drop("pause")
  /\ Goto(j, "returning")
  /\ UNCHANGED <<saved, steps, failed, flowVars, calling, payload, memory, effects, waited, clicks,
                 faults, queueVars>>

\* RUNNING; the walk begins where the job says, or at the start. (The step count is
\* read in a transaction of its own, which only step numbers could tell.)
MarkRunning(j) ==
  /\ pc[j] = "marking"
  /\ run' = "RUNNING"
  /\ at' = [at EXCEPT ![j] = IF payload[j].resume = NoNode THEN Start ELSE payload[j].resume]
  /\ count' = [count EXCEPT ![j] = 0]
  /\ position' = [position EXCEPT ![j] = steps]
  /\ Goto(j, "loop")
  /\ UNCHANGED <<saved, steps, failed, flowVars, calling, payload, done, history, queueVars>>

MaxSteps == 4 * Cardinality(Nodes) + 10

AtLimit(j) == count[j] >= MaxSteps

\* Seeded fault: the loop does not stop at the end of the graph.
RoundPastEnd(j) ==
  /\ pc[j] = "loop"
  /\ ~ AtLimit(j)
  /\ count' = [count EXCEPT ![j] = IF @ = MaxSteps THEN @ ELSE @ + 1]

\* One more round of the loop, at a node.
Round(j) ==
  /\ pc[j] = "loop"
  /\ at[j] # NoNode
  /\ ~ AtLimit(j)
  /\ count' = [count EXCEPT ![j] = IF @ = MaxSteps THEN @ ELSE @ + 1]

\* Idempotent resume: a node already completed is passed over.
SkipDone(j) ==
  /\ Round(j)
  /\ at[j] \in done[j]
  /\ at' = [at EXCEPT ![j] = graph[@]]
  /\ UNCHANGED <<runVars, flowVars, calling, payload, pc, done, position, history, queueVars>>

\* Seeded fault: completed nodes are executed again.
OpenStepAgain(j) ==
  /\ Round(j)
  /\ steps' = steps + 1
  /\ position' = [position EXCEPT ![j] = @ + 1]
  /\ Goto(j, "opened")
  /\ UNCHANGED <<run, saved, failed, flowVars, calling, payload, at, done, history, queueVars>>

\* Any other node gets a step row before it is executed.
OpenStep(j) ==
  /\ Round(j)
  /\ at[j] \notin done[j]
  /\ steps' = steps + 1
  /\ position' = [position EXCEPT ![j] = @ + 1]
  /\ Goto(j, "opened")
  /\ UNCHANGED <<run, saved, failed, flowVars, calling, payload, at, done, history, queueVars>>

\* this_fail: the run is FAILED and the workflow's failure count goes up.
FailRun == run' = "FAILED" /\ losses' = losses + 1

\* The cycle guard: the run fails, the job does not.
StepLimit(j) ==
  /\ pc[j] = "loop"
  /\ at[j] # NoNode
  /\ AtLimit(j)
  /\ FailRun
  /\ Goto(j, "returning")
  /\ UNCHANGED <<saved, steps, failed, paused, wins, calling, payload, memory, history, queueVars>>

\* The end of the graph.
Finish(j) ==
  /\ pc[j] = "loop"
  /\ at[j] = NoNode
  /\ run' = "SUCCEEDED"
  /\ wins' = wins + 1
  /\ Goto(j, "returning")
  /\ UNCHANGED <<saved, steps, failed, paused, losses, calling, payload, memory, history,
                 queueVars>>

AddDone(j) == done' = [done EXCEPT ![j] = @ \cup {at[j]}]

\* A condition is evaluated and its step closed; that it is done is not persisted yet.
Decide(j) ==
  /\ pc[j] = "opened"
  /\ Kind[at[j]] = "condition"
  /\ AddDone(j)
  /\ at' = [at EXCEPT ![j] = graph[@]]
  /\ Goto(j, "loop")
  /\ UNCHANGED <<runVars, flowVars, calling, payload, count, position, history, queueVars>>

TakesEffect(j) == effects' = [effects EXCEPT ![at[j]] = @ + 1]

\* Seeded fault: the node counts as done before its action has run.
ActDoneFirst(j) ==
  /\ pc[j] = "opened"
  /\ Kind[at[j]] = "action"
  /\ AddDone(j)
  /\ \/ TakesEffect(j) /\ Goto(j, "acted")
     \/ UNCHANGED effects /\ Goto(j, "throwing")
  /\ UNCHANGED <<runVars, flowVars, calling, payload, at, count, position, waited, dropped, clicks,
                 faults, queueVars>>

\* The action takes effect, or throws without one.
Act(j) ==
  /\ pc[j] = "opened"
  /\ Kind[at[j]] = "action"
  /\ \/ TakesEffect(j) /\ Goto(j, "acted")
     \/ UNCHANGED effects /\ Goto(j, "throwing")
  /\ UNCHANGED <<runVars, flowVars, calling, payload, memory, waited, dropped, clicks, faults, queueVars>>

\* The action takes effect but its answer is lost.
AnswerLost(j) ==
  /\ pc[j] = "opened"
  /\ Kind[at[j]] = "action"
  /\ Fault("answer")
  /\ TakesEffect(j)
  /\ Goto(j, "throwing")
  /\ UNCHANGED <<runVars, flowVars, calling, payload, memory, waited, dropped, clicks, queueVars>>

\* The completed action is persisted and its step closed.
PersistDone(j) ==
  /\ pc[j] = "acted"
  /\ AddDone(j)
  /\ saved' = done'[j]
  /\ at' = [at EXCEPT ![j] = graph[@]]
  /\ Goto(j, "loop")
  /\ UNCHANGED <<run, steps, failed, flowVars, calling, payload, count, position, history,
                 queueVars>>

\* Seeded fault: the walk goes on at once instead of waiting for the continuation.
SuspendNot(j) ==
  /\ pc[j] = "opened"
  /\ Kind[at[j]] = "delay"
  /\ AddDone(j)
  /\ saved' = done'[j]
  /\ at' = [at EXCEPT ![j] = graph[@]]
  /\ Goto(j, "loop")
  /\ UNCHANGED <<run, steps, failed, flowVars, calling, payload, count, position, history,
                 queueVars>>

\* A delay: the run is WAITING and the node done ...
Suspend(j) ==
  /\ pc[j] = "opened"
  /\ Kind[at[j]] = "delay"
  /\ AddDone(j)
  /\ saved' = done'[j]
  /\ run' = "WAITING"
  /\ Goto(j, "suspended")
  /\ UNCHANGED <<steps, failed, flowVars, calling, payload, at, count, position, history,
                 queueVars>>

\* Seeded fault: nobody enqueues the continuation.
ContinueNot(j) ==
  /\ pc[j] = "suspended"
  /\ Goto(j, "returning")
  /\ UNCHANGED <<runVars, flowVars, calling, payload, memory, history, queueVars>>

\* ... before its continuation is enqueued. With no next node that starts the graph
\* over, with every node done.
Continue(j) ==
  /\ pc[j] = "suspended"
  /\ AddJob(graph[at[j]], at[j])
  /\ Goto(j, "returning")
  /\ UNCHANGED <<runVars, flowVars, calling, memory, history>>

\* A write inside the try block throws, committed or not.
TryThrows(j) ==
  /\ Fault("write")
  /\ \/ /\ pc[j] = "acted"
        /\ AddDone(j)
        /\ saved' \in {saved, done'[j]}
        /\ UNCHANGED <<payload, queueVars>>
     \/ /\ pc[j] = "opened"
        /\ Kind[at[j]] = "condition"
        /\ AddDone(j)
        /\ UNCHANGED <<saved, payload, queueVars>>
     \/ /\ pc[j] = "suspended"
        /\ AddJob(graph[at[j]], at[j]) \/ UNCHANGED <<payload, queueVars>>
        /\ UNCHANGED <<saved, done>>
  /\ Goto(j, "throwing")
  /\ UNCHANGED <<run, steps, failed, flowVars, calling, at, count, position, effects, waited,
                 dropped, clicks>>

\* The catch block: the step is FAILED ...
CloseFailed(j) ==
  /\ pc[j] = "throwing"
  /\ failed' = failed \cup {<<position[j] - 1, at[j]>>}
  /\ Goto(j, "failing")
  /\ UNCHANGED <<run, saved, steps, flowVars, calling, payload, memory, history, queueVars>>

\* ... the run too on its job's last attempt, and a job has only one ...
DeclareFailed(j) ==
  /\ pc[j] = "failing"
  /\ FailRun
  /\ Goto(j, "saving")
  /\ UNCHANGED <<saved, steps, failed, paused, wins, calling, payload, memory, history, queueVars>>

\* ... and the progress is persisted, or not.
SaveProgress(j) ==
  /\ pc[j] = "saving"
  /\ \/ saved' = done[j] /\ UNCHANGED faults
     \/ Fault("write") /\ UNCHANGED saved
  /\ Goto(j, "rethrowing")
  /\ UNCHANGED <<run, steps, failed, flowVars, calling, payload, memory, effects, waited, dropped, clicks,
                 queueVars>>

\* A read or write outside the try block, or in the catch block before its end, throws:
\* the handler ends there.
Escapes(j) ==
  /\ pc[j] \in {"start", "pausing", "marking", "loop", "throwing", "failing"}
  /\ Fault("write")
  /\ Drop("write")
  /\ Goto(j, "rethrowing")
  /\ UNCHANGED <<runVars, flowVars, calling, payload, memory, effects, waited, clicks, queueVars>>

\* The handler is over and its memory gone.
Forget(j) ==
  /\ Goto(j, "idle")
  /\ at' = [at EXCEPT ![j] = NoNode]
  /\ done' = [done EXCEPT ![j] = {}]
  /\ count' = [count EXCEPT ![j] = 0]
  /\ position' = [position EXCEPT ![j] = 0]

Return(j) ==
  /\ \/ pc[j] = "returning" /\ Succeed(j)
     \/ pc[j] = "rethrowing" /\ Fail(j)
  /\ Forget(j)
  /\ UNCHANGED <<runVars, flowVars, calling, payload, history>>

Crash(j) ==
  /\ pc[j] # "idle"
  /\ Fault("crash")
  /\ WorkerDies(j)
  /\ Forget(j)
  /\ UNCHANGED <<runVars, flowVars, calling, payload, effects, waited, dropped, clicks>>

\* The queue hands the job of a dead worker out again, or gives it up.
HandOut(j) ==
  /\ Reclaim(j)
  /\ IF job'[j] = "failed" THEN Drop("stalled") ELSE UNCHANGED dropped
  /\ UNCHANGED <<runVars, flowVars, calling, payload, pc, memory, effects, waited, clicks, faults>>

-----------------------------------------------------------------------------
Walks(j) ==
  \/ Begin(j) \/ Load(j) \/ LeaveWaiting(j) \/ MarkRunning(j)
  \/ SkipDone(j) \/ OpenStep(j) \/ StepLimit(j) \/ Finish(j)
  \/ Decide(j) \/ Act(j) \/ PersistDone(j) \/ Suspend(j) \/ Continue(j)
  \/ CloseFailed(j) \/ DeclareFailed(j) \/ SaveProgress(j)
  \/ Return(j) \/ HandOut(j)

Fails(j) == AnswerLost(j) \/ TryThrows(j) \/ Escapes(j) \/ Crash(j)

WorkflowNext ==
  /\ \/ Trigger \/ Retry \/ Enqueue \/ PauseOrResume
     \/ \E j \in Jobs : Walks(j) \/ Fails(j)
  /\ UNCHANGED graph

Fixed(A) == A /\ UNCHANGED graph

\* A live worker takes what waits and goes on with what it took; the stalled check is a
\* timer; a request that was begun ends. Nobody has to retry, pause or resume anything.
WorkflowFairness ==
  /\ WF_workflowVars(Fixed(Enqueue))
  /\ \A j \in Jobs : WF_workflowVars(Fixed(Walks(j)))

WorkflowSafe == WorkflowInit /\ [][WorkflowNext]_workflowVars
WorkflowSpec == WorkflowSafe /\ WorkflowFairness

-----------------------------------------------------------------------------
(* Properties.                                                             *)

\* The nodes of the walk from the start, up to and with `stop`: what is in every set that
\* has the start and, with each of its nodes but `stop`, the next one.
Walk(stop) ==
  {n \in Nodes : \A S \in SUBSET Nodes :
     Start \in S /\ (\A m \in S \ {stop} : graph[m] \in S \cup {NoNode}) => n \in S}

OnWalk == Walk(NoNode)

\* The nodes that the walk first meets behind a delay.
Behind(n) == OnWalk \ Walk(n)

\* An action is repeated only if something failed or somebody asked for a retry: neither
\* delays, nor continuations that start the graph over, nor cycles do it. (How often, then,
\* has no bound in the number of causes: two executions that overwrite each other's progress
\* repeat what either has done.)
RepeatsNeedCause == faults + clicks = 0 => \A n \in Nodes : effects[n] <= 1

\* A run that says SUCCEEDED has run every action on its way, whichever executions and
\* retries it took and whatever they lost of each other's progress.
SucceededMeansDone ==
  run = "SUCCEEDED" => \A n \in OnWalk : Kind[n] = "action" => effects[n] > 0

\* Nothing behind a delay happens before the delay is over, unless a fault or a retry
\* starts the walk again: what is persisted by then says that the delay is done.
DelayHeld ==
  faults + clicks = 0 =>
    \A n \in OnWalk : Kind[n] = "delay" /\ n \notin waited =>
      \A m \in Behind(n) : Kind[m] = "action" => effects[m] = 0

\* The workflow's success and failure counts hold one verdict per run, and one more per
\* fault or retry at most; the run's own verdict is among them.
VerdictsCounted ==
  /\ wins + losses <= 1 + faults + clicks
  /\ run = "SUCCEEDED" => wins > 0
  /\ run = "FAILED" => losses > 0

\* A verdict is given as often as it has causes, and success means that everything was done.
VerdictsSound == VerdictsCounted /\ SucceededMeansDone

\* A run that is created or retried comes to a verdict, whatever workers crash and however
\* its graph is wired, unless a job of it was dropped: never enqueued after the commit, put
\* down because the workflow was paused, ended by a failing write outside the try block, or
\* stalled too often.
RunSettles == run = "PENDING" ~> run \in {"SUCCEEDED", "FAILED"} \/ dropped # {}
=============================================================================
