--------------------------- MODULE WorkflowProofs ---------------------------
(***************************************************************************)
(* Invariance proofs for Workflow: any graph, any number of jobs, retries, *)
(* pauses and faults. Four inductive invariants build on one another:     *)
(*                                                                         *)
(*   WorkflowInv  types, and what a handler knows at each of its lines;    *)
(*   TrailInv     every node that somebody stands at, or may resume at,    *)
(*                was reached over actions that took effect;               *)
(*   BudgetInv    verdicts, and whoever may still give one, are paid for   *)
(*                by the creation, the retries and the faults;             *)
(*   CalmInv      without retry and fault there is one such at a time, and *)
(*                what it has persisted is what has happened.              *)
(***************************************************************************)
EXTENDS Workflow, JobQueueProofs, FiniteSetTheorems

Maybe == Nodes \cup {NoNode}
Delays == {n \in Nodes : Kind[n] = "delay"}

\* Between the opening of a step and its end.
InStep == {"opened", "acted", "suspended", "throwing", "failing"}

\* A handler in a step stands at a node, whose kind its line tells, with a position that
\* was counted up; continuations follow delays; who is about to save has given a verdict.
HandlerKnows ==
  /\ \A j \in Jobs : pc[j] \in InStep => at[j] \in Nodes /\ position[j] > 0
  /\ \A j \in Jobs : pc[j] = "suspended" => at[j] \in Delays
  /\ \A j \in Jobs : pc[j] = "acted" => Kind[at[j]] = "action"
  /\ \A j \in Jobs : payload[j].after \in Delays \cup {NoNode}
  /\ \A j \in Jobs : pc[j] = "saving" => losses > 0

WorkflowInv == WorkflowTypeOK /\ QueueInv /\ HandlerKnows

-----------------------------------------------------------------------------
\* The nodes with nothing left to do: no action, or one that took effect.
Ran == {n \in Nodes : Kind[n] = "action" => effects[n] > 0}

\* Where the walk leads to over such nodes.
Trail ==
  {n \in Maybe : \E S \in SUBSET Ran :
     (n = Start \/ Start \in S) /\ \A m \in S : graph[m] \in S \cup {n}}

OnTheWay == {"loop", "opened", "acted", "suspended", "throwing", "failing"}

TrailInv ==
  /\ saved \subseteq Ran
  /\ \A j \in Jobs : done[j] \subseteq Ran
  /\ \A j \in Jobs : pc[j] = "acted" => at[j] \in Ran
  /\ \A j \in Jobs : pc[j] \in OnTheWay => at[j] \in Trail
  /\ \A f \in failed : f[2] \in Trail
  /\ \A c \in calling : c[2] \in Trail \cup {NoNode}
  /\ \A j \in Jobs : payload[j].resume \in Trail \cup {NoNode}
  /\ run = "SUCCEEDED" => OnWalk \subseteq Ran

-----------------------------------------------------------------------------
\* The handler has given its verdict, or ended without one.
Over == {"saving", "rethrowing", "returning"}

\* The jobs that may still give one.
Tokens ==
  {j \in Jobs : job[j] \in {"waiting", "held"} \/ (job[j] = "active" /\ pc[j] \notin Over)}

Unborn == IF run = "absent" THEN 1 ELSE 0

BudgetInv ==
  /\ IsFiniteSet(calling)
  /\ IsFiniteSet(Tokens)
  /\ wins + losses + Cardinality(calling) + Cardinality(Tokens) + Unborn <= 1 + faults + clicks
  /\ run = "SUCCEEDED" => wins > 0
  /\ run = "FAILED" => losses > 0

-----------------------------------------------------------------------------
\* The actions that took effect are among these nodes.
Covered(S) == \A n \in Nodes : effects[n] > 0 => n \in S

\* The delays among these nodes are over, but for d.
Past(S, d) == \A n \in S : Kind[n] = "delay" => n = d \/ n \in waited

\* Every delay is over, or d, or does not come before n.
Ahead(n, d) == n \in Nodes => \A e \in Delays : e = d \/ e \in waited \/ n \in Walk(e)

\* What a walk begun now, at n and after delay d, would find persisted.
Settled(n, d) == Covered(saved) /\ Past(saved, d) /\ Ahead(n, d)

Calm == faults + clicks = 0

\* What j's job and handler know then.
CalmFor(j) ==
  /\ job[j] # "held"
  /\ job[j] = "waiting" => Settled(payload[j].resume, payload[j].after)
  /\ pc[j] \in {"start", "pausing", "marking"} => Settled(payload[j].resume, NoNode)
  /\ pc[j] = "marking" => done[j] = saved
  /\ pc[j] \in {"loop", "opened", "suspended"} => Covered(done[j])
  /\ pc[j] = "acted" => Covered(done[j] \cup {at[j]})
  /\ pc[j] \in {"loop", "opened", "acted"} => Past(done[j], NoNode)
  /\ pc[j] = "suspended" => done[j] = saved /\ Past(saved, at[j])
  /\ pc[j] \in {"loop", "opened", "acted", "suspended"} => Ahead(at[j], NoNode)
  /\ pc[j] = "opened" => at[j] \notin done[j]

CalmInv ==
  Calm =>
    /\ \A n \in Nodes : effects[n] <= 1
    /\ DelayHeld
    /\ run = "absent" \/ calling # {} => saved = {} /\ Covered({})
    /\ \A c \in calling : c[2] = NoNode
    /\ \A j \in Jobs : CalmFor(j)

-----------------------------------------------------------------------------
(* Types, and what handlers know.                                          *)

\* Nothing has been triggered yet.
LEMMA WorkflowInvInit == WorkflowInit => WorkflowInv
<1> SUFFICES ASSUME WorkflowInit PROVE WorkflowInv
  OBVIOUS
<1>1. QueueInv
  BY QueueInvInit DEF WorkflowInit
<1>2. QueueTypeOK
  BY <1>1 DEF QueueInv
<1>3. WorkflowTypeOK
  <2>1. /\ payload \in [Jobs -> [resume : Maybe, after : Maybe]]
        /\ calling \subseteq (0..MaxTrouble) \X Maybe /\ failed \subseteq Nat \X Nodes
    BY DEF WorkflowInit, Maybe
  <2>2. clicks \in 0..MaxTrouble /\ faults \in 0..MaxTrouble
    BY WorkflowAssumption DEF WorkflowInit, WorkflowAssumption
  <2>3. /\ pc \in [Jobs -> Step] /\ \A j \in Jobs : pc[j] = "idle" /\ job[j] # "active"
        /\ run \in RunStatus
    BY DEF WorkflowInit, QueueInit, RunStatus, Step
  <2> QED BY <1>2, <2>1, <2>2, <2>3 DEF WorkflowInit, WorkflowTypeOK, Maybe
<1>4. HandlerKnows
  BY DEF WorkflowInit, HandlerKnows, InStep
<1> QED BY <1>1, <1>3, <1>4 DEF WorkflowInv

\* A step that leaves the queue alone keeps its invariant.
LEMMA QueueRests ==
  ASSUME QueueInv, UNCHANGED queueVars
  PROVE  QueueInv' /\ job' = job
BY DEF QueueInv, QueueTypeOK, OpenJobs, StartsBounded, DeadLettersAreFinal, queueVars

\* A fault, like a retry, stays within the bound.
LEMMA FaultCounts ==
  ASSUME WorkflowTypeOK, NEW k, Fault(k)
  PROVE  faults' \in 0..MaxTrouble /\ faults' = faults + 1
BY WorkflowAssumption DEF Fault, WorkflowTypeOK, WorkflowAssumption

\* What adding a job does: one that did not exist waits, with its payload.
LEMMA AddJobEffect ==
  ASSUME WorkflowInv, NEW n \in Maybe, NEW d \in Delays \cup {NoNode}, AddJob(n, d)
  PROVE  /\ QueueInv'
         /\ \E i \in Jobs :
              /\ job[i] = "none"
              /\ job' = [job EXCEPT ![i] = "waiting"]
              /\ payload' = [payload EXCEPT ![i] = [resume |-> n, after |-> d]]
         /\ payload' \in [Jobs -> [resume : Maybe, after : Maybe]]
         /\ \A i \in Jobs : payload'[i].after \in Delays \cup {NoNode}
         /\ \A i \in Jobs : job'[i] = "active" <=> job[i] = "active"
<1>1. PICK i \in Jobs : /\ job[i] = "none" /\ Add(i)
                        /\ payload' = [payload EXCEPT ![i] = [resume |-> n, after |-> d]]
                        /\ UNCHANGED <<made, stalls, starts, dlq, logged>>
  BY DEF AddJob
<1>2. QueueInv'
  BY <1>1, QueueInvProduce DEF Produce, WorkflowInv
<1>3. job' = [job EXCEPT ![i] = "waiting"]
  BY <1>1 DEF Add, WorkflowInv, QueueInv, QueueTypeOK
<1>4. [resume |-> n, after |-> d] \in [resume : Maybe, after : Maybe]
  BY DEF Maybe, Delays
<1>5. payload' \in [Jobs -> [resume : Maybe, after : Maybe]]
  BY <1>1, <1>4 DEF WorkflowInv, WorkflowTypeOK, Maybe
<1>6. \A k \in Jobs : payload'[k].after \in Delays \cup {NoNode}
  BY <1>1, <1>4 DEF WorkflowInv, WorkflowTypeOK, HandlerKnows, Maybe
<1>7. \A k \in Jobs : job'[k] = "active" <=> job[k] = "active"
  BY <1>1, <1>3 DEF WorkflowInv, QueueInv, QueueTypeOK
<1> QED BY <1>1, <1>2, <1>3, <1>5, <1>6, <1>7

\* The requests keep it.
LEMMA RequestsKeep ==
  ASSUME WorkflowInv, UNCHANGED graph, Trigger \/ Retry \/ Enqueue \/ PauseOrResume
  PROVE  WorkflowInv'
<1> USE DEF WorkflowInv, WorkflowTypeOK, HandlerKnows, runVars, flowVars, memory, history
<1>1. CASE Trigger
  BY <1>1, QueueRests, WorkflowAssumption
  DEF Trigger, RunStatus, WorkflowAssumption, queueVars, QueueInv
<1>2. CASE Retry
  <2>1. clicks' \in 0..MaxTrouble
    BY <1>2, WorkflowAssumption DEF Retry, WorkflowAssumption
  <2>2. calling' \subseteq (0..MaxTrouble) \X (Nodes \cup {NoNode})
    BY <1>2, <2>1 DEF Retry, FirstFailed
  <2> QED BY <1>2, <2>1, <2>2, QueueRests DEF Retry, RunStatus, queueVars, QueueInv
<1>3. CASE Enqueue
  <2>1. PICK c \in calling :
          /\ calling' = calling \ {c}
          /\ \/ AddJob(c[2], NoNode) /\ UNCHANGED <<dropped, faults>>
             \/ Fault("enqueue") /\ Drop("enqueue") /\ UNCHANGED <<payload, queueVars>>
          /\ UNCHANGED <<runVars, flowVars, pc, memory, effects, waited, clicks>>
    BY <1>3 DEF Enqueue
  <2>2. CASE AddJob(c[2], NoNode) /\ UNCHANGED <<dropped, faults>>
    <3>1. c[2] \in Maybe
      BY DEF Maybe
    <3> QED BY <2>1, <2>2, <3>1, AddJobEffect DEF QueueInv, Maybe
  <2>3. CASE Fault("enqueue") /\ Drop("enqueue") /\ UNCHANGED <<payload, queueVars>>
    BY <2>1, <2>3, FaultCounts, QueueRests DEF QueueInv, Drop
  <2> QED BY <2>1, <2>2, <2>3
<1>4. CASE PauseOrResume
  BY <1>4, QueueRests DEF PauseOrResume, queueVars, QueueInv
<1> QED BY <1>1, <1>2, <1>3, <1>4

\* What a line of the handler does that touches no queue.
Inward(j) ==
  \/ Load(j) \/ LeaveWaiting(j) \/ MarkRunning(j) \/ SkipDone(j) \/ OpenStep(j)
  \/ StepLimit(j) \/ Finish(j) \/ Decide(j) \/ Act(j) \/ PersistDone(j) \/ Suspend(j)
  \/ CloseFailed(j) \/ DeclareFailed(j) \/ SaveProgress(j) \/ AnswerLost(j) \/ Escapes(j)

\* Such a line keeps it.
LEMMA InwardKeeps ==
  ASSUME WorkflowInv, UNCHANGED graph, NEW j \in Jobs, Inward(j)
  PROVE  WorkflowInv'
<1>0. /\ UNCHANGED queueVars /\ UNCHANGED payload /\ UNCHANGED calling
      /\ UNCHANGED wins \/ wins' = wins + 1
      /\ UNCHANGED losses \/ losses' = losses + 1
  BY DEF Inward, Load, LeaveWaiting, MarkRunning, SkipDone, OpenStep, StepLimit, Finish, Decide,
         Act, PersistDone, Suspend, CloseFailed, DeclareFailed, SaveProgress, AnswerLost, Escapes,
         FailRun, Round, flowVars
<1>1. QueueInv' /\ QueueTypeOK' /\ job' = job
  BY <1>0, QueueRests DEF WorkflowInv, QueueInv
<1>2. \A n \in Nodes : graph[n] \in Nodes \cup {NoNode}
  BY WorkflowAssumption DEF WorkflowInv, WorkflowTypeOK, WorkflowAssumption
<1>3. \A k : Fault(k) => faults' \in 0..MaxTrouble
  BY FaultCounts DEF WorkflowInv
<1>4. Start \in Nodes
  BY WorkflowAssumption DEF WorkflowAssumption
<1> USE <1>0, <1>1, <1>2, <1>3, <1>4
    DEF WorkflowInv, WorkflowTypeOK, HandlerKnows, runVars, flowVars, memory, history, Goto, Step,
        RunStatus, InStep, Delays
<1>5. CASE Load(j)
  BY <1>5 DEF Load
<1>6. CASE LeaveWaiting(j)
  BY <1>6 DEF LeaveWaiting, Drop
<1>7. CASE MarkRunning(j)
  BY <1>7 DEF MarkRunning
<1>8. CASE SkipDone(j)
  BY <1>8 DEF SkipDone, Round
<1>9. CASE OpenStep(j)
  BY <1>9 DEF OpenStep, Round
<1>10. CASE StepLimit(j)
  BY <1>10 DEF StepLimit, FailRun
<1>11. CASE Finish(j)
  BY <1>11 DEF Finish
<1>12. CASE Decide(j)
  BY <1>12 DEF Decide, AddDone
<1>13. CASE Act(j)
  BY <1>13 DEF Act, TakesEffect
<1>14. CASE PersistDone(j)
  BY <1>14 DEF PersistDone, AddDone
<1>15. CASE Suspend(j)
  BY <1>15 DEF Suspend, AddDone
<1>16. CASE CloseFailed(j)
  BY <1>16 DEF CloseFailed
<1>17. CASE DeclareFailed(j)
  BY <1>17 DEF DeclareFailed, FailRun
<1>18. CASE SaveProgress(j)
  BY <1>18 DEF SaveProgress
<1>19. CASE AnswerLost(j)
  BY <1>19 DEF AnswerLost, TakesEffect
<1>20. CASE Escapes(j)
  BY <1>20 DEF Escapes, Drop
<1> QED BY <1>5, <1>6, <1>7, <1>8, <1>9, <1>10, <1>11, <1>12, <1>13, <1>14, <1>15, <1>16,
           <1>17, <1>18, <1>19, <1>20 DEF Inward

\* A worker's step moves its job only, and never into a handler but by taking it.
LEMMA ConsumeMoves ==
  ASSUME QueueInv, NEW j \in Jobs, Consume(j)
  PROVE  /\ QueueInv' /\ QueueTypeOK'
         /\ \A i \in Jobs \ {j} : job'[i] = job[i]
         /\ job'[j] = "active" <=> Take(j)
<1>1. QueueInv'
  BY QueueInvConsume
<1>2. /\ \A i \in Jobs \ {j} : job'[i] = job[i]
      /\ job'[j] = "active" <=> Take(j)
  BY DEF QueueInv, QueueTypeOK, Consume, Take, Succeed, Fail, WorkerDies, Reclaim
<1> QED BY <1>1, <1>2 DEF QueueInv

\* The steps in which the queue moves keep it too.
LEMMA OutwardKeeps ==
  ASSUME WorkflowInv, UNCHANGED graph, NEW j \in Jobs,
         \/ Begin(j) \/ Continue(j) \/ TryThrows(j)
         \/ Return(j) \/ Crash(j) \/ HandOut(j)
  PROVE  WorkflowInv'
<1>1. QueueInv
  BY DEF WorkflowInv
<1>2. \A n \in Nodes : graph[n] \in Maybe
  BY WorkflowAssumption DEF WorkflowInv, WorkflowTypeOK, WorkflowAssumption, Maybe
<1>3. \A k : Fault(k) => faults' \in 0..MaxTrouble
  BY FaultCounts DEF WorkflowInv
<1>0. HandOut(j) => dropped' \in {dropped, dropped \cup {"stalled"}}
  BY DEF HandOut, Drop
<1> USE <1>2, <1>3
    DEF WorkflowInv, WorkflowTypeOK, HandlerKnows, runVars, flowVars, memory, history, Goto, Step,
        InStep, Delays, Maybe
<1>4. CASE Begin(j)
  <2>1. Take(j) /\ pc' = [pc EXCEPT ![j] = "start"]
        /\ waited' = waited \cup ({payload[j].after} \ {NoNode})
        /\ UNCHANGED <<runVars, flowVars, calling, payload, memory, effects, dropped, clicks,
                       faults>>
    BY <1>4 DEF Begin
  <2>2. QueueInv' /\ QueueTypeOK' /\ \A i \in Jobs : i # j => job'[i] = job[i]
    BY <1>1, <2>1, ConsumeMoves DEF Consume
  <2>3. job[j] = "waiting" /\ job'[j] = "active"
    BY <1>1, <2>1 DEF Take, QueueInv, QueueTypeOK
  <2> QED BY <2>1, <2>2, <2>3
<1>5. ASSUME AddJob(graph[at[j]], at[j]), pc[j] = "suspended"
      PROVE  /\ QueueInv' /\ QueueTypeOK'
             /\ payload' \in [Jobs -> [resume : Maybe, after : Maybe]]
             /\ \A i \in Jobs : payload'[i].after \in Delays \cup {NoNode}
             /\ \A i \in Jobs : job'[i] = "active" <=> job[i] = "active"
  BY <1>5, AddJobEffect DEF QueueInv
<1>6. CASE Continue(j)
  BY <1>5, <1>6 DEF Continue
<1>7. CASE TryThrows(j)
  <2>1. pc[j] \in {"acted", "opened", "suspended"} /\ pc' = [pc EXCEPT ![j] = "throwing"]
        /\ UNCHANGED <<run, steps, failed, flowVars, calling, at, count, position, effects,
                       waited, dropped, clicks>>
        /\ Fault("write")
    BY <1>7 DEF TryThrows
  <2>2. done' \in [Jobs -> SUBSET Nodes] /\ saved' \subseteq Nodes
    BY <1>7 DEF TryThrows, AddDone
  <2>3. /\ QueueInv' /\ QueueTypeOK'
        /\ payload' \in [Jobs -> [resume : Maybe, after : Maybe]]
        /\ \A i \in Jobs : payload'[i].after \in Delays \cup {NoNode}
        /\ \A i \in Jobs : job'[i] = "active" <=> job[i] = "active"
    BY <1>1, <1>5, <1>7, QueueRests DEF TryThrows, QueueInv
  <2>4. at[j] \in Nodes /\ position[j] > 0
    BY <2>1
  <2>5. WorkflowTypeOK'
    <3>1. pc' \in [Jobs -> Step] /\ pc'[j] = "throwing" /\ pc[j] # "idle"
      BY <2>1
    <3>2. \A i \in Jobs : pc'[i] = "idle" <=> job'[i] # "active"
      BY <2>1, <2>3, <3>1
    <3>3. \A i \in Jobs : pc'[i] \in {"opened", "acted", "suspended", "throwing"} => at'[i] # NoNode
      BY <2>1, <2>4, WorkflowAssumption DEF WorkflowAssumption
    <3> QED BY <2>1, <2>2, <2>3, <3>1, <3>2, <3>3
  <2>6. HandlerKnows'
    BY <2>1, <2>2, <2>3, <2>4
  <2> QED BY <2>3, <2>5, <2>6
<1>8. CASE Return(j)
  BY <1>1, <1>8, ConsumeMoves DEF Return, Forget, Consume, Take, Succeed, Fail
<1>9. CASE Crash(j)
  <2>1. WorkerDies(j) /\ Forget(j) /\ Fault("crash")
        /\ UNCHANGED <<runVars, flowVars, calling, payload, effects, waited, dropped, clicks>>
    BY <1>9 DEF Crash
  <2>2. QueueInv' /\ QueueTypeOK' /\ \A i \in Jobs : i # j => job'[i] = job[i]
    BY <1>1, <2>1, ConsumeMoves DEF Consume
  <2>3. job'[j] # "active"
    BY <1>1, <2>1 DEF WorkerDies, QueueInv, QueueTypeOK
  <2> QED BY <2>1, <2>2, <2>3 DEF Forget
<1>10. CASE HandOut(j)
  <2>1. dropped' \in {dropped, dropped \cup {"stalled"}}
    BY <1>0, <1>10
  <2>2. Reclaim(j)
        /\ UNCHANGED <<runVars, flowVars, calling, payload, pc, memory, effects, waited, clicks,
                       faults>>
    BY <1>10 DEF HandOut
  <2>3. QueueInv' /\ QueueTypeOK' /\ \A i \in Jobs : i # j => job'[i] = job[i]
    BY <1>1, <2>2, ConsumeMoves DEF Consume
  <2>4. job[j] = "held" /\ job'[j] # "active"
    BY <1>1, <2>2 DEF Reclaim, QueueInv, QueueTypeOK
  <2> QED BY <2>1, <2>2, <2>3, <2>4
<1> QED BY <1>4, <1>6, <1>7, <1>8, <1>9, <1>10

\* Every step of a run is of one of these kinds.
LEMMA StepKinds ==
  ASSUME WorkflowNext
  PROVE  /\ UNCHANGED graph
         /\ \/ Trigger \/ Retry \/ Enqueue \/ PauseOrResume
            \/ \E j \in Jobs :
                 \/ Inward(j)
                 \/ Begin(j) \/ Continue(j) \/ TryThrows(j)
                 \/ Return(j) \/ Crash(j) \/ HandOut(j)
BY DEF WorkflowNext, Walks, Fails, Inward

LEMMA WorkflowInvStep == WorkflowInv /\ [WorkflowNext]_workflowVars => WorkflowInv'
<1> SUFFICES ASSUME WorkflowInv, [WorkflowNext]_workflowVars PROVE WorkflowInv'
  OBVIOUS
<1>1. CASE WorkflowNext
  BY <1>1, StepKinds, RequestsKeep, InwardKeeps, OutwardKeeps
<1>2. CASE UNCHANGED workflowVars
  <2>1. QueueInv'
    BY <1>2, QueueRests DEF WorkflowInv, workflowVars
  <2> QED BY <1>2, <2>1
          DEF WorkflowInv, WorkflowTypeOK, HandlerKnows, QueueInv, workflowVars, runVars, flowVars,
              memory, history, queueVars
<1> QED BY <1>1, <1>2

LEMMA WorkflowInvAlways == WorkflowSafe => []WorkflowInv
  BY WorkflowInvInit, WorkflowInvStep, PTL DEF WorkflowSafe

-----------------------------------------------------------------------------
(* The trail: who stands at a node came there over nodes that are done.    *)

\* The walk begins at the start.
LEMMA StartReached == Start \in Trail
<1>1. Start \in Maybe
  BY WorkflowAssumption DEF WorkflowAssumption, Maybe
<1>2. {} \in SUBSET Ran /\ \A m \in {} : graph[m] \in {Start}
  OBVIOUS
<1> QED BY <1>1, <1>2 DEF Trail

\* From a node that is done, the walk leads to the next.
LEMMA NextReached ==
  ASSUME WorkflowInv, NEW n \in Trail, n \in Ran
  PROVE  graph[n] \in Trail
<1>1. PICK S \in SUBSET Ran : (n = Start \/ Start \in S) /\ \A m \in S : graph[m] \in S \cup {n}
  BY DEF Trail
<1>2. S \cup {n} \in SUBSET Ran /\ Start \in S \cup {n}
  BY <1>1
<1>3. \A m \in S \cup {n} : graph[m] \in (S \cup {n}) \cup {graph[n]}
  BY <1>1
<1>4. graph[n] \in Maybe
  BY WorkflowAssumption DEF WorkflowInv, WorkflowTypeOK, WorkflowAssumption, Maybe, Ran
<1> QED BY <1>2, <1>3, <1>4 DEF Trail

\* Where there is no next node, everything on the walk is done.
LEMMA EndReached ==
  ASSUME WorkflowInv, NoNode \in Trail
  PROVE  OnWalk \subseteq Ran
<1>1. PICK S \in SUBSET Ran :
        (NoNode = Start \/ Start \in S) /\ \A m \in S : graph[m] \in S \cup {NoNode}
  BY DEF Trail
<1>2. Start \in S /\ S \subseteq Nodes
  BY <1>1, WorkflowAssumption DEF WorkflowAssumption, Ran
<1>3. OnWalk \subseteq S
  BY <1>1, <1>2 DEF OnWalk, Walk
<1> QED BY <1>1, <1>3

\* Effects are never taken back.
LEMMA EffectsGrow ==
  ASSUME WorkflowInv, WorkflowNext
  PROVE  /\ \A n \in Nodes : effects[n] \in Nat /\ effects'[n] \in Nat /\ effects'[n] >= effects[n]
         /\ graph' = graph
<1>1. effects \in [Nodes -> Nat] /\ effects' \in [Nodes -> Nat]
  BY WorkflowInvStep DEF WorkflowInv, WorkflowTypeOK
<1>2. CASE UNCHANGED effects
  BY <1>1, <1>2, StepKinds
<1>3. ASSUME NEW j \in Jobs, TakesEffect(j), pc[j] = "opened"
      PROVE  \A n \in Nodes : effects'[n] >= effects[n]
  BY <1>1, <1>3 DEF TakesEffect, WorkflowInv, HandlerKnows, InStep
<1>4. \/ UNCHANGED effects
      \/ \E j \in Jobs : TakesEffect(j) /\ pc[j] = "opened"
  BY DEF WorkflowNext, Trigger, Retry, Enqueue, PauseOrResume, Walks, Fails, Begin, Load,
         LeaveWaiting, MarkRunning, SkipDone, OpenStep, StepLimit, Finish, Decide, Act,
         PersistDone, Suspend, Continue, CloseFailed, DeclareFailed, SaveProgress, Return, HandOut,
         AnswerLost, TryThrows, Escapes, Crash, history
<1> QED BY <1>1, <1>2, <1>3, <1>4, StepKinds

\* ... so what was reached stays so.
LEMMA ReachedStays ==
  ASSUME WorkflowInv, WorkflowNext
  PROVE  Ran \subseteq Ran' /\ Trail \subseteq Trail' /\ OnWalk' = OnWalk
BY EffectsGrow DEF Ran, Trail, OnWalk, Walk

\* Nobody stands anywhere before the run is created.
LEMMA TrailInvInit == WorkflowInit => TrailInv
  BY DEF WorkflowInit, TrailInv, OnTheWay

\* The requests resume at a failed step at most, which somebody had reached.
LEMMA RequestsTrail ==
  ASSUME WorkflowInv, TrailInv, WorkflowNext, Trigger \/ Retry \/ Enqueue \/ PauseOrResume
  PROVE  TrailInv'
<1>1. Ran \subseteq Ran' /\ Trail \subseteq Trail' /\ OnWalk' = OnWalk
  BY ReachedStays
<1> USE <1>1 DEF TrailInv, runVars, flowVars, memory, history
<1>2. CASE Trigger
  BY <1>2 DEF Trigger
<1>3. CASE Retry
  <2>1. \A n \in FirstFailed : n \in Trail
    BY DEF FirstFailed
  <2> QED BY <1>3, <2>1 DEF Retry
<1>4. CASE Enqueue
  <2>1. PICK c \in calling :
          /\ calling' = calling \ {c}
          /\ AddJob(c[2], NoNode) \/ UNCHANGED payload
          /\ UNCHANGED <<runVars, flowVars, pc, memory, effects, waited, clicks>>
    BY <1>4 DEF Enqueue
  <2>2. \A j \in Jobs : payload'[j].resume \in Trail \cup {NoNode}
    BY <2>1 DEF AddJob, WorkflowInv, WorkflowTypeOK
  <2> QED BY <2>1, <2>2
<1>5. CASE PauseOrResume
  BY <1>5 DEF PauseOrResume
<1> QED BY <1>2, <1>3, <1>4, <1>5

\* A handler goes from node to node along the graph, and leaves none behind undone.
LEMMA InwardTrail ==
  ASSUME WorkflowInv, TrailInv, WorkflowNext, NEW j \in Jobs, Inward(j)
  PROVE  TrailInv'
<1>1. Ran \subseteq Ran' /\ Trail \subseteq Trail' /\ OnWalk' = OnWalk
  BY ReachedStays
<1>2. WorkflowTypeOK /\ HandlerKnows
  BY DEF WorkflowInv
<1>3. \A n \in Ran : n \in Trail => graph[n] \in Trail
  BY NextReached
<1>4. NoNode \in Trail => OnWalk \subseteq Ran
  BY EndReached
<1>5. \A n \in Nodes : Kind[n] # "action" => n \in Ran
  BY DEF Ran
<1>6. UNCHANGED <<calling, payload>>
  BY DEF Inward, Load, LeaveWaiting, MarkRunning, SkipDone, OpenStep, StepLimit, Finish, Decide,
         Act, PersistDone, Suspend, CloseFailed, DeclareFailed, SaveProgress, AnswerLost, Escapes
<1> USE <1>1, <1>2, <1>6
    DEF TrailInv, OnTheWay, WorkflowTypeOK, runVars, flowVars, memory, history, Goto
<1>7. CASE Load(j)
  BY <1>7 DEF Load
<1>8. CASE LeaveWaiting(j)
  BY <1>8 DEF LeaveWaiting
<1>9. CASE MarkRunning(j)
  BY <1>9, StartReached DEF MarkRunning
<1>10. CASE SkipDone(j)
  BY <1>3, <1>10 DEF SkipDone, Round
<1>11. CASE OpenStep(j)
  BY <1>11 DEF OpenStep, Round
<1>12. CASE StepLimit(j)
  BY <1>12 DEF StepLimit, FailRun
<1>13. CASE Finish(j)
  BY <1>4, <1>13 DEF Finish
<1>14. CASE Decide(j)
  BY <1>3, <1>5, <1>14 DEF Decide, AddDone, HandlerKnows, InStep
<1>15. CASE Act(j) \/ AnswerLost(j)
  <2>1. at[j] \in Nodes /\ pc[j] = "opened" /\ TakesEffect(j) => at[j] \in Ran'
    BY DEF TakesEffect, Ran, HandlerKnows, InStep
  <2> QED BY <1>15, <2>1 DEF Act, AnswerLost, HandlerKnows, InStep
<1>16. CASE PersistDone(j)
  BY <1>3, <1>16 DEF PersistDone, AddDone
<1>17. CASE Suspend(j)
  BY <1>5, <1>17 DEF Suspend, AddDone, HandlerKnows, InStep
<1>18. CASE CloseFailed(j)
  BY <1>18 DEF CloseFailed
<1>19. CASE DeclareFailed(j)
  BY <1>19 DEF DeclareFailed, FailRun
<1>20. CASE SaveProgress(j)
  BY <1>20 DEF SaveProgress
<1>21. CASE Escapes(j)
  BY <1>21 DEF Escapes
<1> QED BY <1>7, <1>8, <1>9, <1>10, <1>11, <1>12, <1>13, <1>14, <1>15, <1>16, <1>17, <1>18,
           <1>19, <1>20, <1>21 DEF Inward

\* A continuation resumes behind a delay that was done.
LEMMA OutwardTrail ==
  ASSUME WorkflowInv, TrailInv, WorkflowNext, NEW j \in Jobs,
         \/ Begin(j) \/ Continue(j) \/ TryThrows(j)
         \/ Return(j) \/ Crash(j) \/ HandOut(j)
  PROVE  TrailInv'
<1>1. Ran \subseteq Ran' /\ Trail \subseteq Trail' /\ OnWalk' = OnWalk
  BY ReachedStays
<1>2. WorkflowTypeOK /\ HandlerKnows
  BY DEF WorkflowInv
<1>3. \A n \in Ran : n \in Trail => graph[n] \in Trail
  BY NextReached
<1>4. \A n \in Nodes : Kind[n] # "action" => n \in Ran
  BY DEF Ran
<1> USE <1>1, <1>2
    DEF TrailInv, OnTheWay, WorkflowTypeOK, runVars, flowVars, memory, history, Goto
<1>5. ASSUME AddJob(graph[at[j]], at[j]), pc[j] = "suspended"
      PROVE  \A i \in Jobs : payload'[i].resume \in Trail \cup {NoNode}
  <2>1. graph[at[j]] \in Trail
    BY <1>3, <1>4, <1>5 DEF HandlerKnows, Delays
  <2> QED BY <1>5, <2>1 DEF AddJob
<1>6. CASE Begin(j)
  BY <1>6 DEF Begin
<1>7. CASE Continue(j)
  BY <1>5, <1>7 DEF Continue
<1>8. CASE TryThrows(j)
  <2>1. /\ pc[j] \in {"acted", "opened", "suspended"} /\ pc' = [pc EXCEPT ![j] = "throwing"]
        /\ UNCHANGED <<run, failed, calling, at, effects>>
    BY <1>8 DEF TryThrows
  <2>2. \A i \in Jobs : payload'[i].resume \in Trail \cup {NoNode}
    BY <1>5, <1>8 DEF TryThrows
  <2>3. (\A i \in Jobs : done'[i] \subseteq Ran) /\ saved' \subseteq Ran
    BY <1>4, <1>8 DEF TryThrows, AddDone, HandlerKnows, InStep
  <2> QED BY <2>1, <2>2, <2>3
<1>9. CASE Return(j)
  BY <1>9 DEF Return, Forget
<1>10. CASE Crash(j)
  BY <1>10 DEF Crash, Forget
<1>11. CASE HandOut(j)
  BY <1>11 DEF HandOut
<1> QED BY <1>6, <1>7, <1>8, <1>9, <1>10, <1>11

LEMMA TrailInvStep == WorkflowInv /\ TrailInv /\ [WorkflowNext]_workflowVars => TrailInv'
<1> SUFFICES ASSUME WorkflowInv, TrailInv, [WorkflowNext]_workflowVars PROVE TrailInv'
  OBVIOUS
<1>1. CASE WorkflowNext
  BY <1>1, StepKinds, RequestsTrail, InwardTrail, OutwardTrail
<1>2. CASE UNCHANGED workflowVars
  BY <1>2 DEF TrailInv, Ran, Trail, OnWalk, Walk, workflowVars, runVars, flowVars, memory, history
<1> QED BY <1>1, <1>2

LEMMA TrailInvAlways == WorkflowSafe => []TrailInv
  BY WorkflowInvAlways, TrailInvInit, TrailInvStep, PTL DEF WorkflowSafe

-----------------------------------------------------------------------------
(* The budget: verdicts are paid for.                                      *)

\* Nobody has been paid for but the run itself.
LEMMA BudgetInvInit == WorkflowInit => BudgetInv
<1> SUFFICES ASSUME WorkflowInit PROVE BudgetInv
  OBVIOUS
<1>1. Tokens = {} /\ calling = {} /\ run = "absent"
  BY DEF WorkflowInit, QueueInit, Tokens
<1>2. Cardinality({}) = 0 /\ IsFiniteSet({})
  BY FS_EmptySet
<1>3. wins = 0 /\ losses = 0 /\ faults = 0 /\ clicks = 0
  BY DEF WorkflowInit
<1> QED BY <1>1, <1>2, <1>3 DEF BudgetInv, Unborn

\* What grows by an element at most, and what loses one.
LEMMA OneMore ==
  ASSUME NEW S, IsFiniteSet(S), NEW T, NEW e, T \subseteq S \cup {e}
  PROVE  /\ IsFiniteSet(T) /\ Cardinality(T) \in Nat /\ Cardinality(S) \in Nat
         /\ Cardinality(T) <= Cardinality(S) + 1
<1>1. IsFiniteSet(S \cup {e}) /\ Cardinality(S \cup {e}) <= Cardinality(S) + 1
      /\ Cardinality(S) \in Nat
  BY FS_AddElement, FS_CardinalityType
<1>2. IsFiniteSet(T) /\ Cardinality(T) <= Cardinality(S \cup {e})
  BY <1>1, FS_Subset
<1>3. Cardinality(T) \in Nat /\ Cardinality(S \cup {e}) \in Nat
  BY <1>1, <1>2, FS_CardinalityType
<1> QED BY <1>1, <1>2, <1>3

LEMMA OneLess ==
  ASSUME NEW S, IsFiniteSet(S), NEW e \in S, NEW T, T \subseteq S \ {e}
  PROVE  /\ IsFiniteSet(T) /\ Cardinality(T) \in Nat /\ Cardinality(S) \in Nat
         /\ Cardinality(T) + 1 <= Cardinality(S)
<1>1. IsFiniteSet(S \ {e}) /\ Cardinality(S \ {e}) = Cardinality(S) - 1
      /\ Cardinality(S) \in Nat
  BY FS_RemoveElement, FS_CardinalityType
<1>2. IsFiniteSet(T) /\ Cardinality(T) <= Cardinality(S \ {e})
  BY <1>1, FS_Subset
<1>3. Cardinality(T) \in Nat
  BY <1>2, FS_CardinalityType
<1> QED BY <1>1, <1>2, <1>3

LEMMA NoMore ==
  ASSUME NEW S, IsFiniteSet(S), NEW T, T \subseteq S
  PROVE  /\ IsFiniteSet(T) /\ Cardinality(T) \in Nat /\ Cardinality(S) \in Nat
         /\ Cardinality(T) <= Cardinality(S)
BY FS_Subset, FS_CardinalityType

\* One that leaves for another that comes.
LEMMA Exchange ==
  ASSUME NEW S, IsFiniteSet(S), NEW d \in S, NEW T, NEW e, T \subseteq (S \ {d}) \cup {e}
  PROVE  /\ IsFiniteSet(T) /\ Cardinality(T) \in Nat /\ Cardinality(S) \in Nat
         /\ Cardinality(T) <= Cardinality(S)
<1>1. IsFiniteSet(S \ {d}) /\ Cardinality(S \ {d}) + 1 <= Cardinality(S)
      /\ Cardinality(S \ {d}) \in Nat /\ Cardinality(S) \in Nat
  BY OneLess
<1>2. IsFiniteSet(T) /\ Cardinality(T) \in Nat /\ Cardinality(T) <= Cardinality(S \ {d}) + 1
  BY <1>1, OneMore
<1> QED BY <1>1, <1>2

\* Adding a job makes one token more.
LEMMA AddJobTokens ==
  ASSUME WorkflowInv, NEW n \in Maybe, NEW d \in Delays \cup {NoNode}, AddJob(n, d)
  PROVE  \E i \in Jobs : /\ job[i] = "none"
                         /\ job' = [job EXCEPT ![i] = "waiting"]
BY AddJobEffect

\* The requests: creating pays by the run that is no longer unborn, retrying by its click.
LEMMA RequestsPay ==
  ASSUME WorkflowInv, BudgetInv, WorkflowNext, Trigger \/ Retry \/ Enqueue \/ PauseOrResume
  PROVE  BudgetInv'
<1>1. /\ IsFiniteSet(calling) /\ IsFiniteSet(Tokens)
      /\ Cardinality(calling) \in Nat /\ Cardinality(Tokens) \in Nat
  BY FS_CardinalityType DEF BudgetInv
<1>2. wins \in Nat /\ losses \in Nat /\ faults \in Nat /\ clicks \in Nat
  BY DEF WorkflowInv, WorkflowTypeOK
<1>3. CASE Trigger
  <2>1. Tokens' = Tokens /\ wins' = wins /\ losses' = losses /\ faults' = faults /\ clicks' = clicks
    BY <1>3 DEF Trigger, Tokens, flowVars, history, queueVars
  <2>2. IsFiniteSet(calling') /\ Cardinality(calling') \in Nat
        /\ Cardinality(calling') <= Cardinality(calling) + 1
    BY <1>1, <1>3, OneMore DEF Trigger
  <2>3. run = "absent" /\ run' = "PENDING"
    BY <1>3 DEF Trigger
  <2> QED BY <1>1, <1>2, <2>1, <2>2, <2>3 DEF BudgetInv, Unborn
<1>4. CASE Retry
  <2>1. Tokens' = Tokens /\ wins' = wins /\ losses' = losses /\ faults' = faults
        /\ clicks' = clicks + 1
    BY <1>4 DEF Retry, Tokens, flowVars, queueVars
  <2>2. PICK n : calling' = calling \cup {<<clicks', n>>}
    BY <1>4 DEF Retry
  <2>3. IsFiniteSet(calling') /\ Cardinality(calling') \in Nat
        /\ Cardinality(calling') <= Cardinality(calling) + 1
    BY <1>1, <2>2, OneMore
  <2>4. run # "absent" /\ run' = "PENDING"
    BY <1>4 DEF Retry
  <2> QED BY <1>1, <1>2, <2>1, <2>3, <2>4 DEF BudgetInv, Unborn
<1>5. CASE Enqueue
  <2>1. PICK c \in calling :
          /\ calling' = calling \ {c}
          /\ \/ AddJob(c[2], NoNode) /\ UNCHANGED <<dropped, faults>>
             \/ Fault("enqueue") /\ Drop("enqueue") /\ UNCHANGED <<payload, queueVars>>
          /\ UNCHANGED <<runVars, flowVars, pc, memory, effects, waited, clicks>>
    BY <1>5 DEF Enqueue
  <2>2. IsFiniteSet(calling') /\ Cardinality(calling') \in Nat
        /\ Cardinality(calling') + 1 <= Cardinality(calling)
    BY <1>1, <2>1, OneLess
  <2>3. wins' = wins /\ losses' = losses /\ run' = run /\ clicks' = clicks /\ pc' = pc
    BY <2>1 DEF runVars, flowVars
  <2>4. CASE AddJob(c[2], NoNode) /\ UNCHANGED <<dropped, faults>>
    <3>1. c[2] \in Maybe
      BY DEF WorkflowInv, WorkflowTypeOK, Maybe
    <3>2. PICK i \in Jobs : job[i] = "none" /\ job' = [job EXCEPT ![i] = "waiting"]
      BY <2>4, <3>1, AddJobTokens
    <3>3. Tokens' \subseteq Tokens \cup {i}
      BY <2>3, <3>2 DEF Tokens, WorkflowInv, QueueInv, QueueTypeOK
    <3>4. IsFiniteSet(Tokens') /\ Cardinality(Tokens') \in Nat
          /\ Cardinality(Tokens') <= Cardinality(Tokens) + 1
      BY <1>1, <3>3, OneMore
    <3> QED BY <1>1, <1>2, <2>2, <2>3, <2>4, <3>4 DEF BudgetInv, Unborn
  <2>5. CASE Fault("enqueue") /\ Drop("enqueue") /\ UNCHANGED <<payload, queueVars>>
    <3>1. Tokens' = Tokens /\ faults' = faults + 1
      BY <2>3, <2>5 DEF Tokens, queueVars, Fault
    <3> QED BY <1>1, <1>2, <2>2, <2>3, <3>1 DEF BudgetInv, Unborn
  <2> QED BY <2>1, <2>4, <2>5
<1>6. CASE PauseOrResume
  <2>1. Tokens' = Tokens /\ wins' = wins /\ losses' = losses /\ faults' = faults
        /\ clicks' = clicks /\ run' = run /\ calling' = calling
    BY <1>6 DEF PauseOrResume, Tokens, runVars, history, queueVars
  <2> QED BY <2>1 DEF BudgetInv, Unborn
<1> QED BY <1>3, <1>4, <1>5, <1>6

\* A verdict costs the token of the job that gives it.
LEMMA VerdictPays ==
  ASSUME WorkflowInv, BudgetInv, NEW j \in Jobs, StepLimit(j) \/ Finish(j) \/ DeclareFailed(j)
  PROVE  BudgetInv'
<1>1. /\ IsFiniteSet(calling) /\ IsFiniteSet(Tokens)
      /\ Cardinality(calling) \in Nat /\ Cardinality(Tokens) \in Nat
  BY FS_CardinalityType DEF BudgetInv
<1>2. wins \in Nat /\ losses \in Nat /\ faults \in Nat /\ clicks \in Nat
  BY DEF WorkflowInv, WorkflowTypeOK
<1>3. /\ calling' = calling /\ faults' = faults /\ clicks' = clicks /\ job' = job
      /\ \/ run' = "SUCCEEDED" /\ wins' = wins + 1 /\ losses' = losses
         \/ run' = "FAILED" /\ wins' = wins /\ losses' = losses + 1
      /\ pc[j] \in {"loop", "failing"} /\ pc' \in {[pc EXCEPT ![j] = o] : o \in Over}
  BY DEF StepLimit, Finish, DeclareFailed, FailRun, Goto, history, queueVars, Over
<1>4. job[j] = "active" /\ j \in Tokens
  BY <1>3 DEF Tokens, Over, WorkflowInv, WorkflowTypeOK
<1>5. Tokens' \subseteq Tokens \ {j}
  BY <1>3, <1>4 DEF Tokens, Over, WorkflowInv, WorkflowTypeOK
<1>6. /\ IsFiniteSet(Tokens') /\ Cardinality(Tokens') \in Nat
      /\ Cardinality(Tokens') + 1 <= Cardinality(Tokens)
  BY <1>1, <1>4, <1>5, OneLess
<1>7. Unborn \in {0, 1} /\ Unborn' = 0
  BY <1>3 DEF Unborn
<1> QED BY <1>1, <1>2, <1>3, <1>6, <1>7 DEF BudgetInv

\* What a step may do that gives no verdict: at best the tokens stay, and whatever is added
\* is paid by a fault.
LEMMA NoVerdictPays ==
  ASSUME WorkflowInv, BudgetInv, UNCHANGED <<calling, wins, losses, clicks>>,
         run' = run \/ run' \in {"RUNNING", "WAITING"},
         WorkflowInv',
         \/ Tokens' \subseteq Tokens /\ faults' >= faults
         \/ \E e : Tokens' \subseteq Tokens \cup {e} /\ faults' = faults + 1
         \/ \E d \in Tokens : \E e : Tokens' \subseteq (Tokens \ {d}) \cup {e} /\ faults' = faults
  PROVE  BudgetInv'
<1>1. /\ IsFiniteSet(calling) /\ IsFiniteSet(Tokens)
      /\ Cardinality(calling) \in Nat /\ Cardinality(Tokens) \in Nat
  BY FS_CardinalityType DEF BudgetInv
<1>2. wins \in Nat /\ losses \in Nat /\ faults \in Nat /\ clicks \in Nat /\ faults' \in Nat
  BY DEF WorkflowInv, WorkflowTypeOK
<1>3. /\ IsFiniteSet(Tokens') /\ Cardinality(Tokens') \in Nat
      /\ Cardinality(Tokens') - faults' <= Cardinality(Tokens) - faults
  <2>1. CASE Tokens' \subseteq Tokens /\ faults' >= faults
    BY <1>1, <1>2, <2>1, NoMore
  <2>2. CASE \E e : Tokens' \subseteq Tokens \cup {e} /\ faults' = faults + 1
    <3>1. PICK e : Tokens' \subseteq Tokens \cup {e} /\ faults' = faults + 1
      BY <2>2
    <3>2. IsFiniteSet(Tokens') /\ Cardinality(Tokens') \in Nat
          /\ Cardinality(Tokens') <= Cardinality(Tokens) + 1
      BY <1>1, <3>1, OneMore
    <3> QED BY <1>1, <1>2, <3>1, <3>2
  <2>3. CASE \E d \in Tokens : \E e : Tokens' \subseteq (Tokens \ {d}) \cup {e} /\ faults' = faults
    <3>1. PICK d \in Tokens : \E e : Tokens' \subseteq (Tokens \ {d}) \cup {e} /\ faults' = faults
      BY <2>3
    <3>2. PICK e : Tokens' \subseteq (Tokens \ {d}) \cup {e}
      BY <3>1
    <3>3. IsFiniteSet(Tokens') /\ Cardinality(Tokens') \in Nat
          /\ Cardinality(Tokens') <= Cardinality(Tokens)
      BY <1>1, <3>2, Exchange
    <3> QED BY <1>1, <1>2, <3>1, <3>3
  <2> QED BY <2>1, <2>2, <2>3
<1>4. Unborn \in {0, 1} /\ Unborn' \in {0, 1} /\ Unborn' <= Unborn
  BY DEF Unborn
<1> QED BY <1>1, <1>2, <1>3, <1>4 DEF BudgetInv

\* The other lines of a handler that touch no queue add no token.
LEMMA InwardPays ==
  ASSUME WorkflowInv, BudgetInv, WorkflowNext, NEW j \in Jobs, Inward(j)
  PROVE  BudgetInv'
<1>1. WorkflowInv'
  BY WorkflowInvStep
<1>2. CASE StepLimit(j) \/ Finish(j) \/ DeclareFailed(j)
  BY <1>2, VerdictPays
<1>3. CASE ~ (StepLimit(j) \/ Finish(j) \/ DeclareFailed(j))
  <2>1. /\ UNCHANGED <<calling, wins, losses, clicks, job>>
        /\ run' = run \/ run' \in {"RUNNING", "WAITING"}
        /\ faults' = faults \/ faults' = faults + 1
        /\ pc' = pc \/ \E o \in Step : pc' = [pc EXCEPT ![j] = o]
        /\ pc[j] \in Over => pc[j] = "saving" /\ pc' = [pc EXCEPT ![j] = "rethrowing"]
    BY <1>3 DEF Inward, Load, LeaveWaiting, MarkRunning, SkipDone, OpenStep, Decide, Act,
         PersistDone, Suspend, CloseFailed, SaveProgress, AnswerLost, Escapes, Fault, Round, Goto,
         Over, Step, flowVars, runVars, history, queueVars
  <2>2. Tokens' \subseteq Tokens
    BY <2>1 DEF Tokens, Over, Step, WorkflowInv, WorkflowTypeOK
  <2>3. faults' >= faults
    BY <2>1 DEF WorkflowInv, WorkflowTypeOK
  <2> QED BY <1>1, <2>1, <2>2, <2>3, NoVerdictPays
<1> QED BY <1>2, <1>3

\* A continuation takes the token over; what forks, and what is done again, is a fault's.
LEMMA OutwardPays ==
  ASSUME WorkflowInv, BudgetInv, WorkflowNext, NEW j \in Jobs,
         \/ Begin(j) \/ Continue(j) \/ TryThrows(j)
         \/ Return(j) \/ Crash(j) \/ HandOut(j)
  PROVE  BudgetInv'
<1>1. WorkflowInv'
  BY WorkflowInvStep
<1>2. /\ QueueInv /\ QueueTypeOK /\ WorkflowTypeOK /\ HandlerKnows
      /\ \A i \in Jobs : graph[at[j]] \in Maybe \/ at[j] \notin Nodes
  BY WorkflowAssumption DEF WorkflowInv, QueueInv, WorkflowTypeOK, WorkflowAssumption, Maybe
<1>3. /\ UNCHANGED <<calling, wins, losses, clicks, run>>
      /\ faults' = faults \/ faults' = faults + 1
  BY DEF Begin, Continue, TryThrows, Return, Crash, HandOut, Fault, flowVars, runVars, history
<1>4. faults \in Nat
  BY <1>2 DEF WorkflowTypeOK
<1>5. ASSUME AddJob(graph[at[j]], at[j]), pc[j] = "suspended"
      PROVE  \E i \in Jobs : job[i] = "none" /\ job' = [job EXCEPT ![i] = "waiting"]
  <2>1. at[j] \in Delays /\ graph[at[j]] \in Maybe
    BY <1>2, <1>5 DEF HandlerKnows, Delays
  <2> QED BY <1>5, <2>1, AddJobTokens
<1>6. CASE Begin(j)
  <2>1. Take(j) /\ pc' = [pc EXCEPT ![j] = "start"]
    BY <1>6 DEF Begin, Goto
  <2>2. Tokens' \subseteq Tokens
    BY <1>2, <2>1 DEF Take, Tokens, Over, QueueTypeOK, WorkflowTypeOK
  <2> QED BY <1>1, <1>3, <1>4, <2>2, NoVerdictPays
<1>7. CASE Continue(j)
  <2>1. pc[j] = "suspended" /\ pc' = [pc EXCEPT ![j] = "returning"] /\ faults' = faults
    BY <1>7 DEF Continue, Goto, history
  <2>2. PICK i \in Jobs : job[i] = "none" /\ job' = [job EXCEPT ![i] = "waiting"]
    BY <1>5, <1>7 DEF Continue
  <2>3. j \in Tokens /\ job[j] = "active"
    BY <1>2, <2>1 DEF Tokens, Over, WorkflowTypeOK
  <2>4. Tokens' \subseteq (Tokens \ {j}) \cup {i}
    BY <1>2, <2>1, <2>2, <2>3 DEF Tokens, Over, WorkflowTypeOK, QueueTypeOK
  <2> QED BY <1>1, <1>3, <2>1, <2>3, <2>4, NoVerdictPays
<1>8. CASE TryThrows(j)
  <2>1. pc[j] \notin Over /\ pc' = [pc EXCEPT ![j] = "throwing"] /\ faults' = faults + 1
    BY <1>8 DEF TryThrows, Goto, Fault, Over
  <2>2. \/ job' = job
        \/ \E i \in Jobs : job[i] = "none" /\ job' = [job EXCEPT ![i] = "waiting"]
    BY <1>5, <1>8 DEF TryThrows, queueVars
  <2>3. \E e : Tokens' \subseteq Tokens \cup {e}
    <3>1. CASE job' = job
      <4>1. Tokens' \subseteq Tokens \cup {j}
        BY <1>2, <2>1, <3>1 DEF Tokens, Over, WorkflowTypeOK
      <4> QED BY <4>1
    <3>2. ASSUME NEW i \in Jobs, job[i] = "none", job' = [job EXCEPT ![i] = "waiting"]
          PROVE  Tokens' \subseteq Tokens \cup {i}
      BY <1>2, <2>1, <3>2 DEF Tokens, Over, WorkflowTypeOK, QueueTypeOK
    <3> QED BY <2>2, <3>1, <3>2
  <2> QED BY <1>1, <1>3, <2>1, <2>3, NoVerdictPays
<1>9. CASE Return(j)
  <2>1. job[j] = "active" /\ job' \in {[job EXCEPT ![j] = o] : o \in {"completed", "failed"}}
    <3>1. CASE Succeed(j)
      BY <3>1 DEF Succeed
    <3>2. CASE Fail(j)
      <4>1. job[j] = "active" /\ made[j] = 0
        BY <1>2, <3>2 DEF Fail, QueueInv, OpenJobs, Unfinished
      <4>2. ~ (made'[j] < JobAttempts)
        BY <1>2, <3>2, <4>1 DEF Fail, JobAttempts, QueueTypeOK
      <4> QED BY <3>2, <4>1, <4>2 DEF Fail
    <3> QED BY <1>9, <3>1, <3>2 DEF Return
  <2>2. Tokens' \subseteq Tokens
    BY <1>2, <1>9, <2>1 DEF Return, Forget, Goto, Tokens, WorkflowTypeOK, QueueTypeOK
  <2> QED BY <1>1, <1>3, <1>4, <2>2, NoVerdictPays
<1>10. CASE Crash(j)
  <2>1. Tokens' \subseteq Tokens \cup {j}
    BY <1>2, <1>10 DEF Crash, Forget, Goto, WorkerDies, Tokens, WorkflowTypeOK, QueueTypeOK
  <2>2. faults' = faults + 1
    BY <1>10 DEF Crash, Fault
  <2> QED BY <1>1, <1>3, <2>1, <2>2, NoVerdictPays
<1>11. CASE HandOut(j)
  <2>1. Tokens' \subseteq Tokens
    BY <1>2, <1>11 DEF HandOut, Reclaim, Tokens, WorkflowTypeOK, QueueTypeOK
  <2> QED BY <1>1, <1>3, <1>4, <2>1, NoVerdictPays
<1> QED BY <1>6, <1>7, <1>8, <1>9, <1>10, <1>11

LEMMA BudgetInvStep == WorkflowInv /\ BudgetInv /\ [WorkflowNext]_workflowVars => BudgetInv'
<1> SUFFICES ASSUME WorkflowInv, BudgetInv, [WorkflowNext]_workflowVars PROVE BudgetInv'
  OBVIOUS
<1>1. CASE WorkflowNext
  BY <1>1, StepKinds, RequestsPay, InwardPays, OutwardPays
<1>2. CASE UNCHANGED workflowVars
  BY <1>2 DEF BudgetInv, Tokens, Unborn, workflowVars, runVars, flowVars, history, queueVars
<1> QED BY <1>1, <1>2

LEMMA BudgetInvAlways == WorkflowSafe => []BudgetInv
  BY WorkflowInvAlways, BudgetInvInit, BudgetInvStep, PTL DEF WorkflowSafe

-----------------------------------------------------------------------------
(* The calm: without retry and fault one handler at a time walks the graph. *)

\* Whoever may give the run's verdict is alone, and then nothing has been given yet.
LEMMA Alone ==
  ASSUME WorkflowInv, BudgetInv, Calm
  PROVE  /\ \A i, j \in Tokens : i = j
         /\ calling # {} => Tokens = {}
         /\ run = "absent" \/ losses > 0 => calling = {} /\ Tokens = {}
         /\ losses > 0 => run # "absent"
<1>1. /\ IsFiniteSet(calling) /\ IsFiniteSet(Tokens)
      /\ Cardinality(calling) \in Nat /\ Cardinality(Tokens) \in Nat
  BY FS_CardinalityType DEF BudgetInv
<1>2. wins \in Nat /\ losses \in Nat /\ faults \in Nat /\ clicks \in Nat
  BY DEF WorkflowInv, WorkflowTypeOK
<1>3. Unborn \in {0, 1} /\ (run = "absent" => Unborn = 1)
  BY DEF Unborn
<1>4. wins + losses + Cardinality(calling) + Cardinality(Tokens) + Unborn <= 1
  BY <1>1, <1>2, <1>3 DEF BudgetInv, Calm
<1>5. calling # {} => Cardinality(calling) >= 1
  BY <1>1, FS_EmptySet
<1>6. Tokens # {} => Cardinality(Tokens) >= 1
  BY <1>1, FS_EmptySet
<1>7. \A i, j \in Tokens : i = j
  <2>1. ASSUME Tokens # {} PROVE \E e : Tokens = {e}
    <3>1. Cardinality(Tokens) = 1
      BY <1>1, <1>2, <1>3, <1>4, <1>6, <2>1
    <3> QED BY <1>1, <3>1, FS_Singleton
  <2> QED BY <2>1
<1> QED BY <1>1, <1>2, <1>3, <1>4, <1>5, <1>6, <1>7

\* Next to whoever may still give it, the others are only on their way out.
LEMMA OthersLeave ==
  ASSUME WorkflowInv, BudgetInv, Calm, NEW j \in Tokens
  PROVE  /\ calling = {} /\ run # "absent" /\ losses = 0
         /\ \A i \in Jobs \ {j} : /\ job[i] \notin {"waiting", "held"}
                                  /\ pc[i] \in {"idle", "rethrowing", "returning"}
<1>1. calling = {} /\ run # "absent" /\ ~ (losses > 0)
  BY Alone
<1>2. losses = 0
  BY <1>1 DEF WorkflowInv, WorkflowTypeOK
<1>3. ASSUME NEW i \in Jobs \ {j} PROVE i \notin Tokens
  BY <1>3, Alone
<1>4. ASSUME NEW i \in Jobs \ {j}
      PROVE  job[i] \notin {"waiting", "held"} /\ pc[i] \in {"idle", "rethrowing", "returning"}
  BY <1>1, <1>3 DEF Tokens, Over, WorkflowInv, WorkflowTypeOK, HandlerKnows
<1> QED BY <1>1, <1>2, <1>4

\* Calm is not regained.
LEMMA CalmBefore ==
  ASSUME WorkflowInv, WorkflowNext, Calm'
  PROVE  Calm /\ faults' = faults /\ clicks' = clicks /\ ~ \E k : Fault(k)
<1>1. faults \in Nat /\ clicks \in Nat /\ faults' \in Nat /\ clicks' \in Nat
  BY WorkflowInvStep DEF WorkflowInv, WorkflowTypeOK
<1>2. /\ UNCHANGED faults \/ faults' = faults + 1
      /\ UNCHANGED clicks \/ clicks' = clicks + 1
  BY DEF WorkflowNext, Trigger, Retry, Enqueue, PauseOrResume, Walks, Fails, Begin, Load,
         LeaveWaiting, MarkRunning, SkipDone, OpenStep, StepLimit, Finish, Decide, Act,
         PersistDone, Suspend, Continue, CloseFailed, DeclareFailed, SaveProgress, Return, HandOut,
         AnswerLost, TryThrows, Escapes, Crash, Fault, history
<1>3. faults = 0 /\ clicks = 0 /\ faults' = 0 /\ clicks' = 0
  <2>1. faults' + clicks' = 0
    BY DEF Calm
  <2>2. faults' = 0 /\ clicks' = 0
    <3>1. \A x, y \in Nat : x + y = 0 => x = 0 /\ y = 0
      OBVIOUS
    <3> QED BY ONLY <1>1, <2>1, <3>1
  <2> QED BY ONLY <1>1, <1>2, <2>2
<1>4. ASSUME NEW k, Fault(k) PROVE FALSE
  BY <1>3, <1>4 DEF Fault
<1> QED BY <1>3, <1>4 DEF Calm

\* The walk up to e goes from each of its nodes but e to the next.
LEMMA WalkCloses ==
  ASSUME WorkflowInv, NEW e
  PROVE  /\ Start \in Walk(e)
         /\ \A n \in Walk(e) : n # e /\ graph[n] \in Nodes => graph[n] \in Walk(e)
BY WorkflowAssumption DEF Walk, WorkflowInv, WorkflowTypeOK, WorkflowAssumption

\* From a node that is no delay, or one that is over or excepted, the walk meets no other.
LEMMA AheadNext ==
  ASSUME WorkflowInv, NEW n \in Nodes, NEW d, Ahead(n, NoNode),
         n \in Delays => n \in waited \/ n = d
  PROVE  Ahead(graph[n], d)
<1> SUFFICES ASSUME graph[n] \in Nodes, NEW e \in Delays, e # d, e \notin waited
             PROVE  graph[n] \in Walk(e)
  BY DEF Ahead
<1>1. n # e
  OBVIOUS
<1>2. e # NoNode
  BY WorkflowAssumption DEF Delays, WorkflowAssumption
<1>3. n \in Walk(e)
  BY <1>2 DEF Ahead
<1> QED BY <1>1, <1>3, WalkCloses

\* Nothing has happened before the run is created.
LEMMA CalmInvInit == WorkflowInit => CalmInv
<1> SUFFICES ASSUME WorkflowInit PROVE CalmInv
  OBVIOUS
<1>1. /\ \A n \in Nodes : effects[n] = 0
      /\ \A j \in Jobs : job[j] = "none" /\ pc[j] = "idle"
      /\ saved = {} /\ calling = {}
  BY DEF WorkflowInit, QueueInit
<1>2. DelayHeld
  BY <1>1 DEF DelayHeld, Behind, OnWalk, Walk
<1> QED BY <1>1, <1>2 DEF CalmInv, CalmFor, Covered

\* The requests find a calm run as it was created.
LEMMA RequestsCalm ==
  ASSUME WorkflowInv, BudgetInv, CalmInv, WorkflowNext,
         Trigger \/ Retry \/ Enqueue \/ PauseOrResume
  PROVE  CalmInv'
<1> SUFFICES ASSUME Calm' PROVE CalmInv'
  BY DEF CalmInv
<1>1. Calm /\ faults' = faults /\ clicks' = clicks /\ ~ \E k : Fault(k)
  BY CalmBefore
<1>2. \A e : Walk(e)' = Walk(e)
  BY StepKinds DEF Walk
<1>3. /\ UNCHANGED <<saved, pc, at, done, effects, waited>>
  BY DEF Trigger, Retry, Enqueue, PauseOrResume, runVars, memory, history
<1>4. DelayHeld'
  BY <1>1, <1>2, <1>3 DEF CalmInv, DelayHeld, Behind, OnWalk
<1> USE <1>1, <1>2, <1>3, <1>4 DEF CalmInv, CalmFor, Covered, Past, Ahead, Settled
<1>5. CASE Trigger
  BY <1>5 DEF Trigger, queueVars
<1>6. CASE Retry
  <2>1. clicks' = clicks + 1 /\ clicks \in Nat
    BY <1>6 DEF Retry, WorkflowInv, WorkflowTypeOK
  <2> QED BY <2>1
<1>7. CASE Enqueue
  <2>1. PICK c \in calling :
          /\ calling' = calling \ {c}
          /\ AddJob(c[2], NoNode)
          /\ run' = run
    BY <1>7 DEF Enqueue, runVars
  <2>2. c[2] = NoNode /\ Tokens = {} /\ saved = {} /\ Covered({})
    BY Alone
  <2>3. PICK i \in Jobs :
          /\ job' = [job EXCEPT ![i] = "waiting"]
          /\ payload' = [payload EXCEPT ![i] = [resume |-> NoNode, after |-> NoNode]]
    BY <2>1, <2>2, AddJobEffect DEF Maybe
  <2>4. \A k \in Jobs : job[k] \notin {"waiting", "held"} /\ (pc[k] = "idle" \/ pc[k] \in Over)
    BY <2>2 DEF Tokens, WorkflowInv, WorkflowTypeOK
  <2>5. \A k \in Jobs \ {i} : job'[k] = job[k]
    BY <2>3 DEF WorkflowInv, QueueInv, QueueTypeOK
  <2>6. /\ job'[i] = "waiting" 
        /\ payload'[i].resume = NoNode /\ payload'[i].after = NoNode
    BY <2>3 DEF WorkflowInv, WorkflowTypeOK, QueueInv, QueueTypeOK
  <2>7. NoNode \notin Nodes
    BY WorkflowAssumption DEF WorkflowAssumption
  <2> QED BY <2>1, <2>2, <2>4, <2>5, <2>6, <2>7 DEF Over
<1>8. CASE PauseOrResume
  BY <1>8 DEF PauseOrResume, runVars, queueVars
<1> QED BY <1>5, <1>6, <1>7, <1>8

\* A line of a calm handler that touches no queue.
LEMMA InwardCalm ==
  ASSUME WorkflowInv, BudgetInv, CalmInv, WorkflowNext, NEW j \in Jobs, Inward(j)
  PROVE  CalmInv'
<1> SUFFICES ASSUME Calm' PROVE CalmInv'
  BY DEF CalmInv
<1>1. Calm /\ faults' = faults /\ clicks' = clicks /\ ~ \E k : Fault(k)
  BY CalmBefore
<1>2. \A e : Walk(e)' = Walk(e)
  BY StepKinds DEF Walk
<1>3. CASE SaveProgress(j)
  <2>1. Tokens = {} /\ calling = {} /\ run # "absent"
    <3>1. losses > 0
      BY <1>3 DEF SaveProgress, WorkflowInv, HandlerKnows
    <3> QED BY <1>1, <3>1, Alone
  <2>2. \A k \in Jobs : job[k] # "waiting" /\ (pc[k] = "idle" \/ pc[k] \in Over)
    BY <2>1 DEF Tokens, WorkflowInv, WorkflowTypeOK
  <2>3. UNCHANGED <<calling, run, job, effects, waited>> /\ pc' = [pc EXCEPT ![j] = "rethrowing"]
    BY <1>3 DEF SaveProgress, Goto, queueVars
  <2>4. DelayHeld'
    BY <1>1, <1>2, <2>3 DEF CalmInv, DelayHeld, Behind, OnWalk
  <2> QED BY <1>1, <2>1, <2>2, <2>3, <2>4 DEF CalmInv, CalmFor, Over, WorkflowInv, WorkflowTypeOK
<1>4. CASE ~ SaveProgress(j)
  <2>1. job[j] = "active" /\ pc[j] \notin Over
    BY <1>4 DEF Inward, Load, LeaveWaiting, MarkRunning, SkipDone, OpenStep, StepLimit, Finish,
         Decide, Act, PersistDone, Suspend, CloseFailed, DeclareFailed, AnswerLost, Escapes,
         Round, Over, WorkflowInv, WorkflowTypeOK
  <2>2. j \in Tokens
    BY <2>1 DEF Tokens
  <2>3. /\ calling = {} /\ run # "absent"
        /\ \A i \in Jobs \ {j} : /\ job[i] \notin {"waiting", "held"}
                                 /\ pc[i] \in {"idle", "rethrowing", "returning"}
    BY <1>1, <2>2, OthersLeave
  <2>4. /\ UNCHANGED <<calling, payload, job, waited>> /\ run' # "absent"
        /\ \E o \in Step : pc' = [pc EXCEPT ![j] = o]
    BY <1>1, <1>4, <2>3 DEF Inward, Load, LeaveWaiting, MarkRunning, SkipDone, OpenStep, StepLimit,
         Finish, Decide, Act, PersistDone, Suspend, CloseFailed, DeclareFailed, AnswerLost,
         Escapes, Round, FailRun, Goto, Step, runVars, history, queueVars, WorkflowInv,
         WorkflowTypeOK
  <2>5. \A i \in Jobs \ {j} : pc'[i] = pc[i] /\ job'[i] = job[i]
    BY <2>4 DEF WorkflowInv, WorkflowTypeOK
  <2>6. SUFFICES CalmFor(j)' /\ (\A n \in Nodes : effects'[n] <= 1) /\ DelayHeld'
    BY <2>3, <2>4, <2>5 DEF CalmInv, CalmFor
  <2>7. CalmFor(j) /\ (\A n \in Nodes : effects[n] <= 1) /\ DelayHeld
    BY <1>1 DEF CalmInv, CalmFor
  <2>8. UNCHANGED effects => (\A n \in Nodes : effects'[n] <= 1) /\ DelayHeld'
    BY <1>1, <1>2, <2>4, <2>7 DEF DelayHeld, Behind, OnWalk
  <2>9. job'[j] = "active" /\ payload' = payload /\ waited' = waited
    BY <2>1, <2>4
  <2>10. WorkflowTypeOK /\ HandlerKnows
    BY DEF WorkflowInv
  <2>11. \A n \in Nodes : graph[n] \in Maybe
    BY WorkflowAssumption DEF WorkflowInv, WorkflowTypeOK, WorkflowAssumption, Maybe
  <2> USE <2>1, <2>2, <2>7, <2>8, <2>9, <2>10, <1>2
      DEF CalmFor, Settled, Covered, Past, Ahead, WorkflowTypeOK, Goto, Over, runVars, memory,
          history
  <2>12. CASE Load(j)
    BY <2>12 DEF Load
  <2>13. CASE LeaveWaiting(j)
    BY <2>13 DEF LeaveWaiting
  <2>14. CASE MarkRunning(j)
    BY <2>14, WalkCloses DEF MarkRunning
  <2>15. CASE SkipDone(j)
    <3>1. at[j] \in Nodes /\ at[j] \in done[j] /\ Ahead(at[j], NoNode) /\ pc[j] = "loop"
      BY <2>15 DEF SkipDone, Round
    <3>2. at[j] \in Delays => at[j] \in waited
      BY <3>1, WorkflowAssumption DEF Delays, WorkflowAssumption
    <3>3. Ahead(graph[at[j]], NoNode)
      BY <3>1, <3>2, AheadNext
    <3> QED BY <2>15, <3>1, <3>3 DEF SkipDone, Round
  <2>16. CASE OpenStep(j)
    BY <2>16 DEF OpenStep, Round
  <2>17. CASE StepLimit(j) \/ Finish(j) \/ CloseFailed(j) \/ DeclareFailed(j)
    BY <2>17 DEF StepLimit, Finish, CloseFailed, DeclareFailed, FailRun
  <2>18. CASE Decide(j)
    <3>1. at[j] \in Nodes /\ Kind[at[j]] = "condition" /\ Ahead(at[j], NoNode) /\ pc[j] = "opened"
      BY <2>18 DEF Decide, HandlerKnows, InStep
    <3>2. Ahead(graph[at[j]], NoNode)
      BY <3>1, AheadNext DEF Delays
    <3> QED BY <2>18, <3>1, <3>2 DEF Decide, AddDone
  <2>19. CASE Act(j)
    <3>1. at[j] \in Nodes /\ Kind[at[j]] = "action" /\ Ahead(at[j], NoNode) /\ pc[j] = "opened"
      BY <2>19 DEF Act, HandlerKnows, InStep
    <3>2. effects[at[j]] = 0
      BY <3>1
    <3>3. CASE UNCHANGED effects
      BY <2>19, <3>1, <3>3 DEF Act
    <3>4. CASE TakesEffect(j)
      <4>1. effects' = [effects EXCEPT ![at[j]] = 1]
        BY <3>1, <3>2, <3>4 DEF TakesEffect
      <4>2. \A n \in Nodes : effects'[n] <= 1
        BY <4>1
      <4>3. ASSUME NEW n \in Delays, n \notin waited PROVE at[j] \notin Behind(n)
        <5>1. n # NoNode
          BY WorkflowAssumption DEF Delays, WorkflowAssumption
        <5>2. at[j] \in Walk(n)
          BY <3>1, <4>3, <5>1
        <5> QED BY <5>2 DEF Behind
      <4>4. \A n \in Nodes : Behind(n)' = Behind(n)
        BY DEF Behind, OnWalk
      <4>5. \A n : Behind(n) \subseteq Nodes
        BY DEF Behind, OnWalk, Walk
      <4>6. OnWalk' = OnWalk
        BY DEF OnWalk
      <4>7. OnWalk \subseteq Nodes
        BY DEF OnWalk, Walk
      <4>8. ASSUME NEW n \in OnWalk, Kind[n] = "delay", n \notin waited, NEW m \in Behind(n),
                   Kind[m] = "action"
            PROVE  effects'[m] = 0
        <5>1. n \in Delays /\ m \in Nodes /\ m # at[j]
          BY <4>3, <4>5, <4>7, <4>8 DEF Delays
        <5>2. effects[m] = 0
          BY <1>1, <4>8 DEF DelayHeld, Calm
        <5> QED BY <4>1, <5>1, <5>2
      <4>9. DelayHeld'
        BY <4>4, <4>6, <4>7, <4>8 DEF DelayHeld
      <4> QED BY <2>19, <3>1, <3>4, <4>1, <4>2, <4>9 DEF Act
    <3> QED BY <2>19, <3>3, <3>4 DEF Act
  <2>20. CASE PersistDone(j)
    <3>1. at[j] \in Nodes /\ Kind[at[j]] = "action" /\ Ahead(at[j], NoNode) /\ pc[j] = "acted"
      BY <2>20 DEF PersistDone, HandlerKnows, InStep
    <3>2. Ahead(graph[at[j]], NoNode)
      BY <3>1, AheadNext DEF Delays
    <3> QED BY <2>20, <3>1, <3>2 DEF PersistDone, AddDone
  <2>21. CASE Suspend(j)
    <3>1. at[j] \in Delays /\ Ahead(at[j], NoNode) /\ pc[j] = "opened" /\ Past(done[j], NoNode)
      BY <2>21 DEF Suspend, HandlerKnows, InStep, Delays
    <3>2. NoNode \notin Nodes
      BY WorkflowAssumption DEF WorkflowAssumption
    <3>3. /\ done'[j] = done[j] \cup {at[j]} /\ saved' = done'[j] /\ at' = at
          /\ pc'[j] = "suspended" /\ UNCHANGED effects
      BY <2>21 DEF Suspend, AddDone
    <3>4. \A n \in saved' : Kind[n] = "delay" => n = at'[j] \/ n \in waited'
      BY <3>1, <3>2, <3>3
    <3>5. \A n \in Nodes : effects'[n] > 0 => n \in done'[j]
      BY <3>1, <3>3
    <3> QED BY <3>1, <3>3, <3>4, <3>5
  <2>22. CASE AnswerLost(j) \/ Escapes(j)
    BY <1>1, <2>22 DEF AnswerLost, Escapes
  <2> QED BY <1>4, <2>12, <2>13, <2>14, <2>15, <2>16, <2>17, <2>18, <2>19, <2>20, <2>21, <2>22
          DEF Inward
<1> QED BY <1>3, <1>4

\* A delay that is taken up is over; what is done by then was persisted before it.
LEMMA OutwardCalm ==
  ASSUME WorkflowInv, BudgetInv, CalmInv, WorkflowNext, NEW j \in Jobs,
         \/ Begin(j) \/ Continue(j) \/ TryThrows(j)
         \/ Return(j) \/ Crash(j) \/ HandOut(j)
  PROVE  CalmInv'
<1> SUFFICES ASSUME Calm' PROVE CalmInv'
  BY DEF CalmInv
<1>1. Calm /\ faults' = faults /\ clicks' = clicks /\ ~ \E k : Fault(k)
  BY CalmBefore
<1>2. \A e : Walk(e)' = Walk(e)
  BY StepKinds DEF Walk
<1>3. ~ TryThrows(j) /\ ~ Crash(j) /\ ~ HandOut(j)
  BY <1>1 DEF TryThrows, Crash, HandOut, Reclaim, CalmInv, CalmFor
<1>4. /\ UNCHANGED <<run, calling, saved, effects>>
      /\ waited \subseteq waited'
  BY <1>3 DEF Begin, Continue, Return, runVars, history
<1>5. DelayHeld'
  BY <1>1, <1>2, <1>4 DEF CalmInv, DelayHeld, Behind, OnWalk
<1>6. /\ \A n \in Nodes : effects[n] <= 1
      /\ run = "absent" \/ calling # {} => saved = {} /\ Covered({})
      /\ \A c \in calling : c[2] = NoNode
      /\ \A i \in Jobs : CalmFor(i)
  BY <1>1 DEF CalmInv, CalmFor
<1>7. SUFFICES \A i \in Jobs : CalmFor(i)'
  BY <1>4, <1>5, <1>6 DEF CalmInv, CalmFor, Covered
<1>8. WorkflowTypeOK /\ HandlerKnows /\ QueueInv /\ QueueTypeOK
  BY DEF WorkflowInv, QueueInv
<1>9. CASE Begin(j)
  <2>1. /\ job[j] = "waiting" /\ job' = [job EXCEPT ![j] = "active"]
        /\ pc' = [pc EXCEPT ![j] = "start"]
        /\ waited' = waited \cup ({payload[j].after} \ {NoNode})
        /\ UNCHANGED <<at, done, payload>>
    BY <1>9 DEF Begin, Take, Goto, memory
  <2>2. j \in Tokens
    BY <2>1 DEF Tokens
  <2>3. \A i \in Jobs \ {j} : /\ job[i] \notin {"waiting", "held"}
                              /\ pc[i] \in {"idle", "rethrowing", "returning"}
    BY <1>1, <2>2, OthersLeave
  <2>4. \A i \in Jobs \ {j} : CalmFor(i)'
    BY <1>8, <2>1, <2>3 DEF CalmFor, QueueTypeOK, WorkflowTypeOK
  <2>5. Settled(payload[j].resume, payload[j].after)
    BY <1>6, <2>1 DEF CalmFor
  <2>6. /\ job'[j] = "active" /\ pc'[j] = "start"
        /\ payload[j].after = NoNode \/ payload[j].after \in waited'
    BY <1>8, <2>1 DEF QueueTypeOK, WorkflowTypeOK
  <2>7. \A n \in saved : Kind[n] = "delay" => n = NoNode \/ n \in waited'
    BY <1>4, <2>5, <2>6 DEF Settled, Past
  <2>8. payload[j].resume \in Nodes =>
          \A e \in Delays : e = NoNode \/ e \in waited' \/ payload[j].resume \in Walk(e)
    BY <1>4, <2>5, <2>6 DEF Settled, Ahead
  <2>9. CalmFor(j)'
    BY <1>2, <1>4, <2>1, <2>5, <2>6, <2>7, <2>8 DEF CalmFor, Settled, Covered, Past, Ahead
  <2> QED BY <2>4, <2>9
<1>10. CASE Continue(j)
  <2>1. /\ pc[j] = "suspended" /\ pc' = [pc EXCEPT ![j] = "returning"]
        /\ AddJob(graph[at[j]], at[j])
        /\ UNCHANGED <<at, done, waited>>
    BY <1>10 DEF Continue, Goto, memory, history
  <2>2. /\ at[j] \in Delays /\ at[j] \in Nodes /\ graph[at[j]] \in Maybe
    BY <1>8, <2>1, WorkflowAssumption
    DEF HandlerKnows, Delays, WorkflowTypeOK, WorkflowAssumption, Maybe
  <2>3. PICK i \in Jobs :
          /\ job[i] = "none" /\ job' = [job EXCEPT ![i] = "waiting"]
          /\ payload' = [payload EXCEPT ![i] = [resume |-> graph[at[j]], after |-> at[j]]]
    BY <2>1, <2>2, AddJobEffect
  <2>4. job[j] = "active" /\ j \in Tokens
    BY <1>8, <2>1 DEF Tokens, Over, WorkflowTypeOK
  <2>5. \A k \in Jobs \ {j} : /\ job[k] \notin {"waiting", "held"}
                              /\ pc[k] \in {"idle", "rethrowing", "returning"}
    BY <1>1, <2>4, OthersLeave
  <2>6. \A k \in Jobs \ {i} : CalmFor(k)'
    BY <1>8, <2>1, <2>3, <2>4, <2>5 DEF CalmFor, QueueTypeOK, WorkflowTypeOK
  <2>7. Covered(saved) /\ Past(saved, at[j]) /\ Ahead(at[j], NoNode)
    BY <1>6, <2>1 DEF CalmFor
  <2>8. Ahead(graph[at[j]], at[j])
    BY <2>2, <2>7, AheadNext
  <2>9. /\ i # j /\ job'[i] = "waiting" /\ pc'[i] \in {"idle", "rethrowing", "returning"}
        /\ payload'[i].resume = graph[at[j]] /\ payload'[i].after = at[j]
    BY <1>8, <2>1, <2>3, <2>4, <2>5 DEF QueueTypeOK, WorkflowTypeOK
  <2>10. CalmFor(i)'
    BY <1>2, <1>4, <2>1, <2>7, <2>8, <2>9 DEF CalmFor, Settled, Covered, Past, Ahead
  <2> QED BY <2>6, <2>10
<1>11. CASE Return(j)
  <2>1. job' \in {[job EXCEPT ![j] = o] : o \in {"completed", "failed"}}
    <3>1. CASE Succeed(j)
      BY <3>1 DEF Succeed
    <3>2. CASE Fail(j)
      <4>1. job[j] = "active" /\ made[j] = 0
        BY <1>8, <3>2 DEF Fail, QueueInv, OpenJobs, Unfinished
      <4>2. ~ (made'[j] < JobAttempts)
        BY <1>8, <3>2, <4>1 DEF Fail, JobAttempts, QueueTypeOK
      <4> QED BY <3>2, <4>2 DEF Fail
    <3> QED BY <1>11, <3>1, <3>2 DEF Return
  <2>2. /\ pc'[j] = "idle" /\ job'[j] \in {"completed", "failed"}
        /\ UNCHANGED <<payload, waited>>
    BY <1>8, <1>11, <2>1 DEF Return, Forget, Goto, history, QueueTypeOK, WorkflowTypeOK
  <2>3. \A i \in Jobs \ {j} : /\ job'[i] = job[i] /\ pc'[i] = pc[i] /\ at'[i] = at[i]
                              /\ done'[i] = done[i]
    BY <1>8, <1>11, <2>1 DEF Return, Forget, Goto, QueueTypeOK, WorkflowTypeOK
  <2>4. \A i \in Jobs \ {j} : CalmFor(i)'
    BY <1>2, <1>4, <1>6, <2>2, <2>3 DEF CalmFor, Settled, Covered, Past, Ahead
  <2>5. CalmFor(j)'
    BY <2>2 DEF CalmFor
  <2> QED BY <2>4, <2>5
<1> QED BY <1>3, <1>9, <1>10, <1>11

LEMMA CalmInvStep ==
  WorkflowInv /\ BudgetInv /\ CalmInv /\ [WorkflowNext]_workflowVars => CalmInv'
<1> SUFFICES ASSUME WorkflowInv, BudgetInv, CalmInv, [WorkflowNext]_workflowVars PROVE CalmInv'
  OBVIOUS
<1>1. CASE WorkflowNext
  BY <1>1, StepKinds, RequestsCalm, InwardCalm, OutwardCalm
<1>2. CASE UNCHANGED workflowVars
  <2>1. \A e : Walk(e)' = Walk(e)
    BY <1>2 DEF Walk, workflowVars
  <2> QED BY <1>2, <2>1
          DEF CalmInv, CalmFor, Calm, DelayHeld, Behind, OnWalk, Settled, Covered, Past, Ahead,
              workflowVars,
              runVars, flowVars, memory, history, queueVars
<1> QED BY <1>1, <1>2

LEMMA CalmInvAlways == WorkflowSafe => []CalmInv
  BY WorkflowInvAlways, BudgetInvAlways, CalmInvInit, CalmInvStep, PTL DEF WorkflowSafe

-----------------------------------------------------------------------------
(* The theorems.                                                           *)

\* Types, and what a handler's line says of its job, hold for every graph.
THEOREM WorkflowTypeCorrect == WorkflowSafe => []WorkflowTypeOK
  BY WorkflowInvAlways, PTL DEF WorkflowInv

\* However many workers, retries, pauses and faults there are: no more verdicts are given
\* than there are causes, and a run that says SUCCEEDED has run every action on its way,
\* whatever its executions lost of each other's progress.
THEOREM VerdictsAreSound == WorkflowSafe => []VerdictsSound
<1>1. WorkflowInv /\ BudgetInv /\ TrailInv => VerdictsSound
  <2> SUFFICES ASSUME WorkflowInv, BudgetInv, TrailInv PROVE VerdictsSound
    OBVIOUS
  <2>1. Cardinality(calling) \in Nat /\ Cardinality(Tokens) \in Nat
    BY FS_CardinalityType DEF BudgetInv
  <2>2. wins \in Nat /\ losses \in Nat /\ faults \in Nat /\ clicks \in Nat /\ Unborn \in Nat
    BY DEF WorkflowInv, WorkflowTypeOK, Unborn
  <2>3. VerdictsCounted
    BY <2>1, <2>2 DEF BudgetInv, VerdictsCounted
  <2>4. SucceededMeansDone
    BY DEF TrailInv, Ran, SucceededMeansDone
  <2> QED BY <2>3, <2>4 DEF VerdictsSound
<1> QED BY <1>1, WorkflowInvAlways, BudgetInvAlways, TrailInvAlways, PTL

\* Nothing behind a delay happens before the delay is over, in any graph, unless a fault or
\* a retry starts the walk again.
THEOREM DelaysHold == WorkflowSafe => []DelayHeld
<1>1. CalmInv => DelayHeld
  BY DEF CalmInv, DelayHeld, Calm
<1> QED BY <1>1, CalmInvAlways, PTL

\* Nor is an action repeated without one, by any number of delays and cycles.
THEOREM RepeatsHaveCause == WorkflowSafe => []RepeatsNeedCause
<1>1. CalmInv => RepeatsNeedCause
  BY DEF CalmInv, RepeatsNeedCause, Calm
<1> QED BY <1>1, CalmInvAlways, PTL
=============================================================================
