--------------------------- MODULE WorkspaceProofs ----------------------------
(* Proofs about the rows of an organisation: TenantScope, with any number of   *)
(* organisations, tasks and pooled connections, CreativePipeline, with any     *)
(* number of creatives, requests, jobs and faults, Inbox, with any number of   *)
(* conversations, requests and messages and pages of any size, and Listing,    *)
(* with any rows and pages of any size.                                        *)
EXTENDS TenantScope, CreativePipeline, Inbox, Listing, JobQueueProofs, FiniteSetTheorems,
        SequenceTheorems

-----------------------------------------------------------------------------
(* TenantScope: started any number of times in any configuration.            *)

\* A process that runs is subject to the policies.
RunsEnforced ==
  /\ up => role = "app"
  /\ \A t \in Tasks : stage[t] # "out" => up

\* A transaction has a connection to itself.
OwnConnection ==
  /\ \A t \in Tasks : stage[t] # "out" <=> on[t] \in Connections
  /\ \A t, u \in Tasks : on[t] \in Connections /\ on[t] = on[u] => t = u

\* A connection in the pool is bound to nobody; that of a transaction which is bound, to
\* the organisation it was opened for.
Bound ==
  /\ \A c \in Free : setting[c] = Nothing
  /\ \A t \in Tasks : stage[t] = "bound" => setting[on[t]] = given[t]

\* A transaction of a view-only session is READ ONLY before it is bound.
Limited ==
  \A t \in Tasks : view[t] /\ stage[t] \in {"limited", "bound"} => readOnly[on[t]]

ScopeInv == ScopeTypeOK /\ RunsEnforced /\ OwnConnection /\ Bound /\ Limited /\ Isolated

-----------------------------------------------------------------------------
\* The invariant holds before the first deployment.
LEMMA ScopeInvInit == ScopeInit => ScopeInv
<1> SUFFICES ASSUME ScopeInit PROVE ScopeInv
  OBVIOUS
<1>1. ScopeTypeOK
  BY DEF ScopeInit, ScopeTypeOK, NoTask, NoSetting, Never, AllOut, Stages
<1>2. RunsEnforced /\ OwnConnection /\ Bound /\ Limited
  BY ScopeAssumption
  DEF ScopeInit, RunsEnforced, OwnConnection, Bound, Limited, Free, NoTask, NoSetting, Never,
      AllOut, ScopeAssumption
<1>3. Isolated
  BY DEF ScopeInit, Isolated, TenantsApart, ViewsChangeNothing
<1> QED
  BY <1>1, <1>2, <1>3 DEF ScopeInv

\* A deployment closes every connection and ends every task.
LEMMA ScopeInvDeploy ==
  ASSUME ScopeInv, Deploy
  PROVE  ScopeInv'
<1> USE DEF ScopeInv, Deploy
<1>1. ScopeTypeOK'
  BY DEF ScopeTypeOK, NoTask, NoSetting, Never, AllOut, Stages
<1>2. (RunsEnforced /\ OwnConnection /\ Bound /\ Limited)'
  BY ScopeAssumption
  DEF RunsEnforced, OwnConnection, Bound, Limited, Free, NoTask, NoSetting, Never, AllOut,
      ScopeAssumption
<1>3. Isolated'
  BY DEF Isolated, TenantsApart, ViewsChangeNothing
<1> QED
  BY <1>1, <1>2, <1>3

\* The preflight starts nothing that is exempt from the policies.
LEMMA ScopeInvBoot ==
  ASSUME ScopeInv, Boot
  PROVE  ScopeInv'
BY DEF ScopeInv, Boot, Enforced, ScopeTypeOK, RunsEnforced, OwnConnection, Bound, Limited, Free,
       Isolated, TenantsApart, ViewsChangeNothing, taskVars, connectionVars

\* A task enters or leaves its context outside every transaction.
LEMMA ScopeInvContext ==
  ASSUME ScopeInv, NEW t \in Tasks, NEW o \in Orgs, Enter(t, o) \/ Exit(t)
  PROVE  ScopeInv'
<1> USE DEF ScopeInv, Enter, Exit, processVars, connectionVars
<1>1. ScopeTypeOK'
  BY DEF ScopeTypeOK
<1>2. (RunsEnforced /\ OwnConnection /\ Bound)'
  BY DEF RunsEnforced, OwnConnection, Bound, Free
<1>3. Limited'
  BY DEF ScopeTypeOK, Limited
<1>4. Isolated'
  BY DEF Isolated, TenantsApart, ViewsChangeNothing
<1> QED
  BY <1>1, <1>2, <1>3, <1>4

\* A transaction takes a connection nobody is using, and one it finds unbound.
LEMMA ScopeInvBegin ==
  ASSUME ScopeInv, NEW t \in Tasks, NEW o \in Orgs, Begin(t, o)
  PROVE  ScopeInv'
<1> USE DEF ScopeInv, Begin, processVars, connectionVars
<1>1. PICK c \in Free : on' = [on EXCEPT ![t] = c]
  OBVIOUS
<1>2. c \in Connections /\ \A u \in Tasks : on[u] # c
  BY DEF Free
<1>3. ScopeTypeOK'
  BY <1>1, <1>2 DEF ScopeTypeOK, Stages
<1>4. RunsEnforced'
  BY DEF RunsEnforced, ScopeTypeOK
<1>5. OwnConnection'
  BY <1>1, <1>2 DEF OwnConnection, ScopeTypeOK
<1>6. Bound'
  <2>1. (\A d \in Free : setting[d] = Nothing)'
    <3>1. SUFFICES ASSUME NEW d \in Connections, \A u \in Tasks : on'[u] # d
                   PROVE  setting[d] = Nothing
      BY DEF Free
    <3>2. \A u \in Tasks \ {t} : on[u] # d
      BY <1>1, <3>1 DEF ScopeTypeOK
    <3>3. on[t] # d
      BY DEF OwnConnection
    <3> QED
      BY <3>2, <3>3 DEF Bound, Free
  <2>2. (\A u \in Tasks : stage[u] = "bound" => setting[on[u]] = given[u])'
    BY <1>1 DEF Bound, ScopeTypeOK
  <2> QED
    BY <2>1, <2>2 DEF Bound
<1>7. Limited'
  BY <1>1 DEF Limited, ScopeTypeOK
<1>8. Isolated'
  BY DEF Isolated, TenantsApart, ViewsChangeNothing
<1> QED
  BY <1>3, <1>4, <1>5, <1>6, <1>7, <1>8

\* A transaction limits or binds its own connection, which no other task uses.
LEMMA ScopeInvBind ==
  ASSUME ScopeInv, NEW t \in Tasks, Limit(t) \/ Bind(t)
  PROVE  ScopeInv'
<1> USE DEF ScopeInv, Limit, Bind, processVars
<1>1. stage[t] # "out" /\ on[t] \in Connections
  BY DEF Bindable, OwnConnection
<1>2. \A u \in Tasks : u # t => on[u] # on[t]
  BY <1>1 DEF OwnConnection
<1>3. ScopeTypeOK'
  BY <1>1 DEF ScopeTypeOK, Stages
<1>4. RunsEnforced'
  BY <1>1 DEF RunsEnforced, ScopeTypeOK
<1>5. OwnConnection'
  BY <1>1 DEF OwnConnection, ScopeTypeOK
<1>6. Bound'
  <2>1. (\A d \in Free : setting[d] = Nothing)'
    BY <1>1 DEF Bound, Free, ScopeTypeOK
  <2>2. (\A u \in Tasks : stage[u] = "bound" => setting[on[u]] = given[u])'
    BY <1>1, <1>2 DEF Bound, OwnConnection, ScopeTypeOK
  <2> QED
    BY <2>1, <2>2 DEF Bound
<1>7. Limited'
  BY <1>1, <1>2 DEF Limited, Bindable, OwnConnection, ScopeTypeOK
<1>8. Isolated'
  BY DEF Isolated, TenantsApart, ViewsChangeNothing
<1> QED
  BY <1>3, <1>4, <1>5, <1>6, <1>7, <1>8

\* A transaction that ends takes its setting and its READ ONLY with it.
LEMMA ScopeInvEnd ==
  ASSUME ScopeInv, NEW t \in Tasks, End(t)
  PROVE  ScopeInv'
<1> USE DEF ScopeInv, End, processVars
<1>1. on[t] \in Connections
  BY DEF OwnConnection
<1>2. \A u \in Tasks : u # t => on[u] # on[t]
  BY <1>1 DEF OwnConnection
<1>3. ScopeTypeOK'
  BY <1>1 DEF ScopeTypeOK, Stages, Left
<1>4. RunsEnforced'
  BY DEF RunsEnforced, ScopeTypeOK
<1>5. OwnConnection'
  BY <1>1, <1>2, ScopeAssumption DEF OwnConnection, ScopeTypeOK, ScopeAssumption
<1>6. Bound'
  <2>1. (\A d \in Free : setting[d] = Nothing)'
    BY <1>1, <1>2 DEF Bound, Free, Left, ScopeTypeOK
  <2>2. (\A u \in Tasks : stage[u] = "bound" => setting[on[u]] = given[u])'
    BY <1>1, <1>2 DEF Bound, OwnConnection, ScopeTypeOK
  <2> QED
    BY <2>1, <2>2 DEF Bound
<1>7. Limited'
  BY <1>1, <1>2 DEF Limited, OwnConnection, ScopeTypeOK
<1>8. Isolated'
  BY DEF Isolated, TenantsApart, ViewsChangeNothing
<1> QED
  BY <1>3, <1>4, <1>5, <1>6, <1>7, <1>8

\* A statement reaches what its connection is shown: in a transaction that is bound, the
\* rows of one organisation; outside one, nothing.
LEMMA ScopeInvStatement ==
  ASSUME ScopeInv, NEW t \in Tasks, Within(t) \/ Outside(t)
  PROVE  ScopeInv'
<1> USE DEF ScopeInv, Within, Outside, processVars, taskVars, connectionVars
<1>1. PICK o, c : /\ Statement(t, o, c)
                  /\ \/ stage[t] = "bound" /\ o = given[t] /\ c = on[t]
                     \/ up /\ o = context[t] /\ c \in Free
  OBVIOUS
<1>2. PICK kind \in {"scoped", "child", "raw"}, ids \in SUBSET Orgs, wrote \in BOOLEAN :
        /\ wrote => ~ readOnly[c]
        /\ touched' = {[for |-> o, of |-> p, view |-> view[t], wrote |-> wrote] :
                         p \in Scoped(t, kind, ids) \cap Shown(c)}
        /\ UNCHANGED <<processVars, taskVars, connectionVars>>
  BY <1>1 DEF Statement
<1>3. role = "app"
  BY <1>1 DEF RunsEnforced
<1>4. o \in Orgs \cup {Nothing} /\ Scoped(t, kind, ids) \subseteq Orgs
  BY <1>1, <1>2 DEF ScopeTypeOK, Scoped
<1>5. Shown(c) \subseteq {o} \ {Nothing} /\ (view[t] /\ Shown(c) # {} => readOnly[c])
  <2>1. CASE stage[t] = "bound" /\ o = given[t] /\ c = on[t]
    BY <1>3, <2>1 DEF Shown, Bound, Limited
  <2>2. CASE c \in Free
    BY <1>3, <2>2 DEF Shown, Bound
  <2> QED
    BY <1>1, <2>1, <2>2
<1>6. \A x \in touched' : \E p \in Orgs :
        /\ x = [for |-> o, of |-> p, view |-> view[t], wrote |-> wrote]
        /\ p = o
        /\ view[t] => ~ wrote
  BY <1>2, <1>4, <1>5
<1>7. ScopeTypeOK'
  BY <1>2, <1>4, <1>6 DEF ScopeTypeOK
<1>8. (RunsEnforced /\ OwnConnection /\ Bound /\ Limited)'
  BY <1>2 DEF RunsEnforced, OwnConnection, Bound, Limited, Free
<1>9. Isolated'
  BY <1>2, <1>6 DEF Isolated, TenantsApart, ViewsChangeNothing
<1> QED
  BY <1>7, <1>8, <1>9

\* Every step keeps the invariant.
LEMMA ScopeInvNext == ScopeInv /\ [ScopeNext]_scopeVars => ScopeInv'
<1> SUFFICES ASSUME ScopeInv, [ScopeNext]_scopeVars PROVE ScopeInv'
  OBVIOUS
<1>1. CASE Deploy
  BY <1>1, ScopeInvDeploy
<1>2. CASE Boot
  BY <1>2, ScopeInvBoot
<1>3. ASSUME NEW t \in Tasks, TaskStep(t) PROVE ScopeInv'
  <2>1. ASSUME NEW o \in Orgs, Enter(t, o) \/ Passed(t, o) PROVE ScopeInv'
    BY <2>1, ScopeInvContext, ScopeInvBegin DEF Passed
  <2>2. CASE OfContext(t)
    BY <2>2, ScopeInvBegin DEF OfContext, ScopeInv, ScopeTypeOK
  <2>3. CASE Limit(t) \/ Bind(t)
    BY <2>3, ScopeInvBind
  <2>4. CASE Within(t) \/ Outside(t)
    BY <2>4, ScopeInvStatement
  <2>5. CASE End(t)
    BY <2>5, ScopeInvEnd
  <2>6. CASE Exit(t)
    <3>1. context[t] \in Orgs
      BY <2>6 DEF Exit, ScopeInv, ScopeTypeOK
    <3> QED
      BY <2>6, <3>1, ScopeInvContext
  <2> QED
    BY <1>3, <2>1, <2>2, <2>3, <2>4, <2>5, <2>6 DEF TaskStep
<1>4. CASE UNCHANGED scopeVars
  BY <1>4 DEF ScopeInv, ScopeTypeOK, RunsEnforced, OwnConnection, Bound, Limited, Free, Isolated,
    TenantsApart, ViewsChangeNothing, scopeVars, processVars, taskVars, connectionVars
<1> QED
  BY <1>1, <1>2, <1>3, <1>4 DEF ScopeNext

\* The invariant is one of the specification.
LEMMA ScopeInvariant == ScopeSpec => []ScopeInv
<1> QED
  BY ScopeInvInit, ScopeInvNext, PTL DEF ScopeSpec

-----------------------------------------------------------------------------
\* The tenancy layer keeps its types (tenant-context.ts, tenant-scope.ts, client.ts).
THEOREM ScopeTypes == ScopeSpec => []ScopeTypeOK
<1> QED
  BY ScopeInvariant, PTL DEF ScopeInv

\* However tasks of one process interleave on its pool, a statement reaches rows of the
\* organisation it is for and of no other, and a view-only session writes none
\* (client.ts:78-107, tenant-context.ts:6-30).
THEOREM DataIsIsolated == ScopeSpec => []Isolated
<1> QED
  BY ScopeInvariant, PTL DEF ScopeInv

-----------------------------------------------------------------------------
(* CreativePipeline. Publishing: a creative that nothing raced on has a post, *)
(* or a request about to make one, never both nor two. Approval: a status    *)
(* APPROVED, and the view of a publish request that found it, is of an       *)
(* approved view. Batches: the counters of a batch are never behind the      *)
(* creatives that have landed, and ahead of them only after a second settling. *)

(* The inductive invariant.                                                *)

RowTypes ==
  /\ status \in [Creatives -> CreativeStatus]
  /\ deleted \subseteq Creatives
  /\ look \in [Creatives -> Look \cup {None}]
  /\ art \in [Creatives -> Look \cup {None}]
  /\ posted \subseteq Creatives

BatchTypes ==
  /\ batch \in [state : {"none", "RUNNING", "COMPLETED", "FAILED"}, completed : Nat, failed : Nat]
  /\ queued \in BOOLEAN
  /\ settled \in [Jobs -> Nat]

WorkTypes ==
  /\ request \in [Requests ->
                    [op : Op \cup {"enqueue"}, on : Creatives, view : View] \cup {None}]
  /\ about \in [Jobs -> Creatives \cup {None}]
  /\ pc \in [Jobs -> Step]
  /\ got \in [Jobs -> View \cup {None}]

HistoryTypes ==
  /\ posts \in [Creatives -> SUBSET Rendered]
  /\ count \in [Creatives -> Nat]
  /\ approved \in [Creatives -> SUBSET Rendered]
  /\ raced \subseteq Creatives
  /\ trouble \in 0..MaxTrouble

\* A handler runs exactly for an active job, and a job that was added is about a creative
\* of the batch.
JobsFit ==
  \A j \in Jobs :
    /\ pc[j] # "idle" <=> job[j] = "active"
    /\ job[j] = "none" <=> about[j] = None
    /\ about[j] # None => about[j] \in Members
    /\ about[j] = None => settled[j] = 0

\* A creative of the batch has a look, a handler that writes has seen one, and what is
\* about to be approved or published has artwork.
LooksFit ==
  /\ \A c \in Members : look[c] \in Look
  /\ \A j \in Jobs : pc[j] \in {"marking", "saving"} => got[j] \in View
  /\ \A r \in Requests :
       Doing(r, "approve") \/ Doing(r, "publish") => request[r].view \in Rendered

\* Requests are about creatives of the batch; before it is queued, there are neither
\* requests nor jobs.
StagesFit ==
  /\ \A r \in Requests : request[r] # None => request[r].on \in Members
  /\ ~ queued => /\ \A j \in Jobs : about[j] = None
                 /\ \A r \in Requests : request[r] = None
  /\ batch.state = "none" => ~ queued /\ Landed(batch) = 0
  /\ batch.state = "none" <=> Members = {}

CreativeInv ==
  /\ QueueInv /\ RowTypes /\ BatchTypes /\ WorkTypes /\ HistoryTypes
  /\ JobsFit /\ LooksFit /\ StagesFit

\* Unless two requests raced, a creative was posted once, or one request is about to.
PublishInv ==
  \A c \in Creatives :
    /\ count[c] > 0 => c \in posted
    /\ c \notin raced =>
         /\ count[c] <= 1
         /\ \A r \in Requests : Doing(r, "publish") /\ request[r].on = c => count[c] = 0
         /\ \A q, r \in Requests :
              /\ Doing(q, "publish") /\ request[q].on = c
              /\ Doing(r, "publish") /\ request[r].on = c
              => q = r

\* What has the status APPROVED, is about to be published or is posted was approved so.
ApprovalInv ==
  \A c \in Creatives : c \notin raced =>
    /\ status[c] = "APPROVED" => Seen(c) \in approved[c]
    /\ \A r \in Requests :
         Doing(r, "publish") /\ request[r].on = c => request[r].view \in approved[c]
    /\ posts[c] \subseteq approved[c]

\* The creatives that have landed, and whether some job settled that was not the first about
\* its creative, or settled twice.
LandedOnes == {c \in Creatives : \E j \in Jobs : about[j] = c /\ settled[j] > 0}
Resettled == \E j \in Jobs : settled[j] > (IF j \in Creating THEN 1 ELSE 0)

BatchInv ==
  /\ Landed(batch) >= Cardinality(LandedOnes)
  /\ ~ Resettled => Landed(batch) = Cardinality(LandedOnes)
  /\ batch.state \in {"COMPLETED", "FAILED"} <=> batch.state # "none" /\ Landed(batch) >= Total

-----------------------------------------------------------------------------
(* The invariant is kept.                                                  *)

\* A write of a status other than "absent" to a member leaves the members as they are.
LEMMA MembersStay ==
  ASSUME RowTypes, NEW c \in Members, NEW s \in CreativeStatus \ {"absent"}, SetStatus(c, s)
  PROVE  /\ Members' = Members
         /\ status' \in [Creatives -> CreativeStatus]
         /\ \A d \in Creatives \ {c} : status'[d] = status[d]
         /\ status'[c] = s
BY DEF RowTypes, Members, SetStatus

\* Trouble is counted within its bound.
LEMMA TroubleCounts ==
  ASSUME Spend, trouble \in 0..MaxTrouble
  PROVE  trouble' \in 0..MaxTrouble
BY CreativeAssumption DEF Spend, CreativeAssumption

\* What a worker's step does to the state of its job.
LEMMA ConsumeMoves ==
  ASSUME QueueInv, NEW j \in Jobs, Consume(j)
  PROVE  /\ \A i \in Jobs \ {j} : job'[i] = job[i]
         /\ job[j] # "none" /\ job'[j] # "none"
         /\ job'[j] = "active" <=> Take(j)
BY DEF QueueInv, QueueTypeOK, Consume, Take, Succeed, Fail, WorkerDies, Reclaim

\* Nothing has been asked for yet.
LEMMA CreativeInvInit == CreativeInit => CreativeInv
<1> SUFFICES ASSUME CreativeInit PROVE CreativeInv
  OBVIOUS
<1>1. QueueInv
  BY QueueInvInit DEF CreativeInit
<1>2. RowTypes /\ BatchTypes
  BY DEF CreativeInit, RowTypes, BatchTypes, CreativeStatus, Open
<1>3. WorkTypes
  <2>1. "idle" \in Step
    BY DEF Step
  <2> QED BY <2>1 DEF CreativeInit, WorkTypes
<1>4. HistoryTypes
  BY CreativeAssumption DEF CreativeInit, HistoryTypes, CreativeAssumption
<1>5. JobsFit /\ LooksFit /\ StagesFit
  BY CreativeAssumption
  DEF CreativeInit, QueueInit, JobsFit, LooksFit, StagesFit, Members, Landed, Open, Doing,
      CreativeAssumption
<1> QED BY <1>1, <1>2, <1>3, <1>4, <1>5 DEF CreativeInv

\* The creation of a batch: new rows, and nothing about them yet.
LEMMA CreateBatchKeeps ==
  ASSUME CreativeInv, CreateBatch
  PROVE  CreativeInv'
<1>1. PICK S \in (SUBSET Creatives) \ {{}} :
        /\ status' = [c \in Creatives |-> IF c \in S THEN "DRAFT" ELSE "absent"]
        /\ \A c \in S : look'[c] \in Look
        /\ look' \in [Creatives -> Look \cup {None}]
  BY DEF CreateBatch, Look
<1>2. /\ UNCHANGED <<queueVars, deleted, art, posted, queued, request, handlerVars, historyVars,
                     settled, trouble>>
      /\ batch.state = "none" /\ batch' = Open
  BY DEF CreateBatch
<1>3. Members = {} /\ Members' = S /\ ~ queued
  BY <1>1, <1>2 DEF CreativeInv, StagesFit, Members
<1>4. QueueInv'
  BY <1>2 DEF CreativeInv, QueueInv, QueueTypeOK, OpenJobs, StartsBounded, DeadLettersAreFinal,
              queueVars
<1>5. RowTypes' /\ BatchTypes' /\ WorkTypes' /\ HistoryTypes'
  BY <1>1, <1>2
  DEF CreativeInv, RowTypes, BatchTypes, WorkTypes, HistoryTypes, CreativeStatus, Open,
      handlerVars, historyVars
<1>7. /\ \A j \in Jobs : about[j] = None
      /\ \A r \in Requests : request[r] = None
  BY <1>3 DEF CreativeInv, StagesFit
<1>8. JobsFit'
  BY <1>2, <1>7 DEF CreativeInv, JobsFit, handlerVars, queueVars
<1>9. LooksFit'
  BY <1>1, <1>2, <1>3, <1>7 DEF CreativeInv, LooksFit, Doing, handlerVars
<1>10. StagesFit'
  BY <1>1, <1>2, <1>3, <1>7 DEF CreativeInv, StagesFit, handlerVars, Open
<1> QED BY <1>4, <1>5, <1>8, <1>9, <1>10 DEF CreativeInv

\* A step that leaves the queue alone keeps its invariant.
LEMMA QueueRests ==
  ASSUME QueueInv, UNCHANGED queueVars
  PROVE  QueueInv'
BY DEF QueueInv, QueueTypeOK, OpenJobs, StartsBounded, DeadLettersAreFinal, queueVars

\* The jobs of a batch are the first of the queue, one for each member, or none.
LEMMA QueueBatchKeeps ==
  ASSUME CreativeInv, QueueBatch
  PROVE  CreativeInv'
<1>1. /\ UNCHANGED <<made, stalls, starts, dlq, logged, rowVars, batch, request, pc, got,
                     historyVars, settled>>
      /\ queued' = TRUE /\ ~ queued /\ batch.state = "RUNNING"
  BY DEF QueueBatch
<1>2. \A j \in Jobs : about[j] = None /\ job[j] = "none" /\ pc[j] = "idle"
  BY <1>1 DEF CreativeInv, JobsFit, StagesFit
<1>3. trouble' \in 0..MaxTrouble
  BY TroubleCounts DEF QueueBatch, Fault, CreativeInv, HistoryTypes
<1>4. /\ about' \in [Jobs -> Members \cup {None}]
      /\ job' \in [Jobs -> {"none", "waiting"}]
      /\ \A j \in Jobs : job'[j] = "none" <=> about'[j] = None
  <2>1. CASE UNCHANGED <<job, about>>
    BY <1>2, <2>1 DEF CreativeInv, WorkTypes, QueueInv, QueueTypeOK
  <2>2. CASE /\ \E order \in Bijection(1..Cardinality(Members), Members) :
                  about' = [j \in Jobs |-> IF j \in DOMAIN order THEN order[j] ELSE None]
             /\ job' = [j \in Jobs |-> IF about'[j] = None THEN "none" ELSE "waiting"]
    <3>1. PICK order \in [1..Cardinality(Members) -> Members] :
            about' = [j \in Jobs |-> IF j \in DOMAIN order THEN order[j] ELSE None]
      BY <2>2 DEF Bijection, Injection
    <3> QED BY <2>2, <3>1
  <2> QED BY <2>1, <2>2 DEF QueueBatch
<1>5. QueueInv'
  BY <1>1, <1>2, <1>4, JobQueueAssumption
  DEF CreativeInv, QueueInv, QueueTypeOK, OpenJobs, StartsBounded, DeadLettersAreFinal,
      JobState, JobAttempts, Unfinished, JobQueueAssumption
<1>6. Members' = Members /\ Members \subseteq Creatives
  BY <1>1 DEF Members, rowVars
<1>7. RowTypes' /\ BatchTypes' /\ WorkTypes' /\ HistoryTypes'
  BY <1>1, <1>3, <1>4, <1>6
  DEF CreativeInv, RowTypes, BatchTypes, WorkTypes, HistoryTypes, rowVars, historyVars
<1>8. JobsFit'
  BY <1>1, <1>2, <1>4, <1>6 DEF CreativeInv, JobsFit
<1>9. LooksFit'
  BY <1>1, <1>6 DEF CreativeInv, LooksFit, Doing, rowVars
<1>10. StagesFit'
  BY <1>1, <1>6 DEF CreativeInv, StagesFit
<1> QED BY <1>5, <1>7, <1>8, <1>9, <1>10 DEF CreativeInv

\* A request that reads a row is about a member.
LEMMA FindKeeps ==
  ASSUME CreativeInv, NEW r \in Requests, NEW op \in Op, NEW c \in Reviewed, Find(r, op, c)
  PROVE  CreativeInv'
<1>1. /\ UNCHANGED <<queueVars, rowVars, batchVars, handlerVars, posts, count, approved, settled>>
      /\ queued /\ c \in Members
  BY DEF Find, Visible
<1>2. /\ request' = [request EXCEPT
           ![r] = [op |-> op, on |-> c, view |-> Seen(c)]]
      /\ raced' \in {raced, raced \cup {c}}
      /\ trouble' \in 0..MaxTrouble
  BY TroubleCounts DEF Find, CreativeInv, HistoryTypes
<1>3. /\ c \in Creatives /\ Seen(c) \in View
      /\ op \in {"approve", "publish"} => Seen(c) \in Rendered
  <2>1. c \in Creatives /\ look[c] \in Look /\ art[c] \in Look \cup {None}
    BY <1>1, CreativeAssumption DEF CreativeInv, RowTypes, LooksFit, CreativeAssumption
  <2>2. op \in {"approve", "publish"} => art[c] # None
    BY DEF Find, Allowed, CanApprove, CanPublish
  <2> QED BY <2>1, <2>2 DEF Seen, View, Rendered
<1>4. QueueInv' /\ Members' = Members
  BY <1>1, QueueRests DEF CreativeInv, Members, rowVars
<1>5. RowTypes' /\ BatchTypes'
  BY <1>1 DEF CreativeInv, RowTypes, BatchTypes, rowVars, batchVars
<1>6. WorkTypes'
  BY <1>1, <1>2, <1>3 DEF CreativeInv, WorkTypes, handlerVars
<1>7. HistoryTypes'
  BY <1>1, <1>2, <1>3 DEF CreativeInv, HistoryTypes
<1>8. JobsFit' /\ LooksFit'
  <2>1. \A q \in Requests :
          (q # r => request'[q] = request[q]) /\ request'[r].op = op /\ request'[r].view = Seen(c)
    BY <1>2 DEF CreativeInv, WorkTypes
  <2> QED
    BY <1>1, <1>3, <1>4, <2>1
    DEF CreativeInv, JobsFit, LooksFit, Doing, queueVars, rowVars, handlerVars
<1>9. StagesFit'
  BY <1>1, <1>2, <1>4 DEF CreativeInv, StagesFit, WorkTypes, batchVars
<1> QED BY <1>4, <1>5, <1>6, <1>7, <1>8, <1>9 DEF CreativeInv

\* What a reviewer's request may write of the row c.
Reviews(c) ==
  /\ status' = status \/ \E s \in CreativeStatus \ {"absent"} : SetStatus(c, s)
  /\ deleted' \in {deleted, deleted \cup {c}} /\ posted' \in {posted, posted \cup {c}}
  /\ posts' = posts \/ \E v \in Rendered : posts' = [posts EXCEPT ![c] = @ \cup {v}]
  /\ count' = count \/ count' = [count EXCEPT ![c] = @ + 1]
  /\ approved' = approved \/ \E v \in Rendered : approved' = [approved EXCEPT ![c] = @ \cup {v}]
  /\ raced' \in {raced, raced \cup {c}}

\* A reviewer's write, or the removal or publication of a creative.
LEMMA ReviewWriteKeeps ==
  ASSUME CreativeInv,
         \/ \E r \in Requests : Approve(r) \/ Reject(r) \/ Remove(r) \/ Publish(r)
         \/ \E c \in Reviewed : BulkApprove(c) \/ BulkReject(c)
  PROVE  CreativeInv'
<1>1. UNCHANGED <<queueVars, look, art, batchVars, handlerVars, settled, trouble>>
  BY DEF Approve, Reject, Remove, Publish, BulkApprove, BulkReject, historyVars
<1>2. request' = request \/ \E r \in Requests : Answer(r)
  BY DEF Approve, Reject, Remove, Publish, BulkApprove, BulkReject
<1>3. PICK c \in Members : Reviews(c)
  <2>0. {"APPROVED", "REJECTED", "SCHEDULED"} \subseteq CreativeStatus \ {"absent"}
    BY DEF CreativeStatus
  <2>1. ASSUME NEW r \in Requests, Approve(r) \/ Reject(r) \/ Remove(r) \/ Publish(r)
        PROVE  request[r].on \in Members /\ Reviews(request[r].on)
    <3>1. /\ request[r].on \in Members
          /\ Approve(r) \/ Publish(r) => request[r].view \in Rendered
      BY <2>1 DEF Approve, Reject, Remove, Publish, Doing, CreativeInv, StagesFit, LooksFit
    <3>2. CASE Approve(r)
      BY <2>0, <3>1, <3>2 DEF Approve, Reviews
    <3>3. CASE Reject(r)
      BY <2>0, <3>1, <3>3 DEF Reject, Reviews, historyVars
    <3>4. CASE Remove(r)
      BY <3>1, <3>4 DEF Remove, Reviews, historyVars
    <3>5. CASE Publish(r)
      BY <2>0, <3>1, <3>5 DEF Publish, Reviews
    <3> QED BY <2>1, <3>2, <3>3, <3>4, <3>5, <3>1
  <2>2. ASSUME NEW c \in Reviewed, BulkApprove(c) \/ BulkReject(c)
        PROVE  c \in Members /\ Reviews(c)
    <3>1. c \in Members /\ (BulkApprove(c) => Seen(c) \in Rendered)
      <4>1. c \in Members /\ c \in Creatives
        BY <2>2 DEF BulkApprove, BulkReject, Visible, Members
      <4>2. look[c] \in Look /\ art[c] \in Look \cup {None}
        BY <4>1 DEF CreativeInv, RowTypes, LooksFit
      <4> QED BY <4>1, <4>2 DEF BulkApprove, CanApprove, Seen, Rendered
    <3> QED BY <2>0, <2>2, <3>1 DEF BulkApprove, BulkReject, Reviews, historyVars
  <2> QED BY <2>1, <2>2
<1>4. c \in Creatives
  BY DEF Members
<1>5. QueueInv'
  BY <1>1, QueueRests DEF CreativeInv
<1>6. Members' = Members /\ status' \in [Creatives -> CreativeStatus]
  BY <1>3, MembersStay DEF CreativeInv, RowTypes, Members, Reviews
<1>7. RowTypes' /\ BatchTypes'
  BY <1>1, <1>3, <1>4, <1>6 DEF CreativeInv, RowTypes, BatchTypes, batchVars, Reviews
<1>8. WorkTypes'
  BY <1>1, <1>2 DEF CreativeInv, WorkTypes, handlerVars, Answer
<1>9. HistoryTypes'
  BY <1>1, <1>3, <1>4 DEF CreativeInv, HistoryTypes, Reviews
<1>10. \A r \in Requests : request'[r] = request[r] \/ request'[r] = None
  BY <1>2 DEF Answer, CreativeInv, WorkTypes
<1>11. JobsFit' /\ LooksFit' /\ StagesFit'
  BY <1>1, <1>6, <1>10
  DEF CreativeInv, JobsFit, LooksFit, StagesFit, Doing, queueVars, batchVars, handlerVars
<1> QED BY <1>5, <1>7, <1>8, <1>9, <1>10, <1>11 DEF CreativeInv

\* An edit makes a new look of a member; its render is not yet queued.
LEMMA RewriteKeeps ==
  ASSUME CreativeInv, NEW r \in Requests, Rewrite(r)
  PROVE  CreativeInv'
<1> DEFINE c == request[r].on
<1>1. /\ UNCHANGED <<queueVars, deleted, art, posted, batchVars, handlerVars, historyVars, settled,
                     trouble>>
      /\ SetStatus(c, "DRAFT") /\ request' = [request EXCEPT ![r].op = "enqueue"]
      /\ request[r] # None
  BY DEF Rewrite, StatusEdited, Doing
<1>2. /\ c \in Members /\ c \in Creatives
      /\ look[c] \in Look /\ request[r].view \in View
  BY <1>1 DEF CreativeInv, StagesFit, LooksFit, WorkTypes
<1>3. \E new \in Look : look' = [look EXCEPT ![c] = new]
  BY DEF Rewrite, NewLooks
<1>4. QueueInv'
  BY <1>1, QueueRests DEF CreativeInv
<1>5. Members' = Members /\ status' \in [Creatives -> CreativeStatus]
  BY <1>1, <1>2, MembersStay DEF CreativeInv, CreativeStatus
<1>6. RowTypes' /\ BatchTypes'
  BY <1>1, <1>2, <1>3, <1>5 DEF CreativeInv, RowTypes, BatchTypes, batchVars
<1>7. WorkTypes'
  BY <1>1 DEF CreativeInv, WorkTypes, handlerVars
<1>8. HistoryTypes'
  BY <1>1 DEF CreativeInv, HistoryTypes, historyVars
<1>9. JobsFit'
  BY <1>1, <1>5 DEF CreativeInv, JobsFit, queueVars, handlerVars
<1>10. LooksFit'
  <2>1. \A d \in Members : look'[d] \in Look
    BY <1>2, <1>3 DEF CreativeInv, RowTypes, LooksFit, Members
  <2>2. \A q \in Requests : Doing(q, "approve")' \/ Doing(q, "publish")' =>
          request'[q] = request[q]
    BY <1>1 DEF Doing, CreativeInv, WorkTypes
  <2> QED BY <1>1, <1>5, <2>1, <2>2 DEF CreativeInv, LooksFit, Doing, handlerVars
<1>11. StagesFit'
  <2>1. \A q \in Requests :
          /\ request'[q] # None => request[q] # None /\ request'[q].on = request[q].on
    BY <1>1 DEF CreativeInv, WorkTypes
  <2> QED BY <1>1, <1>5, <2>1 DEF CreativeInv, StagesFit, batchVars, handlerVars
<1> QED BY <1>4, <1>6, <1>7, <1>8, <1>9, <1>10, <1>11 DEF CreativeInv

\* A render is queued as a job that was none before.
LEMMA EnqueueKeeps ==
  ASSUME CreativeInv, NEW r \in Requests, Enqueue(r)
  PROVE  CreativeInv'
<1>1. /\ UNCHANGED <<made, stalls, starts, dlq, logged, rowVars, batchVars, pc, got, historyVars,
                     settled>>
      /\ Answer(r) /\ request[r] # None
  BY DEF Enqueue, Doing
<1>2. request[r].on \in Members /\ queued
  BY <1>1 DEF CreativeInv, StagesFit
<1>3. trouble' \in 0..MaxTrouble
  BY TroubleCounts DEF Enqueue, Fault, CreativeInv, HistoryTypes
<1>4. CASE UNCHANGED <<job, about>>
  <2>1. QueueInv' /\ Members' = Members
    BY <1>1, <1>4, QueueRests DEF CreativeInv, queueVars, Members, rowVars
  <2>2. RowTypes' /\ BatchTypes' /\ HistoryTypes'
    BY <1>1, <1>3
    DEF CreativeInv, RowTypes, BatchTypes, HistoryTypes, rowVars, batchVars, historyVars
  <2>3. WorkTypes'
    BY <1>1, <1>4 DEF CreativeInv, WorkTypes, Answer
  <2>4. \A q \in Requests : request'[q] = request[q] \/ request'[q] = None
    BY <1>1 DEF Answer, CreativeInv, WorkTypes
  <2>5. JobsFit' /\ LooksFit'
    BY <1>1, <1>4, <2>1, <2>4 DEF CreativeInv, JobsFit, LooksFit, Doing, rowVars
  <2>6. StagesFit'
    BY <1>1, <1>2, <1>4, <2>1, <2>4 DEF CreativeInv, StagesFit, batchVars
  <2> QED BY <2>1, <2>2, <2>3, <2>5, <2>6 DEF CreativeInv
<1>5. ASSUME NEW j \in Fresh, Add(j), about' = [about EXCEPT ![j] = request[r].on]
      PROVE  CreativeInv'
  <2>1. j \in Jobs /\ about[j] = None /\ job[j] = "none" /\ pc[j] = "idle"
    BY DEF Fresh, CreativeInv, JobsFit
  <2>2. Produce(j)
    BY <1>1, <1>5 DEF Produce
  <2>3. QueueInv' /\ Members' = Members
    BY <1>1, <2>1, <2>2, QueueInvProduce DEF CreativeInv, Members, rowVars
  <2>4. job' = [job EXCEPT ![j] = "waiting"] /\ job \in [Jobs -> JobState]
    BY <1>5, <2>1 DEF Add, CreativeInv, QueueInv, QueueTypeOK
  <2>5. request[r].on \in Creatives /\ request[r].on # None
    BY <1>2, CreativeAssumption DEF Members, CreativeAssumption
  <2>6. RowTypes' /\ BatchTypes' /\ HistoryTypes'
    BY <1>1, <1>3
    DEF CreativeInv, RowTypes, BatchTypes, HistoryTypes, rowVars, batchVars, historyVars
  <2>7. WorkTypes'
    BY <1>1, <1>5, <2>1, <2>5 DEF CreativeInv, WorkTypes, Answer
  <2>8. \A i \in Jobs \ {j} : job'[i] = job[i] /\ about'[i] = about[i]
    BY <1>5, <2>4 DEF CreativeInv, WorkTypes
  <2>9. job'[j] = "waiting" /\ about'[j] = request[r].on
    BY <1>5, <2>1, <2>4 DEF CreativeInv, WorkTypes
  <2>10. JobsFit'
    BY <1>1, <1>2, <2>1, <2>3, <2>5, <2>8, <2>9 DEF CreativeInv, JobsFit
  <2>12. \A q \in Requests : request'[q] = request[q] \/ request'[q] = None
    BY <1>1 DEF Answer, CreativeInv, WorkTypes
  <2>11. LooksFit'
    BY <1>1, <2>3, <2>12 DEF CreativeInv, LooksFit, Doing, rowVars
  <2>13. StagesFit'
    BY <1>1, <1>2, <2>3, <2>12 DEF CreativeInv, StagesFit, batchVars
  <2> QED BY <2>3, <2>6, <2>7, <2>10, <2>11, <2>13 DEF CreativeInv
<1> QED BY <1>4, <1>5 DEF Enqueue

\* A worker takes, finishes or loses a job, or the queue takes it back: rows and batch rest.
LEMMA QueueStepKeeps ==
  ASSUME CreativeInv, NEW j \in Jobs, Start(j) \/ Finish(j) \/ Crash(j) \/ Resume(j)
  PROVE  CreativeInv'
<1>1. Consume(j) /\ UNCHANGED <<rowVars, batchVars, request, about, historyVars, settled>>
  BY DEF Start, Finish, Crash, Resume, Consume, handlerVars
<1>2. trouble' \in 0..MaxTrouble
  BY TroubleCounts
  DEF Start, Finish, Crash, Resume, Fault, CreativeInv, HistoryTypes
<1>3. QueueInv' /\ Members' = Members
  BY <1>1, QueueInvConsume DEF CreativeInv, Members, rowVars
<1>4. /\ \A i \in Jobs \ {j} : job'[i] = job[i]
      /\ job[j] # "none" /\ job'[j] # "none"
      /\ job'[j] = "active" <=> Take(j)
  BY <1>1, ConsumeMoves DEF CreativeInv
<1>5. /\ \A i \in Jobs \ {j} : pc'[i] = pc[i] /\ got'[i] = got[i]
      /\ pc'[j] # "idle" <=> Take(j)
      /\ pc'[j] \notin {"marking", "saving"}
      /\ pc' \in [Jobs -> Step] /\ got' \in [Jobs -> View \cup {None}]
  <2>1. {"idle", "loading"} \subseteq Step
    BY DEF Step
  <2>2. CASE Start(j)
    BY <2>1, <2>2 DEF Start, Goto, CreativeInv, WorkTypes
  <2>3. CASE Finish(j) \/ Crash(j)
    <3>1. ~ Take(j)
      BY <2>3 DEF Finish, Crash, Succeed, Fail, WorkerDies, Take
    <3> QED BY <2>1, <2>3, <3>1 DEF Finish, Crash, Goto, CreativeInv, WorkTypes
  <2>4. CASE Resume(j)
    <3>1. ~ Take(j) /\ pc[j] = "idle"
      BY <2>4 DEF Resume, Reclaim, Take, CreativeInv, JobsFit
    <3> QED BY <2>4, <3>1 DEF Resume, handlerVars, CreativeInv, WorkTypes
  <2> QED BY <2>2, <2>3, <2>4
<1>6. RowTypes' /\ BatchTypes' /\ HistoryTypes'
  BY <1>1, <1>2
  DEF CreativeInv, RowTypes, BatchTypes, HistoryTypes, rowVars, batchVars, historyVars
<1>7. WorkTypes'
  BY <1>1, <1>5 DEF CreativeInv, WorkTypes
<1>8. JobsFit'
  BY <1>1, <1>3, <1>4, <1>5 DEF CreativeInv, JobsFit
<1>9. LooksFit'
  BY <1>1, <1>3, <1>5 DEF CreativeInv, LooksFit, Doing, rowVars
<1>10. StagesFit'
  BY <1>1, <1>3 DEF CreativeInv, StagesFit, batchVars
<1> QED BY <1>3, <1>6, <1>7, <1>8, <1>9, <1>10 DEF CreativeInv

\* A step inside the handler.
LEMMA RenderKeeps ==
  ASSUME CreativeInv, NEW j \in Jobs, Load(j) \/ Mark(j) \/ Save(j) \/ MarkFailed(j) \/ Settle(j)
  PROVE  CreativeInv'
<1>1. /\ UNCHANGED <<queueVars, deleted, look, posted, queued, request, about, historyVars>>
      /\ pc[j] # "idle"
  BY DEF Load, Mark, Save, MarkFailed, Settle, rowVars, batchVars, historyVars
<1>2. /\ about[j] \in Members /\ about[j] \in Creatives /\ about[j] # None
      /\ Seen(about[j]) \in View
  <2>1. about[j] \in Members /\ about[j] \in Creatives /\ about[j] # None
    BY <1>1, CreativeAssumption
    DEF CreativeInv, JobsFit, WorkTypes, Members, CreativeAssumption
  <2>2. look[about[j]] \in Look /\ art[about[j]] \in Look \cup {None}
    BY <2>1 DEF CreativeInv, LooksFit, RowTypes
  <2> QED BY <2>1, <2>2 DEF Seen, View
<1>3. trouble' \in 0..MaxTrouble
  BY TroubleCounts
  DEF Load, Mark, Save, MarkFailed, Settle, Fault, CreativeInv, HistoryTypes
<1>4. \E step \in Step \ {"idle"} : Goto(j, step)
  BY DEF Load, Mark, Save, MarkFailed, Settle, Step
<1>5. status' = status \/ \E s \in CreativeStatus \ {"absent"} : SetStatus(about[j], s)
  BY DEF Load, Mark, Save, MarkFailed, Settle, CreativeStatus, rowVars
<1>6. art' = art \/ \E new \in Look : art' = [art EXCEPT ![about[j]] = new]
  <2>1. Save(j) => got[j].look \in Look
    BY DEF Save, CreativeInv, LooksFit, View
  <2> QED BY <2>1 DEF Load, Mark, Save, MarkFailed, Settle, rowVars
<1>7. /\ got' = got \/ got' = [got EXCEPT ![j] = Seen(about[j])]
      /\ pc'[j] \in {"marking", "saving"} => got'[j] \in View
  <2>1. pc \in [Jobs -> Step] /\ got \in [Jobs -> View \cup {None}]
    BY DEF CreativeInv, WorkTypes
  <2>2. CASE Load(j)
    BY <1>2, <2>1, <2>2 DEF Load, Goto
  <2>3. CASE Mark(j)
    BY <2>1, <2>3 DEF Mark, Goto, CreativeInv, LooksFit
  <2>4. CASE Save(j) \/ MarkFailed(j) \/ Settle(j)
    BY <2>1, <2>4 DEF Save, MarkFailed, Settle, Goto
  <2> QED BY <2>2, <2>3, <2>4
<1>8. /\ batch' = batch /\ settled' = settled
      \/ /\ settled' = [settled EXCEPT ![j] = @ + 1]
         /\ \E outcome \in {"completed", "failed"} : batch' = Advance(batch, outcome)
  BY DEF Load, Mark, Save, MarkFailed, Settle, batchVars
<1>9. QueueInv'
  BY <1>1, QueueRests DEF CreativeInv
<1>10. Members' = Members /\ status' \in [Creatives -> CreativeStatus]
  <2>1. CASE status' = status
    BY <2>1 DEF Members, CreativeInv, RowTypes
  <2> QED BY <1>2, <1>5, <2>1, MembersStay DEF CreativeInv
<1>12. RowTypes'
  BY <1>1, <1>2, <1>6, <1>10 DEF CreativeInv, RowTypes
<1>13. WorkTypes'
  BY <1>1, <1>2, <1>4, <1>7 DEF CreativeInv, WorkTypes, Goto
<1>14. HistoryTypes'
  BY <1>1, <1>3 DEF CreativeInv, HistoryTypes, historyVars
<1>15. /\ BatchTypes'
       /\ batch'.state = "none" <=> batch.state = "none"
       /\ batch.state = "none" => batch' = batch
  <2>1. CASE batch' = batch /\ settled' = settled
    BY <1>1, <2>1 DEF CreativeInv, BatchTypes
  <2>2. ASSUME NEW outcome \in {"completed", "failed"}, batch' = Advance(batch, outcome),
               settled' = [settled EXCEPT ![j] = @ + 1]
        PROVE  BatchTypes' /\ batch'.state # "none" /\ batch.state # "none"
    <3>1. batch.state # "none"
      BY <1>2 DEF CreativeInv, StagesFit
    <3>2. /\ batch' \in [state : {"none", "RUNNING", "COMPLETED", "FAILED"},
                         completed : Nat, failed : Nat]
          /\ batch'.state # "none"
      BY <2>2, <3>1 DEF CreativeInv, BatchTypes, Advance
    <3> QED BY <1>1, <2>2, <3>1, <3>2 DEF CreativeInv, BatchTypes
  <2> QED BY <1>8, <2>1, <2>2
<1>16. JobsFit'
  BY <1>1, <1>2, <1>4, <1>7, <1>8, <1>10
  DEF CreativeInv, JobsFit, WorkTypes, BatchTypes, queueVars, Goto
<1>17. LooksFit'
  <2>1. \A i \in Jobs \ {j} : pc'[i] = pc[i] /\ got'[i] = got[i]
    BY <1>4, <1>7 DEF Goto, CreativeInv, WorkTypes
  <2> QED BY <1>1, <1>7, <1>10, <2>1 DEF CreativeInv, LooksFit, Doing
<1>18. StagesFit'
  BY <1>1, <1>2, <1>10, <1>15 DEF CreativeInv, StagesFit
<1> QED BY <1>9, <1>12, <1>13, <1>14, <1>15, <1>16, <1>17, <1>18 DEF CreativeInv

\* Every step keeps the invariant.
LEMMA CreativeInvStep == CreativeInv /\ [CreativeNext]_creativeVars => CreativeInv'
<1> SUFFICES ASSUME CreativeInv, [CreativeNext]_creativeVars PROVE CreativeInv'
  OBVIOUS
<1>1. CASE UNCHANGED creativeVars
  <2>1. UNCHANGED <<status, deleted, look, art, posted, batch, queued, request, about, pc, got,
                    posts, count, approved, raced, settled, trouble, job>>
    BY <1>1 DEF creativeVars, rowVars, batchVars, handlerVars, historyVars, queueVars
  <2>2. QueueInv' /\ Members' = Members
    BY <1>1, <2>1, QueueRests DEF CreativeInv, creativeVars, Members
  <2>3. RowTypes' /\ BatchTypes' /\ WorkTypes' /\ HistoryTypes'
    BY <2>1 DEF CreativeInv, RowTypes, BatchTypes, WorkTypes, HistoryTypes
  <2>4. JobsFit' /\ LooksFit' /\ StagesFit'
    BY <2>1, <2>2 DEF CreativeInv, JobsFit, LooksFit, StagesFit, Doing
  <2> QED BY <2>2, <2>3, <2>4 DEF CreativeInv
<1>2. CASE CreateBatch \/ QueueBatch
  BY <1>2, CreateBatchKeeps, QueueBatchKeeps
<1>3. ASSUME NEW r \in Requests, Review(r) PROVE CreativeInv'
  BY <1>3, FindKeeps, ReviewWriteKeeps, RewriteKeeps, EnqueueKeeps DEF Review
<1>4. ASSUME NEW c \in Reviewed, BulkApprove(c) \/ BulkReject(c) PROVE CreativeInv'
  BY <1>4, ReviewWriteKeeps
<1>5. ASSUME NEW j \in Jobs, Handle(j) \/ Crash(j) PROVE CreativeInv'
  BY <1>5, QueueStepKeeps, RenderKeeps DEF Handle
<1> QED BY <1>1, <1>2, <1>3, <1>4, <1>5 DEF CreativeNext

\* The invariant holds for ever.
LEMMA CreativeInvAlways == CreativeSpec => []CreativeInv
BY CreativeInvInit, CreativeInvStep, PTL DEF CreativeSpec

\* Every value keeps its type: approvals are given to posters with artwork and posts are made
\* of those only, and a handler runs for an active job only.
THEOREM CreativeTypeCorrect == CreativeSpec => []CreativeTypeOK
<1>1. CreativeInv => CreativeTypeOK
  BY DEF CreativeInv, CreativeTypeOK, QueueInv, RowTypes, BatchTypes, WorkTypes, HistoryTypes,
         JobsFit, LooksFit
<1> QED BY <1>1, CreativeInvAlways, PTL

-----------------------------------------------------------------------------
(* Publishing and approval.                                                *)

\* What a step does that is about no request to publish.
LEMMA PublishRests ==
  ASSUME CreativeInv, PublishInv, UNCHANGED <<posted, count, raced>>,
         \A r \in Requests : Doing(r, "publish")' => request'[r] = request[r]
  PROVE  PublishInv'
BY DEF PublishInv, Doing

\* Every step keeps what is known of posts and of the requests to make one.
LEMMA PublishInvStep ==
  CreativeInv /\ PublishInv /\ [CreativeNext]_creativeVars => PublishInv'
<1> SUFFICES ASSUME CreativeInv, PublishInv, [CreativeNext]_creativeVars PROVE PublishInv'
  OBVIOUS
<1>t. /\ count \in [Creatives -> Nat] /\ posted \subseteq Creatives
      /\ request \in [Requests ->
                        [op : Op \cup {"enqueue"}, on : Creatives, view : View] \cup {None}]
  BY DEF CreativeInv, HistoryTypes, RowTypes, WorkTypes
<1>1. CASE UNCHANGED creativeVars
  BY <1>1, PublishRests DEF creativeVars, rowVars, historyVars
<1>2. CASE CreateBatch \/ QueueBatch
  BY <1>2, PublishRests DEF CreateBatch, QueueBatch, rowVars, historyVars
<1>3. ASSUME NEW r \in Requests, NEW op \in Op, NEW c \in Reviewed, Find(r, op, c)
      PROVE  PublishInv'
  <2>1. /\ UNCHANGED <<posted, count>> /\ c \in Creatives
        /\ request'[r].op = op /\ request'[r].on = c
        /\ \A q \in Requests \ {r} : request'[q] = request[q]
    BY <1>t, <1>3, CreativeAssumption DEF Find, rowVars, Visible, Members, CreativeAssumption
  <2>2. /\ raced \subseteq raced' /\ (op # "publish" => raced' = raced)
        /\ op = "publish" =>
             /\ c \notin posted
             /\ c \notin raced' => \A q \in Requests : ~ (Doing(q, "publish") /\ request[q].on = c)
    BY <1>3 DEF Find, Allowed, CanPublish, Doing
  <2> QED BY <1>t, <2>1, <2>2 DEF PublishInv, Doing
<1>4. ASSUME NEW r \in Requests, Approve(r) PROVE PublishInv'
  <2>1. UNCHANGED <<posted, count>> /\ raced \subseteq raced'
    BY <1>4 DEF Approve
  <2>2. \A q \in Requests : Doing(q, "publish")' => request'[q] = request[q]
    BY <1>t, <1>4 DEF Approve, Answer, Doing
  <2> QED BY <2>1, <2>2 DEF PublishInv, Doing
<1>5. ASSUME NEW r \in Requests, Reject(r) \/ Remove(r) \/ Rewrite(r) \/ Enqueue(r)
      PROVE  PublishInv'
  <2>1. UNCHANGED <<posted, count, raced>>
    BY <1>5 DEF Reject, Remove, Rewrite, Enqueue, rowVars, historyVars
  <2>2. \A q \in Requests : Doing(q, "publish")' => request'[q] = request[q]
    BY <1>t, <1>5 DEF Reject, Remove, Rewrite, Enqueue, Answer, Doing
  <2> QED BY <2>1, <2>2, PublishRests
<1>6. ASSUME NEW r \in Requests, Publish(r) PROVE PublishInv'
  <2>1. /\ posted' = posted \cup {request[r].on} /\ raced' = raced
        /\ count' = [count EXCEPT ![request[r].on] = @ + 1]
        /\ Doing(r, "publish") /\ request[r].on \in Creatives
    BY <1>t, <1>6 DEF Publish, Doing
  <2>2. /\ \A q \in Requests \ {r} : request'[q] = request[q]
        /\ request'[r] = None
    BY <1>t, <1>6 DEF Publish, Answer
  <2> QED BY <1>t, <2>1, <2>2 DEF PublishInv, Doing
<1>7. ASSUME NEW c \in Reviewed, BulkApprove(c) \/ BulkReject(c) PROVE PublishInv'
  BY <1>7, PublishRests DEF BulkApprove, BulkReject, historyVars
<1>8. ASSUME NEW j \in Jobs, Handle(j) \/ Crash(j) PROVE PublishInv'
  BY <1>8, PublishRests
  DEF Handle, Start, Load, Mark, Save, MarkFailed, Settle, Finish, Resume, Crash, rowVars,
      historyVars
<1> QED BY <1>1, <1>2, <1>3, <1>4, <1>5, <1>6, <1>7, <1>8 DEF CreativeNext, Review

\* However requests, renders, crashes and repeated jobs interleave, a creative has a second
\* post only if two requests to publish it overlapped.
LEMMA SecondPostNeedsRace == CreativeSpec => []OnePostUnlessRaced
<1>1. CreativeInit => PublishInv
  BY DEF CreativeInit, PublishInv, Doing
<1>2. CreativeInv /\ PublishInv => OnePostUnlessRaced
  BY DEF CreativeInv, HistoryTypes, PublishInv, OnePostUnlessRaced
<1> QED BY <1>1, <1>2, PublishInvStep, CreativeInvAlways, PTL DEF CreativeSpec

\* A step that approves nothing, and makes no row APPROVED, no post and no request to
\* publish, keeps what is known of approvals.
LEMMA ApprovalRests ==
  ASSUME CreativeInv, ApprovalInv, UNCHANGED <<posts, approved, raced>>,
         \A c \in Creatives : status'[c] = "APPROVED" =>
           status[c] = "APPROVED" /\ look'[c] = look[c] /\ art'[c] = art[c],
         \A r \in Requests : Doing(r, "publish")' => request'[r] = request[r]
  PROVE  ApprovalInv'
BY DEF ApprovalInv, Doing, Seen

\* Every step keeps what is known of approvals.
LEMMA ApprovalInvStep ==
  CreativeInv /\ ApprovalInv /\ [CreativeNext]_creativeVars => ApprovalInv'
<1> SUFFICES ASSUME CreativeInv, ApprovalInv, [CreativeNext]_creativeVars PROVE ApprovalInv'
  OBVIOUS
<1>t. /\ status \in [Creatives -> CreativeStatus] /\ art \in [Creatives -> Look \cup {None}]
      /\ posts \in [Creatives -> SUBSET Rendered] /\ approved \in [Creatives -> SUBSET Rendered]
      /\ look \in [Creatives -> Look \cup {None}]
      /\ request \in [Requests ->
                        [op : Op \cup {"enqueue"}, on : Creatives, view : View] \cup {None}]
      /\ about \in [Jobs -> Creatives \cup {None}]
  BY DEF CreativeInv, HistoryTypes, RowTypes, WorkTypes
<1>1. CASE UNCHANGED creativeVars
  BY <1>1, ApprovalRests DEF creativeVars, rowVars, historyVars
<1>2. CASE CreateBatch \/ QueueBatch
  BY <1>2, ApprovalRests DEF CreateBatch, QueueBatch, rowVars, historyVars
<1>3. ASSUME NEW r \in Requests, NEW op \in Op, NEW c \in Reviewed, Find(r, op, c)
      PROVE  ApprovalInv'
  <2>1. /\ UNCHANGED <<status, look, art, posts, approved>> /\ raced \subseteq raced'
        /\ request'[r] = [op |-> op, on |-> c, view |-> Seen(c)]
        /\ \A q \in Requests \ {r} : request'[q] = request[q]
        /\ op = "publish" => status[c] = "APPROVED"
    BY <1>t, <1>3 DEF Find, rowVars, Allowed, CanPublish
  <2>2. /\ \A d \in Creatives : Seen(d)' = Seen(d) /\ (d \notin raced' => d \notin raced)
        /\ op = "publish" /\ c \in Creatives \ raced => Seen(c) \in approved[c]
    BY <2>1 DEF ApprovalInv, Seen
  <2>3. \A q \in Requests, d \in Creatives \ raced' :
          Doing(q, "publish")' /\ request'[q].on = d => request'[q].view \in approved[d]
    BY <2>1, <2>2 DEF ApprovalInv, Doing
  <2> QED BY <2>1, <2>2, <2>3 DEF ApprovalInv
<1>4. ASSUME NEW r \in Requests, Approve(r) PROVE ApprovalInv'
  <2> DEFINE c == request[r].on
             v == request[r].view
  <2>1. /\ status' = [status EXCEPT ![c] = "APPROVED"]
        /\ approved' = [approved EXCEPT ![c] = @ \cup {v}]
        /\ raced' = IF v # Seen(c) THEN raced \cup {c} ELSE raced
        /\ UNCHANGED <<look, art, posts>>
        /\ c \in Creatives
    BY <1>t, <1>4 DEF Approve, SetStatus, Doing
  <2>2. \A q \in Requests : Doing(q, "publish")' => request'[q] = request[q]
    BY <1>t, <1>4 DEF Approve, Answer, Doing
  <2>3. \A d \in Creatives : approved[d] \subseteq approved'[d] /\ (d \in raced => d \in raced')
    BY <1>t, <2>1
  <2>4. \A d \in Creatives : d \notin raced' /\ status'[d] = "APPROVED"
                               => Seen(d)' \in approved'[d]
    BY <1>t, <2>1 DEF ApprovalInv, Seen
  <2> QED BY <2>1, <2>2, <2>3, <2>4 DEF ApprovalInv, Doing
<1>5. ASSUME NEW r \in Requests, Reject(r) \/ Remove(r) \/ Enqueue(r) PROVE ApprovalInv'
  <2>1. UNCHANGED <<look, art, posts, approved, raced>>
    BY <1>5 DEF Reject, Remove, Enqueue, rowVars, historyVars
  <2>2. \A q \in Requests : Doing(q, "publish")' => request'[q] = request[q]
    BY <1>t, <1>5 DEF Reject, Remove, Enqueue, Answer, Doing
  <2>3. \A c \in Creatives : status'[c] = "APPROVED" => status[c] = "APPROVED"
    BY <1>t, <1>5 DEF Reject, Remove, Enqueue, SetStatus, rowVars
  <2> QED BY <2>1, <2>2, <2>3, ApprovalRests
<1>6. ASSUME NEW r \in Requests, Rewrite(r) PROVE ApprovalInv'
  <2>1. /\ UNCHANGED <<posts, approved, raced>>
        /\ status' = [status EXCEPT ![request[r].on] = "DRAFT"]
        /\ art' = art
        /\ \E v : look' = [look EXCEPT ![request[r].on] = v]
    BY <1>6 DEF Rewrite, historyVars, SetStatus, StatusEdited
  <2>2. \A q \in Requests : Doing(q, "publish")' => request'[q] = request[q]
    BY <1>t, <1>6 DEF Rewrite, Doing
  <2> QED BY <1>t, <2>1, <2>2, ApprovalRests
<1>7. ASSUME NEW r \in Requests, Publish(r) PROVE ApprovalInv'
  <2>1. /\ UNCHANGED <<look, art, approved, raced>>
        /\ status' = [status EXCEPT ![request[r].on] = "SCHEDULED"]
        /\ posts' = [posts EXCEPT ![request[r].on] = @ \cup {request[r].view}]
        /\ Doing(r, "publish") /\ request[r].on \in Creatives
    BY <1>t, <1>7 DEF Publish, SetStatus, Doing
  <2>2. \A q \in Requests : Doing(q, "publish")' => request'[q] = request[q]
    BY <1>t, <1>7 DEF Publish, Answer, Doing
  <2> QED BY <1>t, <2>1, <2>2 DEF ApprovalInv, Doing, Seen
<1>8. ASSUME NEW c \in Reviewed, BulkApprove(c) PROVE ApprovalInv'
  <2>1. /\ UNCHANGED <<look, art, posts, raced, request>> /\ c \in Creatives
        /\ status' = [status EXCEPT ![c] = "APPROVED"]
        /\ approved' = [approved EXCEPT ![c] = @ \cup {Seen(c)}]
    BY <1>8 DEF BulkApprove, SetStatus, Visible, Members
  <2> QED BY <1>t, <2>1 DEF ApprovalInv, Doing, Seen
<1>9. ASSUME NEW c \in Reviewed, BulkReject(c) PROVE ApprovalInv'
  <2>1. UNCHANGED <<look, art, posts, approved, raced, request>>
    BY <1>9 DEF BulkReject, historyVars
  <2>2. \A d \in Creatives : status'[d] = "APPROVED" => status[d] = "APPROVED"
    BY <1>t, <1>9 DEF BulkReject, SetStatus
  <2> QED BY <2>1, <2>2, ApprovalRests
<1>10. ASSUME NEW j \in Jobs, Handle(j) \/ Crash(j) PROVE ApprovalInv'
  <2>1. UNCHANGED <<look, posts, approved, raced, request>>
    BY <1>10
    DEF Handle, Start, Load, Mark, Save, MarkFailed, Settle, Finish, Resume, Crash, rowVars,
        historyVars
  <2>2. \/ status' = status /\ art' = art
        \/ \E s \in {"RENDERING", "READY", "FAILED"} :
             SetStatus(about[j], s) /\ \A d \in Creatives \ {about[j]} : art'[d] = art[d]
    BY <1>t, <1>10
    DEF Handle, Start, Load, Mark, Save, MarkFailed, Settle, Finish, Resume, Crash, rowVars
  <2>3. \A d \in Creatives : status'[d] = "APPROVED" => status[d] = "APPROVED" /\ art'[d] = art[d]
    BY <1>t, <2>2 DEF SetStatus
  <2> QED BY <2>1, <2>3, ApprovalRests
<1> QED
  BY <1>1, <1>2, <1>3, <1>4, <1>5, <1>6, <1>7, <1>8, <1>9, <1>10 DEF CreativeNext, Review

\* What is handed to the publisher was approved as it is, but for a change between
\* the read and the write of an approval.
LEMMA PostsWereApproved == CreativeSpec => []PublishedWasApproved
<1>1. CreativeInit => ApprovalInv
  BY DEF CreativeInit, ApprovalInv, Doing
<1>2. ApprovalInv => PublishedWasApproved
  BY DEF ApprovalInv, PublishedWasApproved
<1> QED BY <1>1, <1>2, ApprovalInvStep, CreativeInvAlways, PTL DEF CreativeSpec

\* However a poster is edited, rendered, reviewed and published, it is posted once, in a
\* state that was approved, unless two requests about it overlapped
\* (creative-review.controller.ts, creatives.controller.ts).
THEOREM PublicationsAreSound == CreativeSpec => []PublicationsSound
<1> QED BY SecondPostNeedsRace, PostsWereApproved, PTL DEF PublicationsSound

-----------------------------------------------------------------------------
(* Batches.                                                                *)

\* The sizes that are compared are numbers.
LEMMA BatchSizes ==
  /\ IsFiniteSet(Members) /\ IsFiniteSet(LandedOnes)
  /\ Total \in Nat /\ Cardinality(LandedOnes) \in Nat
<1>1. IsFiniteSet(Members) /\ IsFiniteSet(LandedOnes)
  BY FS_Subset, CreativeAssumption DEF Members, LandedOnes, CreativeAssumption
<1> QED BY <1>1, FS_CardinalityType DEF Total

\* An advance counts one more, and closes the batch when that makes them all.
LEMMA AdvanceLands ==
  ASSUME NEW outcome,
         NEW b \in [state : {"none", "RUNNING", "COMPLETED", "FAILED"},
                    completed : Nat, failed : Nat],
         b.state # "none"
  PROVE  LET next == Advance(b, outcome)
         IN /\ Landed(next) = Landed(b) + 1
            /\ next.state \in {"COMPLETED", "FAILED"} <=>
                 b.state \in {"COMPLETED", "FAILED"} \/ Landed(b) + 1 >= Total
            /\ next.state # "none"
<1>1. Landed(b) \in Nat /\ Total \in Nat
  BY BatchSizes DEF Landed
<1> QED BY <1>1 DEF Advance, Landed

\* Jobs that are added, and steps that settle nothing, move no count.
LEMMA BatchRests ==
  ASSUME CreativeInv, CreativeInv', BatchInv, UNCHANGED <<batch, settled>>, Members' = Members,
         \A j \in Jobs : about[j] # None => about'[j] = about[j]
  PROVE  BatchInv'
<1>1. LandedOnes' = LandedOnes
  <2>1. \A j \in Jobs : settled[j] > 0 => about[j] # None
    BY DEF CreativeInv, JobsFit
  <2> QED BY <2>1 DEF LandedOnes
<1>2. Total' = Total
  BY DEF Total
<1>3. \A j \in Jobs : about[j] # None /\ j \in Creating' => j \in Creating
  BY DEF Creating
<1>4. Resettled => Resettled'
  <2> SUFFICES ASSUME NEW j \in Jobs, settled[j] > (IF j \in Creating THEN 1 ELSE 0)
               PROVE  settled'[j] > (IF j \in Creating' THEN 1 ELSE 0)
    BY DEF Resettled
  <2>1. settled[j] \in Nat
    BY DEF CreativeInv, BatchTypes
  <2>2. about[j] # None
    BY <2>1 DEF CreativeInv, JobsFit
  <2> QED BY <1>3, <2>1, <2>2
<1> QED BY <1>1, <1>2, <1>4 DEF BatchInv

\* A settlement counts one more, for a creative that had not landed unless it is a second
\* one.
LEMMA SettleCounts ==
  ASSUME CreativeInv, CreativeInv', BatchInv, NEW j \in Jobs, Settle(j)
  PROVE  BatchInv'
<1>1. /\ UNCHANGED <<about, status>>
      /\ about[j] # None /\ about[j] \in Creatives /\ batch.state # "none"
  BY CreativeAssumption
  DEF Settle, rowVars, CreativeInv, JobsFit, StagesFit, Members, CreativeAssumption
<1>2. Members' = Members /\ Total' = Total /\ Creating' = Creating
  BY <1>1 DEF Members, Total, Creating
<1>3. CASE UNCHANGED <<batch, settled>>
  BY <1>1, <1>2, <1>3, BatchRests
<1>4. ASSUME NEW outcome, batch' = Advance(batch, outcome),
             settled' = [settled EXCEPT ![j] = @ + 1]
      PROVE  BatchInv'
  <2>t. settled \in [Jobs -> Nat] /\ Landed(batch) \in Nat
    BY DEF CreativeInv, BatchTypes, Landed
  <2>1. /\ Landed(batch') = Landed(batch) + 1
        /\ batch'.state \in {"COMPLETED", "FAILED"} <=>
             batch.state \in {"COMPLETED", "FAILED"} \/ Landed(batch) + 1 >= Total
        /\ batch'.state # "none"
    BY <1>1, <1>4, AdvanceLands DEF CreativeInv, BatchTypes
  <2>2. LandedOnes' = LandedOnes \cup {about[j]}
    BY <1>1, <1>4, <2>t DEF LandedOnes
  <2>3. Cardinality(LandedOnes') =
          IF about[j] \in LandedOnes THEN Cardinality(LandedOnes) ELSE Cardinality(LandedOnes) + 1
    BY <2>2, BatchSizes, FS_AddElement
  <2>4. Resettled => Resettled'
    BY <1>2, <1>4, <2>t DEF Resettled
  <2>5. ~ Resettled' => about[j] \notin LandedOnes
    <3> SUFFICES ASSUME ~ Resettled', NEW i \in Jobs, about[i] = about[j], settled[i] > 0
                 PROVE  FALSE
      BY <1>1 DEF LandedOnes
    <3>1. \A k \in Jobs : settled'[k] <= (IF k \in Creating THEN 1 ELSE 0)
      <4>1. \A k \in Jobs : ~ (settled'[k] > (IF k \in Creating THEN 1 ELSE 0))
        BY <1>2 DEF Resettled
      <4>2. \A k \in Jobs : settled'[k] \in Nat
        BY <1>4, <2>t
      <4> QED BY <4>1, <4>2
    <3>2. settled'[j] = settled[j] + 1 /\ (i # j => settled'[i] = settled[i])
      BY <1>4, <2>t
    <3>3. i # j /\ i \in Creating /\ j \in Creating
      BY <2>t, <3>1, <3>2
    <3> QED BY <3>3, CreativeAssumption DEF Creating, CreativeAssumption
  <2>6. /\ Landed(batch') >= Cardinality(LandedOnes')
        /\ ~ Resettled' => Landed(batch') = Cardinality(LandedOnes')
    BY <2>t, <2>1, <2>3, <2>4, <2>5, BatchSizes DEF BatchInv
  <2>7. batch'.state \in {"COMPLETED", "FAILED"} <=>
          batch'.state # "none" /\ Landed(batch') >= Total
    BY <1>1, <2>t, <2>1, BatchSizes DEF BatchInv
  <2> QED BY <1>2, <2>6, <2>7 DEF BatchInv
<1> QED BY <1>3, <1>4 DEF Settle

\* A new batch has members, none of which has landed.
LEMMA CreateBatchCounts ==
  ASSUME CreativeInv, CreativeInv', BatchInv, CreateBatch
  PROVE  BatchInv'
<1>1. /\ UNCHANGED <<about, settled>> /\ batch' = Open
      /\ \A j \in Jobs : about[j] = None
  BY DEF CreateBatch, handlerVars, CreativeInv, StagesFit
<1>2. LandedOnes' = {} /\ Cardinality({}) = 0
  BY <1>1, CreativeAssumption, FS_EmptySet DEF LandedOnes, CreativeAssumption
<1>3. Landed(batch') = 0 /\ batch'.state = "RUNNING"
  BY <1>1 DEF Landed, Open
<1>4. Total' \in Nat /\ Total' # 0
  <2>1. Members' # {}
    BY <1>3 DEF CreativeInv, StagesFit
  <2>2. IsFiniteSet(Members')
    BY FS_Subset, CreativeAssumption DEF Members, CreativeAssumption
  <2> QED BY <2>1, <2>2, FS_EmptySet, FS_CardinalityType DEF Total
<1> QED BY <1>2, <1>3, <1>4 DEF BatchInv

\* Every step keeps the counters and the batch's state in line.
LEMMA BatchInvStep ==
  CreativeInv /\ CreativeInv' /\ BatchInv /\ [CreativeNext]_creativeVars => BatchInv'
<1> SUFFICES ASSUME CreativeInv, CreativeInv', BatchInv, [CreativeNext]_creativeVars
             PROVE  BatchInv'
  OBVIOUS
<1>m. ASSUME batch.state # "none", NEW c \in Creatives, c \in Members,
             \E s \in CreativeStatus \ {"absent"} : SetStatus(c, s)
      PROVE  Members' = Members
  BY <1>m, MembersStay DEF CreativeInv
<1>s. ASSUME UNCHANGED status PROVE Members' = Members
  BY <1>s DEF Members
<1>1. CASE UNCHANGED creativeVars
  BY <1>1, <1>s, BatchRests DEF creativeVars, rowVars, batchVars, handlerVars
<1>2. CASE CreateBatch
  BY <1>2, CreateBatchCounts
<1>3. CASE QueueBatch
  <2>1. \A j \in Jobs : about[j] = None
    BY <1>3 DEF QueueBatch, CreativeInv, StagesFit
  <2> QED BY <1>3, <1>s, <2>1, BatchRests DEF QueueBatch, rowVars
<1>4. ASSUME NEW r \in Requests, Review(r) PROVE BatchInv'
  <2>1. UNCHANGED <<batch, settled>>
    BY <1>4 DEF Review, Find, Approve, Reject, Remove, Rewrite, Enqueue, Publish, batchVars
  <2>2. \A j \in Jobs : about[j] # None => about'[j] = about[j]
    BY <1>4
    DEF Review, Find, Approve, Reject, Remove, Rewrite, Enqueue, Publish, handlerVars, Fresh,
        CreativeInv, WorkTypes
  <2>3. \/ UNCHANGED status
        \/ /\ request[r] # None
           /\ \E s \in CreativeStatus \ {"absent"} : SetStatus(request[r].on, s)
    BY <1>4
    DEF Review, Find, Approve, Reject, Remove, Rewrite, Enqueue, Publish, rowVars, Doing,
        StatusEdited, CreativeStatus
  <2>4. Members' = Members
    BY <1>s, <2>3, MembersStay DEF CreativeInv, StagesFit
  <2> QED BY <2>1, <2>2, <2>4, BatchRests
<1>5. ASSUME NEW c \in Reviewed, BulkApprove(c) \/ BulkReject(c) PROVE BatchInv'
  <2>1. UNCHANGED <<batch, settled, about>> /\ c \in Members
        /\ \E s \in CreativeStatus \ {"absent"} : SetStatus(c, s)
    BY <1>5 DEF BulkApprove, BulkReject, batchVars, handlerVars, Visible, CreativeStatus
  <2>2. Members' = Members
    BY <2>1, MembersStay DEF CreativeInv
  <2> QED BY <2>1, <2>2, BatchRests
<1>6. ASSUME NEW j \in Jobs, Settle(j) PROVE BatchInv'
  BY <1>6, SettleCounts
<1>7. ASSUME NEW j \in Jobs, Load(j) \/ Mark(j) \/ Save(j) \/ MarkFailed(j) PROVE BatchInv'
  <2>1. UNCHANGED <<batch, settled, about>> /\ about[j] \in Members
        /\ (UNCHANGED status \/ \E s \in CreativeStatus \ {"absent"} : SetStatus(about[j], s))
    BY <1>7
    DEF Load, Mark, Save, MarkFailed, batchVars, rowVars, CreativeStatus, CreativeInv, JobsFit
  <2>2. Members' = Members
    BY <1>s, <2>1, MembersStay DEF CreativeInv
  <2> QED BY <2>1, <2>2, BatchRests
<1>8. ASSUME NEW j \in Jobs, Start(j) \/ Finish(j) \/ Resume(j) \/ Crash(j) PROVE BatchInv'
  BY <1>8, <1>s, BatchRests DEF Start, Finish, Resume, Crash, batchVars, rowVars, handlerVars
<1> QED
  BY <1>1, <1>2, <1>3, <1>4, <1>5, <1>6, <1>7, <1>8 DEF CreativeNext, Handle

\* A batch closes as soon as every creative of it has landed, and earlier only if some
\* render was settled again, for any number of creatives, jobs and crashes.
THEOREM BatchesEndWithTheirRenders == CreativeSpec => []BatchEndsWithItsRenders
<1>1. CreativeInit => BatchInv
  <2> SUFFICES ASSUME CreativeInit PROVE BatchInv
    OBVIOUS
  <2>1. LandedOnes = {} /\ Cardinality({}) = 0
    BY FS_EmptySet DEF CreativeInit, LandedOnes
  <2>2. Landed(batch) = 0 /\ batch.state = "none"
    BY DEF CreativeInit, Landed, Open
  <2> QED BY <2>1, <2>2 DEF BatchInv
<1>2. CreativeInv /\ BatchInv => BatchEndsWithItsRenders
  <2> SUFFICES ASSUME CreativeInv, BatchInv PROVE BatchEndsWithItsRenders
    OBVIOUS
  <2>t. Landed(batch) \in Nat
    BY DEF CreativeInv, BatchTypes, Landed
  <2>1. LandedOnes \subseteq Members
    BY CreativeAssumption DEF LandedOnes, CreativeInv, JobsFit, CreativeAssumption
  <2>2. (\A c \in Members : \E j \in Jobs : about[j] = c /\ settled[j] > 0)
          <=> LandedOnes = Members
    BY <2>1 DEF LandedOnes, Members
  <2>3. Members # {} /\ LandedOnes = Members => batch.state \in {"COMPLETED", "FAILED"}
    BY <2>t, BatchSizes DEF BatchInv, Total, CreativeInv, StagesFit
  <2>4. batch.state \in {"COMPLETED", "FAILED"} /\ ~ Resettled => LandedOnes = Members
    <3>1. Cardinality(LandedOnes) <= Cardinality(Members)
          /\ (Cardinality(LandedOnes) = Cardinality(Members) => LandedOnes = Members)
      BY <2>1, BatchSizes, FS_Subset
    <3> QED BY <2>t, <3>1, BatchSizes DEF BatchInv, Total
  <2> QED BY <2>2, <2>3, <2>4 DEF BatchEndsWithItsRenders, Resettled
<1> QED BY <1>1, <1>2, BatchInvStep, CreativeInvAlways, PTL DEF CreativeSpec

-----------------------------------------------------------------------------
(* Sets and sequences in order.                                              *)

\* In a finite set in a strict order, of which below says who comes before whom, there is
\* one with each number of others before it, and who has fewer before it comes first.
LEMMA Ranked ==
  ASSUME NEW S, IsFiniteSet(S), NEW below \in [S -> SUBSET S],
         \A x \in S : x \notin below[x],
         \A x, y \in S : x = y \/ x \in below[y] \/ y \in below[x],
         \A x, y \in S : x \in below[y] => below[x] \subseteq below[y]
  PROVE  /\ Cardinality(S) \in Nat
         /\ \A x \in S : Cardinality(below[x]) \in 0..(Cardinality(S) - 1)
         /\ \A i \in 1..Cardinality(S) : \E x \in S : Cardinality(below[x]) = i - 1
         /\ \A x, y \in S : Cardinality(below[x]) < Cardinality(below[y]) <=> x \in below[y]
<1> DEFINE n == Cardinality(S)
           rank == [x \in S |-> Cardinality(below[x]) + 1]
<1>1. n \in Nat
  BY FS_CardinalityType
<1>2. ASSUME NEW x \in S PROVE IsFiniteSet(below[x]) /\ Cardinality(below[x]) \in 0..(n - 1)
  <2>1. IsFiniteSet(S \ {x}) /\ Cardinality(S \ {x}) = n - 1
    BY FS_RemoveElement
  <2>2. below[x] \in SUBSET (S \ {x})
    OBVIOUS
  <2>3. IsFiniteSet(below[x]) /\ Cardinality(below[x]) <= n - 1
    BY <2>1, <2>2, FS_Subset
  <2> QED
    BY <1>1, <2>3, FS_CardinalityType
<1>3. ASSUME NEW x \in S, NEW y \in S, x \in below[y]
      PROVE  Cardinality(below[x]) < Cardinality(below[y])
  <2>1. below[x] \in SUBSET below[y] /\ below[x] # below[y]
    BY <1>3
  <2>2. Cardinality(below[x]) <= Cardinality(below[y])
        /\ Cardinality(below[x]) # Cardinality(below[y])
    BY <1>2, <2>1, FS_Subset
  <2> QED
    BY <1>1, <1>2, <2>2
<1>4. rank \in Injection(S, 1..n)
  <2>1. rank \in [S -> 1..n]
    BY <1>1, <1>2
  <2>2. \A x, y \in S : rank[x] = rank[y] => x = y
    <3> SUFFICES ASSUME NEW x \in S, NEW y \in S, rank[x] = rank[y] PROVE x = y
      OBVIOUS
    <3>1. Cardinality(below[x]) \in Int /\ Cardinality(below[y]) \in Int
      BY <1>1, <1>2
    <3>2. Cardinality(below[x]) = Cardinality(below[y])
      BY <3>1
    <3> QED
      BY <1>3, <3>1, <3>2
  <2> HIDE DEF rank
  <2> QED
    BY <2>1, <2>2 DEF Injection, IsInjective
<1>5. IsFiniteSet(1..n) /\ Cardinality(1..n) = n
  BY <1>1, FS_Interval
<1>6. rank \in Surjection(S, 1..n)
  <2> HIDE DEF rank
  <2> QED BY <1>4, <1>5, FS_Injection
<1>7. ASSUME NEW i \in 1..n PROVE \E x \in S : Cardinality(below[x]) = i - 1
  <2>1. PICK x \in S : rank[x] = i
    BY <1>6 DEF Surjection
  <2> QED
    BY <1>1, <1>2, <2>1
<1>8. ASSUME NEW x \in S, NEW y \in S, Cardinality(below[x]) < Cardinality(below[y])
      PROVE  x \in below[y]
  <2>1. Cardinality(below[x]) \in Int /\ Cardinality(below[y]) \in Int
    BY <1>1, <1>2
  <2> QED
    BY <1>3, <1>8, <2>1
<1> QED
  BY <1>1, <1>2, <1>3, <1>7, <1>8

\* Two sequences in some order, the first before the second, are in order together.
LEMMA JoinedInOrder ==
  ASSUME NEW X, NEW order, NEW s \in Seq(X), NEW t \in Seq(X),
         \A i, j \in DOMAIN s : i < j => <<s[i], s[j]>> \in order,
         \A i, j \in DOMAIN t : i < j => <<t[i], t[j]>> \in order,
         \A i \in DOMAIN s : \A j \in DOMAIN t : <<s[i], t[j]>> \in order
  PROVE  \A i, j \in DOMAIN (s \o t) : i < j => <<(s \o t)[i], (s \o t)[j]>> \in order
<1>1. /\ s \o t \in Seq(X) /\ Len(s \o t) = Len(s) + Len(t)
      /\ Len(s) \in Nat /\ Len(t) \in Nat
      /\ \A i \in 1..Len(s) : (s \o t)[i] = s[i]
      /\ \A i \in 1..Len(t) : (s \o t)[Len(s) + i] = t[i]
  BY ConcatProperties, LenProperties
<1>2. DOMAIN s = 1..Len(s) /\ DOMAIN t = 1..Len(t) /\ DOMAIN (s \o t) = 1..(Len(s) + Len(t))
  BY <1>1
<1>3. ASSUME NEW i \in DOMAIN (s \o t)
      PROVE  \/ i \in DOMAIN s /\ (s \o t)[i] = s[i]
             \/ i - Len(s) \in DOMAIN t /\ (s \o t)[i] = t[i - Len(s)]
  <2>1. CASE i <= Len(s)
    BY <1>1, <1>2, <2>1
  <2>2. CASE ~ (i <= Len(s))
    <3>1. i - Len(s) \in 1..Len(t) /\ Len(s) + (i - Len(s)) = i
      BY <1>1, <1>2, <2>2
    <3> QED
      BY <1>1, <1>2, <3>1
  <2> QED
    BY <2>1, <2>2
<1>4. ASSUME NEW i \in DOMAIN (s \o t), NEW j \in DOMAIN (s \o t), i < j
      PROVE  <<(s \o t)[i], (s \o t)[j]>> \in order
  <2>1. CASE j <= Len(s)
    <3>1. i \in DOMAIN s /\ j \in DOMAIN s
      BY <1>1, <1>2, <1>4, <2>1
    <3> QED
      BY <1>1, <1>2, <1>4, <3>1
  <2>2. CASE Len(s) < i
    <3>1. i - Len(s) \in DOMAIN t /\ j - Len(s) \in DOMAIN t /\ i - Len(s) < j - Len(s)
      BY <1>1, <1>2, <1>4, <2>2
    <3>2. (s \o t)[i] = t[i - Len(s)] /\ (s \o t)[j] = t[j - Len(s)]
      BY <1>1, <1>2, <1>3, <1>4, <2>2
    <3> QED
      BY <3>1, <3>2
  <2>3. CASE i <= Len(s) /\ Len(s) < j
    <3>1. i \in DOMAIN s /\ (s \o t)[i] = s[i]
      BY <1>1, <1>2, <2>3
    <3>2. j - Len(s) \in DOMAIN t /\ (s \o t)[j] = t[j - Len(s)]
      BY <1>1, <1>2, <1>3, <2>3
    <3> QED
      BY <3>1, <3>2
  <2>4. j <= Len(s) \/ Len(s) < i \/ (i <= Len(s) /\ Len(s) < j)
    BY <1>1, <1>2
  <2> QED
    BY <2>1, <2>2, <2>3, <2>4
<1> QED
  BY <1>4

-----------------------------------------------------------------------------
(* Inbox.                                                                    *)

-----------------------------------------------------------------------------
(* Order.                                                                    *)

\* Sorted(S) has every message of S once, the oldest first.
LEMMA SortedIsSorted ==
  ASSUME NEW n \in Nat, NEW S \in SUBSET (1..n)
  PROVE  /\ Sorted(S) \in Seq(S)
         /\ Len(Sorted(S)) = Cardinality(S) /\ Cardinality(S) \in Nat
         /\ \A i, j \in DOMAIN Sorted(S) : i < j => Sorted(S)[i] < Sorted(S)[j]
         /\ S # {} => Sorted(S) # <<>> /\ Sorted(S)[1] \in S
<1> DEFINE below == [m \in S |-> {k \in S : k < m}]
           c == Cardinality(S)
<1>1. IsFiniteSet(S) /\ S \subseteq Nat
  <2>1. IsFiniteSet(1..n)
    BY FS_Interval
  <2>2. IsFiniteSet(S)
    BY <2>1, FS_Subset
  <2>3. S \subseteq Nat
    OBVIOUS
  <2> QED
    BY <2>2, <2>3
<1>2. below \in [S -> SUBSET S]
  OBVIOUS
<1>3. \A m \in S : below[m] = {k \in S : k < m}
  OBVIOUS
<1> HIDE DEF below
<1>4. /\ \A x \in S : x \notin below[x]
      /\ \A x, y \in S : x = y \/ x \in below[y] \/ y \in below[x]
      /\ \A x, y \in S : x \in below[y] => below[x] \subseteq below[y]
  <2>1. /\ \A x, y \in S : x = y \/ x < y \/ y < x
        /\ \A x \in S : ~ (x < x)
        /\ \A x, y, z \in S : x < y /\ y < z => x < z
    BY <1>1
  <2>2. \A x, y \in S : x \in below[y] <=> x < y
    BY <1>3
  <2>3. \A x, y \in S : x \in below[y] => below[x] \subseteq below[y]
    BY <1>2, <2>1, <2>2
  <2> QED
    BY <2>1, <2>2, <2>3
<1>5. /\ c \in Nat
      /\ \A i \in 1..c : \E x \in S : Cardinality(below[x]) = i - 1
      /\ \A x, y \in S : Cardinality(below[x]) < Cardinality(below[y]) => x \in below[y]
  BY <1>1, <1>2, <1>4, Ranked
<1>6. \A i \in 1..c : Sorted(S)[i] \in S /\ Cardinality(below[Sorted(S)[i]]) = i - 1
  <2> SUFFICES ASSUME NEW i \in 1..c
               PROVE  Sorted(S)[i] \in S /\ Cardinality(below[Sorted(S)[i]]) = i - 1
    OBVIOUS
  <2>1. \E m \in S : Cardinality({k \in S : k < m}) = i - 1
    BY <1>3, <1>5
  <2>2. Sorted(S)[i] = CHOOSE m \in S : Cardinality({k \in S : k < m}) = i - 1
    BY DEF Sorted
  <2>3. Sorted(S)[i] \in S /\ Cardinality({k \in S : k < Sorted(S)[i]}) = i - 1
    BY <2>1, <2>2
  <2> QED
    BY <1>3, <2>3
<1>7. DOMAIN Sorted(S) = 1..c /\ Sorted(S) \in [1..c -> S]
  <2> DEFINE e(i) == CHOOSE m \in S : Cardinality({k \in S : k < m}) = i - 1
  <2>1. Sorted(S) = [i \in 1..c |-> e(i)]
    BY DEF Sorted
  <2>2. \A i \in 1..c : e(i) \in S
    BY <1>6, <2>1
  <2> HIDE DEF e, c
  <2> QED
    BY <2>1, <2>2
<1>8. Sorted(S) \in Seq(S) /\ Len(Sorted(S)) = c
  BY <1>5, <1>6, <1>7
<1>9. ASSUME NEW i \in 1..c, NEW j \in 1..c, i < j PROVE Sorted(S)[i] < Sorted(S)[j]
  <2>1. Cardinality(below[Sorted(S)[i]]) < Cardinality(below[Sorted(S)[j]])
    BY <1>5, <1>6, <1>9
  <2>2. Sorted(S)[i] \in below[Sorted(S)[j]]
    BY <1>5, <1>6, <2>1
  <2> QED
    BY <1>3, <1>6, <2>2
<1>10. S # {} => c # 0
  BY <1>1, FS_EmptySet
<1> QED
  BY <1>5, <1>6, <1>7, <1>8, <1>9, <1>10

\* A finite set of messages has a newest one.
LEMMA Newest ==
  ASSUME NEW n \in Nat, NEW S \in SUBSET (1..n), S # {}
  PROVE  \E m \in S : Cardinality({k \in S : k > m}) = 0
<1> DEFINE above == [m \in S |-> {k \in S : k > m}]
<1>1. IsFiniteSet(S) /\ S \subseteq Nat
  <2>1. IsFiniteSet(1..n)
    BY FS_Interval
  <2>2. IsFiniteSet(S)
    BY <2>1, FS_Subset
  <2>3. S \subseteq Nat
    OBVIOUS
  <2> QED
    BY <2>2, <2>3
<1>2. above \in [S -> SUBSET S]
  OBVIOUS
<1>3. \A m \in S : above[m] = {k \in S : k > m}
  OBVIOUS
<1> HIDE DEF above
<1>4. /\ \A x \in S : x \notin above[x]
      /\ \A x, y \in S : x = y \/ x \in above[y] \/ y \in above[x]
      /\ \A x, y \in S : x \in above[y] => above[x] \subseteq above[y]
  <2>1. /\ \A x, y \in S : x = y \/ x > y \/ y > x
        /\ \A x \in S : ~ (x > x)
        /\ \A x, y, z \in S : x > y /\ y > z => x > z
    BY <1>1
  <2>2. \A x, y \in S : x \in above[y] <=> x > y
    BY <1>3
  <2>3. \A x, y \in S : x \in above[y] => above[x] \subseteq above[y]
    BY <1>2, <2>1, <2>2
  <2> QED
    BY <2>1, <2>2, <2>3
<1>5. Cardinality(S) \in Nat /\ Cardinality(S) # 0
  BY <1>1, FS_CardinalityType, FS_EmptySet
<1>6. \A i \in 1..Cardinality(S) : \E x \in S : Cardinality(above[x]) = i - 1
  BY <1>1, <1>2, <1>4, Ranked
<1>7. PICK x \in S : Cardinality(above[x]) = 1 - 1
  BY <1>5, <1>6
<1>8. above[x] = {k \in S : k > x}
  BY <1>3
<1>9. Cardinality(above[x]) = 0
  BY <1>7
<1> QED
  BY <1>8, <1>9

-----------------------------------------------------------------------------
(* The invariant.                                                            *)

\* A request that writes a message has written one, of its conversation, inbound if it was
\* recorded; what a request for a page has found is of its conversation.
Writes(r) == call[r].kind \in {"record", "send"}
CallFits(r) ==
  /\ Writes(r) => call[r].chat \in Chats
  /\ call[r].kind = "read" => call[r].chat \in Chats
  /\ Writes(r) /\ call[r].at = 1 => call[r].found = {}
  /\ Writes(r) /\ call[r].at # 1 => \E m \in Messages :
       /\ call[r].found = {m} /\ chat[m] = call[r].chat
       /\ m \in inbound <=> call[r].kind = "record"
  /\ call[r].kind = "record" \/ (Writes(r) /\ call[r].at # 3) => call[r].found \cap stored = {}
  /\ call[r].kind \in {"load", "older"} =>
       /\ call[r].at # 1 => \A m \in call[r].found : chat[m] = call[r].chat
       /\ call[r].more => call[r].at # 1 /\ call[r].found # {}
  /\ call[r].kind = "load" /\ call[r].at = 1 => call[r].found = {}

CallsFit == \A r \in Calls : CallFits(r)

\* No two have written the same message.
OwnMessages ==
  \A r, s \in Calls : r # s /\ Writes(r) /\ Writes(s) => call[r].found \cap call[s].found = {}

\* Who has locked a conversation writes a message of it, or marks as read what is unread.
LocksFit ==
  \A c \in Chats : locked[c] # NoChat =>
    LET r == call[locked[c]] IN
      /\ r.chat = c
      /\ \/ r.kind \in {"record", "send"} /\ r.at = 3 /\ r.found \cap stored = {}
         \/ r.kind = "read" /\ r.at # 1 /\ (r.at = 3 => r.found = Unread(c))

\* A loading that is waited for is the last one begun, of the open conversation; one message
\* is sent at a time, and one page of older ones asked for.
Awaited(r) == call[r].kind = "load" /\ call[r].awaited
PageFits ==
  /\ \A r, s \in Calls : Awaited(r) /\ Awaited(s) => r = s
  /\ \A r \in Calls : Awaited(r) => call[r].chat = active
  /\ \A r, s \in Calls : call[r].kind = "send" /\ call[s].kind = "send" => r = s
  /\ \A r, s \in Calls : call[r].kind = "older" /\ call[s].kind = "older" => r = s

\* What is sent comes after the thread and what is older before it, and neither is under way
\* while the thread is loaded.
ThreadFits ==
  /\ \A i \in DOMAIN thread : chat[thread[i]] = active
  /\ \A i, j \in DOMAIN thread : i < j => thread[i] < thread[j]
  /\ older # 0 => thread # <<>> /\ older = thread[1]
  /\ \A r \in Calls : call[r].kind = "send" =>
       /\ call[r].chat = active /\ ~ Loading
       /\ \A m \in call[r].found : \A i \in DOMAIN thread : thread[i] < m
  /\ \A r \in Calls : call[r].kind = "older" =>
       /\ call[r].chat = active /\ ~ Loading /\ thread # <<>>
       /\ call[r].at = 1 => call[r].found = {thread[1]}
       /\ call[r].at # 1 => \A m \in call[r].found : m < thread[1]
  /\ Loading => thread = <<>> /\ older = 0

BadgeInv == InboxTypeOK /\ CallsFit /\ OwnMessages /\ LocksFit /\ UnreadIsCounted
ThreadInv == PageFits /\ (~ astray => ThreadFits)

-----------------------------------------------------------------------------
(* Requests.                                                                 *)

\* Which statement a request is at.
LEMMA AtKinds ==
  ASSUME InboxTypeOK, NEW r \in Calls
  PROVE  /\ At(r, "insert") => Writes(r) /\ call[r].at = 1
         /\ At(r, "update") => Writes(r) /\ call[r].at = 2
         /\ At(r, "zero") => call[r].kind = "read" /\ call[r].at = 1
         /\ At(r, "mark") => call[r].kind = "read" /\ call[r].at = 2
         /\ At(r, "fetch") => call[r].kind \in {"load", "older"} /\ call[r].at = 1
         /\ call[r].at > Len(Statements(call[r].kind)) =>
              /\ Writes(r) \/ call[r].kind = "read" => call[r].at = 3
              /\ call[r].kind \in {"load", "older"} => call[r].at # 1
<1>1. call[r] \in ChatCall
  BY DEF InboxTypeOK
<1>2. call[r].kind \in {"none", "record", "send", "read", "load", "older"} /\ call[r].at \in 1..3
  BY <1>1 DEF ChatCall
<1>3. CASE Writes(r)
  <2>1. Statements(call[r].kind) = <<"insert", "update">>
    BY <1>3 DEF Writes, Statements
  <2>2. At(r, "insert") => call[r].at = 1
    BY <1>2, <2>1 DEF At
  <2>3. At(r, "update") => call[r].at = 2
    BY <1>2, <2>1 DEF At
  <2>4. ~ At(r, "zero") /\ ~ At(r, "mark") /\ ~ At(r, "fetch")
    BY <1>2, <2>1 DEF At
  <2>5. call[r].at > Len(Statements(call[r].kind)) => call[r].at = 3
    BY <1>2, <2>1
  <2> QED
    BY <1>3, <2>2, <2>3, <2>4, <2>5 DEF Writes
<1>4. CASE call[r].kind = "read"
  <2>1. Statements(call[r].kind) = <<"zero", "mark">>
    BY <1>4 DEF Statements
  <2>2. At(r, "zero") => call[r].at = 1
    BY <1>2, <2>1 DEF At
  <2>3. At(r, "mark") => call[r].at = 2
    BY <1>2, <2>1 DEF At
  <2>4. ~ At(r, "insert") /\ ~ At(r, "update") /\ ~ At(r, "fetch")
    BY <1>2, <2>1 DEF At
  <2>5. call[r].at > Len(Statements(call[r].kind)) => call[r].at = 3
    BY <1>2, <2>1
  <2> QED
    BY <1>4, <2>2, <2>3, <2>4, <2>5 DEF Writes
<1>5. CASE call[r].kind \in {"load", "older"}
  <2>1. Statements(call[r].kind) = <<"fetch">>
    BY <1>5 DEF Statements
  <2> QED
    BY <1>2, <1>5, <2>1 DEF At, Writes
<1>6. CASE call[r].kind = "none"
  <2>1. Statements(call[r].kind) = <<>>
    BY <1>6 DEF Statements
  <2> QED
    BY <1>2, <1>6, <2>1 DEF At, Writes
<1> QED
  BY <1>2, <1>3, <1>4, <1>5, <1>6 DEF Writes

\* Messages are numbered as they are written.
LEMMA MessagesAre ==
  ASSUME InboxTypeOK
  PROVE  /\ Len(chat) \in 0..MaxMessages /\ Messages = 1..Len(chat)
         /\ \A m \in Messages : m \in Nat /\ chat[m] \in Chats
         /\ \A c : Unread(c) \subseteq Messages /\ IsFiniteSet(Unread(c))
<1>1. Len(chat) \in 0..MaxMessages /\ Messages = 1..Len(chat)
  BY DEF InboxTypeOK, Messages
<1>2. \A m \in Messages : chat[m] \in Chats
  BY <1>1, ElementOfSeq DEF InboxTypeOK
<1>3. \A c : Unread(c) \subseteq Messages
  BY DEF Unread, InboxTypeOK
<1>4. IsFiniteSet(1..Len(chat))
  BY <1>1, FS_Interval
<1> QED
  BY <1>1, <1>2, <1>3, <1>4, FS_Subset

\* Who holds a lock, and who does not.
LEMMA Unlocked ==
  ASSUME InboxTypeOK, LocksFit, NEW r \in Calls,
         \/ call[r].kind \in {"none", "load", "older"}
         \/ call[r].kind \in {"record", "send", "read"} /\ call[r].at = 1
         \/ Writes(r) /\ (call[r].at = 2 \/ call[r].found \cap stored # {})
  PROVE  \A c \in Chats : locked[c] # r
BY InboxAssumption DEF LocksFit, Writes, InboxAssumption

\* A step that leaves the messages alone, and changes none but requests that hold no lock,
\* which have written nothing then, keeps badges right.
LEMMA CallsMove ==
  ASSUME BadgeInv, UNCHANGED messageVars,
         \A q \in Calls :
           \/ call'[q] = call[q]
           \/ /\ \A c \in Chats : locked[c] # q
              /\ CallFits(q)'
              /\ Writes(q)' => call'[q].found = {}
  PROVE  CallsFit' /\ OwnMessages' /\ LocksFit' /\ UnreadIsCounted'
<1> USE DEF BadgeInv
<1>1. /\ UNCHANGED <<chat, inbound, stored, read, unread, locked>>
      /\ Messages' = Messages /\ \A c : Unread(c)' = Unread(c)
  BY DEF messageVars, Messages, Unread
<1>2. CallsFit'
  BY <1>1 DEF CallsFit, CallFits, Writes
<1>3. OwnMessages'
  BY DEF OwnMessages, Writes
<1>4. LocksFit'
  <2>1. \A c \in Chats : locked[c] # NoChat => call'[locked[c]] = call[locked[c]]
    BY DEF InboxTypeOK
  <2> QED
    BY <1>1, <2>1 DEF LocksFit
<1>5. UnreadIsCounted'
  BY <1>1 DEF UnreadIsCounted
<1> QED
  BY <1>2, <1>3, <1>4, <1>5

-----------------------------------------------------------------------------
(* What the API does.                                                        *)

\* What a step of a request changes in it keeps its type.
LEMMA CallTyped ==
  /\ \A v \in ChatCall : v.at # 3 =>
       /\ Onward(v) \in ChatCall
       /\ Onward(v).kind = v.kind /\ Onward(v).chat = v.chat
       /\ Onward(v).at = v.at + 1 /\ Onward(v).found = v.found
       /\ Onward(v).more = v.more /\ Onward(v).awaited = v.awaited
  /\ \A v \in ChatCall : \A S \in SUBSET Nat :
       /\ [v EXCEPT !.found = S] \in ChatCall
       /\ [v EXCEPT !.found = S].found = S /\ [v EXCEPT !.found = S].kind = v.kind
       /\ [v EXCEPT !.found = S].chat = v.chat /\ [v EXCEPT !.found = S].at = v.at
       /\ [v EXCEPT !.found = S].awaited = v.awaited
       /\ [v EXCEPT !.found = S].more = v.more
  /\ Idle \in ChatCall /\ Idle.kind = "none" /\ Idle.found = {} /\ ~ Idle.awaited
<1>1. ASSUME NEW v \in ChatCall, v.at # 3
      PROVE  /\ Onward(v) \in ChatCall
             /\ Onward(v).kind = v.kind /\ Onward(v).chat = v.chat
             /\ Onward(v).at = v.at + 1 /\ Onward(v).found = v.found
             /\ Onward(v).more = v.more /\ Onward(v).awaited = v.awaited
  BY <1>1 DEF ChatCall, Onward
<1>2. ASSUME NEW v \in ChatCall, NEW S \in SUBSET Nat
      PROVE  /\ [v EXCEPT !.found = S] \in ChatCall
             /\ [v EXCEPT !.found = S].found = S /\ [v EXCEPT !.found = S].kind = v.kind
             /\ [v EXCEPT !.found = S].chat = v.chat /\ [v EXCEPT !.found = S].at = v.at
             /\ [v EXCEPT !.found = S].awaited = v.awaited
             /\ [v EXCEPT !.found = S].more = v.more
  BY DEF ChatCall
<1>3. Idle \in ChatCall /\ Idle.kind = "none" /\ Idle.found = {} /\ ~ Idle.awaited
  <2>1. ("none" = "load") = FALSE
    OBVIOUS
  <2>2. Idle = [kind |-> "none", chat |-> NoChat, at |-> 1, found |-> {}, more |-> FALSE,
                awaited |-> FALSE]
    BY <2>1 DEF Idle, Asked
  <2> QED
    BY <2>2 DEF ChatCall
<1> QED
  BY <1>1, <1>2, <1>3

\* So does what a page of messages changes in it.
LEMMA FoundTyped ==
  ASSUME NEW v \in ChatCall, NEW S \in SUBSET Nat, NEW b \in BOOLEAN
  PROVE  /\ Paged(v, S, b) \in ChatCall
         /\ Paged(v, S, b).found = S
         /\ Paged(v, S, b).more = b
         /\ Paged(v, S, b).kind = v.kind
         /\ Paged(v, S, b).chat = v.chat
         /\ Paged(v, S, b).at = v.at
         /\ Paged(v, S, b).awaited = v.awaited
<1> DEFINE w == [v EXCEPT !.found = S]
<1>1. w \in ChatCall /\ w.found = S /\ w.kind = v.kind /\ w.chat = v.chat
      /\ w.at = v.at /\ w.awaited = v.awaited
  BY CallTyped
<1>2. Paged(v, S, b) = [w EXCEPT !.more = b]
  BY DEF Paged
<1> HIDE DEF w
<1> QED
  BY <1>1, <1>2 DEF ChatCall

\* A message that is inserted is nobody else's, and not seen yet.
LEMMA InsertKeeps ==
  ASSUME BadgeInv, NEW r \in Calls, NEW asked \in ChatCall, Insert(r, asked),
         asked.kind \in {"record", "send"}, asked.chat \in Chats, asked.at = 1,
         \A c \in Chats : locked[c] # r
  PROVE  BadgeInv'
<1> DEFINE m == Len(chat) + 1
<1> USE DEF BadgeInv
<1>1. /\ Len(chat) \in 0..MaxMessages /\ Messages = 1..Len(chat)
      /\ chat \in Seq(Chats)
      /\ \A c : Unread(c) \subseteq Messages
  BY MessagesAre DEF InboxTypeOK
<1>2. /\ chat' = Append(chat, asked.chat) /\ Len(chat) < MaxMessages
      /\ inbound' = IF asked.kind = "record" THEN inbound \cup {m} ELSE inbound
      /\ UNCHANGED <<stored, read, unread, locked, threadVars>>
  BY DEF Insert
<1>3. /\ chat' \in Seq(Chats) /\ Len(chat') = m /\ chat'[m] = asked.chat
      /\ \A x \in Messages : chat'[x] = chat[x]
  BY <1>1, <1>2, AppendProperties
<1>4. Messages' = 1..m /\ m \in 1..MaxMessages /\ m \notin Messages /\ Messages \subseteq Messages'
      /\ m \in Messages'
  <2>1. Messages' = 1..m
    BY <1>1, <1>3 DEF Messages
  <2> QED
    BY <1>1, <1>2, <2>1, InboxAssumption DEF InboxAssumption
<1>5. /\ call'[r] = [Onward(asked) EXCEPT !.found = {m}]
      /\ \A q \in Calls \ {r} : call'[q] = call[q]
      /\ call' = [call EXCEPT ![r] = [Onward(asked) EXCEPT !.found = {m}]]
  BY DEF Insert, Goes, InboxTypeOK
<1>6. /\ call'[r] \in ChatCall /\ call'[r].kind = asked.kind /\ call'[r].chat = asked.chat
      /\ call'[r].at = 2 /\ call'[r].found = {m}
  <2>1. m \in Nat
    BY <1>1
  <2>2. call'[r] = [Onward(asked) EXCEPT !.found = {m}]
    BY <1>5
  <2>3. /\ Onward(asked) \in ChatCall /\ Onward(asked).at = 2
        /\ Onward(asked).kind = asked.kind /\ Onward(asked).chat = asked.chat
    BY CallTyped
  <2> HIDE DEF m
  <2> QED
    BY <2>1, <2>2, <2>3, CallTyped
<1>7. InboxTypeOK'
  <2>1. call' \in [Calls -> ChatCall]
    BY <1>5, <1>6 DEF InboxTypeOK
  <2>2. \A q \in Calls : call'[q].found \subseteq Messages'
    BY <1>4, <1>5, <1>6 DEF InboxTypeOK
  <2>3. inbound' \subseteq Messages' /\ stored' \subseteq Messages'
        /\ read' \subseteq stored' \cap inbound'
    BY <1>2, <1>4 DEF InboxTypeOK
  <2>4. thread' \in Seq(Messages')
    <3>1. thread' = thread /\ thread \in Seq(Messages)
      BY <1>2 DEF threadVars, InboxTypeOK
    <3> QED
      BY <1>4, <3>1, SeqMonotonic
  <2> QED
    BY <1>2, <1>3, <1>4, <2>1, <2>2, <2>3, <2>4 DEF InboxTypeOK, threadVars
<1>8. \A c : Unread(c)' = Unread(c)
  <2>1. (stored' \cap inbound') \ read' = (stored \cap inbound) \ read
    BY <1>2, <1>4 DEF InboxTypeOK
  <2>2. (stored \cap inbound) \ read \subseteq Messages
    BY DEF InboxTypeOK
  <2> QED
    BY <1>3, <2>1, <2>2 DEF Unread
<1>9. CallsFit'
  <2>1. CallFits(r)'
    <3>1. m \in inbound' <=> asked.kind = "record"
      BY <1>2, <1>4 DEF InboxTypeOK
    <3>2. {m} \cap stored' = {}
      BY <1>2, <1>4 DEF InboxTypeOK
    <3> QED
      BY <1>3, <1>4, <1>5, <1>6, <3>1, <3>2 DEF CallFits, Writes
  <2>2. ASSUME NEW q \in Calls \ {r} PROVE CallFits(q)'
    <3>1. CallFits(q) /\ call'[q] = call[q] /\ call[q].found \subseteq Messages
      BY <1>5 DEF CallsFit, InboxTypeOK
    <3>2. \A x \in Messages : chat'[x] = chat[x] /\ (x \in inbound' <=> x \in inbound)
      BY <1>2, <1>3, <1>4
    <3> QED
      BY <1>2, <1>4, <3>1, <3>2 DEF CallFits, Writes
  <2> QED
    BY <2>1, <2>2 DEF CallsFit
<1>10. OwnMessages'
  BY <1>4, <1>5, <1>6 DEF OwnMessages, Writes, InboxTypeOK
<1>11. LocksFit'
  <2>1. \A c \in Chats : locked[c] # NoChat => call'[locked[c]] = call[locked[c]]
    BY <1>5 DEF InboxTypeOK
  <2> QED
    BY <1>2, <1>8, <2>1 DEF LocksFit
<1>12. UnreadIsCounted'
  BY <1>2, <1>8 DEF UnreadIsCounted
<1> QED
  BY <1>7, <1>9, <1>10, <1>11, <1>12

\* A request that locks a conversation.
LEMMA TouchKeeps ==
  ASSUME BadgeInv, NEW r \in Calls, Touch(r)
  PROVE  BadgeInv'
<1> DEFINE c == call[r].chat
<1> USE DEF BadgeInv
<1>1. /\ (Writes(r) /\ call[r].at = 2) \/ (call[r].kind = "read" /\ call[r].at = 1)
      /\ CallFits(r) /\ c \in Chats
  <2>1. (Writes(r) /\ call[r].at = 2) \/ (call[r].kind = "read" /\ call[r].at = 1)
    BY AtKinds DEF Touch
  <2>2. CallFits(r)
    BY DEF CallsFit
  <2> QED
    BY <2>1, <2>2 DEF CallFits
<1>2. /\ locked[c] = NoChat /\ locked' = [locked EXCEPT ![c] = r]
      /\ call' = [call EXCEPT ![r] = Onward(call[r])]
      /\ UNCHANGED <<chat, inbound, stored, read, unread, threadVars>>
  BY DEF Touch, Goes
<1>3. /\ call'[r] \in ChatCall /\ call'[r].kind = call[r].kind /\ call'[r].chat = c
      /\ call'[r].at = call[r].at + 1 /\ call'[r].found = call[r].found
      /\ \A q \in Calls \ {r} : call'[q] = call[q]
  <2>1. call'[r] = Onward(call[r]) /\ \A q \in Calls \ {r} : call'[q] = call[q]
    BY <1>2 DEF InboxTypeOK
  <2>2. call[r].at # 3 /\ call[r] \in ChatCall
    BY <1>1 DEF InboxTypeOK
  <2> QED
    BY <2>1, <2>2, CallTyped
<1>4. Messages' = Messages /\ \A x : Unread(x)' = Unread(x)
  BY <1>2 DEF Messages, Unread
<1>5. InboxTypeOK'
  <2>1. call' \in [Calls -> ChatCall] /\ \A q \in Calls : call'[q].found \subseteq Messages'
    BY <1>2, <1>3, <1>4 DEF InboxTypeOK
  <2>2. locked' \in [Chats -> Calls \cup {NoChat}]
    BY <1>1, <1>2 DEF InboxTypeOK
  <2> QED
    BY <1>2, <1>4, <2>1, <2>2 DEF InboxTypeOK, threadVars
<1>6. CallsFit'
  <2>1. CallFits(r)'
    BY <1>1, <1>2, <1>3, <1>4 DEF CallFits, Writes
  <2>2. \A q \in Calls \ {r} : CallFits(q)'
    BY <1>2, <1>3, <1>4 DEF CallsFit, CallFits, Writes
  <2> QED
    BY <2>1, <2>2 DEF CallsFit
<1>7. OwnMessages'
  BY <1>3 DEF OwnMessages, Writes
<1>8. LocksFit'
  <2>1. \A x \in Chats : locked[x] # r
    BY <1>1, Unlocked
  <2>2. \A x \in Chats \ {c} : locked'[x] = locked[x]
    BY <1>1, <1>2 DEF InboxTypeOK
  <2>3. \A x \in Chats \ {c} : locked[x] # NoChat => call'[locked[x]] = call[locked[x]]
    BY <1>3, <2>1 DEF InboxTypeOK
  <2>4. locked'[c] = r /\ (Writes(r) => call[r].found \cap stored = {})
    BY <1>1, <1>2 DEF InboxTypeOK, CallFits
  <2>5. ASSUME NEW x \in Chats \ {c}, locked'[x] # NoChat
        PROVE  /\ call'[locked'[x]].chat = x
               /\ \/ /\ call'[locked'[x]].kind \in {"record", "send"} /\ call'[locked'[x]].at = 3
                     /\ call'[locked'[x]].found \cap stored' = {}
                  \/ /\ call'[locked'[x]].kind = "read" /\ call'[locked'[x]].at # 1
                     /\ call'[locked'[x]].at = 3 => call'[locked'[x]].found = Unread(x)'
    BY <1>2, <1>4, <2>2, <2>3, <2>5 DEF LocksFit
  <2>6. /\ call'[r].chat = c
        /\ \/ call'[r].kind \in {"record", "send"} /\ call'[r].at = 3
              /\ call'[r].found \cap stored' = {}
           \/ call'[r].kind = "read" /\ call'[r].at = 2
    BY <1>1, <1>2, <1>3, <2>4 DEF Writes
  <2> QED
    BY <2>4, <2>5, <2>6 DEF LocksFit
<1>9. UnreadIsCounted'
  BY <1>2, <1>4 DEF UnreadIsCounted
<1> QED
  BY <1>5, <1>6, <1>7, <1>8, <1>9

\* A request that marks the messages nobody has read.
LEMMA MarkKeeps ==
  ASSUME BadgeInv, NEW r \in Calls, MarkRead(r)
  PROVE  BadgeInv'
<1> DEFINE c == call[r].chat
<1> USE DEF BadgeInv
<1>1. /\ call[r].kind = "read" /\ call[r].at = 2 /\ call[r] \in ChatCall
      /\ CallFits(r) /\ c \in Chats
  <2>1. call[r].kind = "read" /\ call[r].at = 2
    BY AtKinds DEF MarkRead
  <2>2. CallFits(r) /\ call[r] \in ChatCall
    BY DEF CallsFit, InboxTypeOK
  <2> QED
    BY <2>1, <2>2 DEF CallFits
<1>2. UNCHANGED <<chat, inbound, stored, read, unread, locked, active, thread, older, astray>>
  BY DEF MarkRead, messageVars, threadVars
<1>3. /\ Messages' = Messages /\ \A x : Unread(x)' = Unread(x)
      /\ \A x : Unread(x) \subseteq Messages /\ Unread(x) \in SUBSET Nat
  <2>1. Messages' = Messages /\ \A x : Unread(x)' = Unread(x)
    BY <1>2 DEF Messages, Unread
  <2>2. \A x : Unread(x) \subseteq Messages /\ Messages \subseteq Nat
    BY MessagesAre
  <2> QED
    BY <2>1, <2>2
<1>4. /\ call' = [call EXCEPT ![r] = [Onward(call[r]) EXCEPT !.found = Unread(c)]]
      /\ call'[r] = [Onward(call[r]) EXCEPT !.found = Unread(c)]
      /\ \A q \in Calls \ {r} : call'[q] = call[q]
  BY DEF MarkRead, Goes, InboxTypeOK
<1>5. /\ call'[r] \in ChatCall /\ call'[r].kind = "read" /\ call'[r].chat = c
      /\ call'[r].at = 3 /\ call'[r].found = Unread(c)
  <2>1. /\ Onward(call[r]) \in ChatCall /\ Onward(call[r]).kind = "read"
        /\ Onward(call[r]).chat = c /\ Onward(call[r]).at = 3
    BY <1>1, CallTyped
  <2>2. Unread(c) \in SUBSET Nat
    BY <1>3
  <2> DEFINE o == Onward(call[r])
             u == Unread(c)
  <2>3. call'[r] = [o EXCEPT !.found = u]
    BY <1>4
  <2> HIDE DEF o, u
  <2>4. o \in ChatCall /\ o.kind = "read" /\ o.chat = c /\ o.at = 3 /\ u \in SUBSET Nat
    BY <2>1, <2>2 DEF o, u
  <2>5. /\ call'[r] \in ChatCall /\ call'[r].kind = "read" /\ call'[r].chat = c
        /\ call'[r].at = 3 /\ call'[r].found = u
    BY <2>3, <2>4, CallTyped
  <2> QED
    BY <2>5 DEF u
<1>6. InboxTypeOK'
  <2>1. call' \in [Calls -> ChatCall] /\ \A q \in Calls : call'[q].found \subseteq Messages'
    BY <1>3, <1>4, <1>5 DEF InboxTypeOK
  <2> QED
    BY <1>2, <1>3, <2>1 DEF InboxTypeOK
<1>7. CallsFit'
  <2>1. CallFits(r)'
    BY <1>1, <1>5 DEF CallFits, Writes
  <2>2. \A q \in Calls \ {r} : CallFits(q)'
    BY <1>2, <1>3, <1>4 DEF CallsFit, CallFits, Writes
  <2> QED
    BY <2>1, <2>2 DEF CallsFit
<1>8. OwnMessages'
  BY <1>4, <1>5 DEF OwnMessages, Writes
<1>9. LocksFit'
  <2> SUFFICES ASSUME NEW x \in Chats, locked[x] # NoChat
               PROVE  /\ call'[locked[x]].chat = x
                      /\ \/ /\ call'[locked[x]].kind \in {"record", "send"}
                            /\ call'[locked[x]].at = 3
                            /\ call'[locked[x]].found \cap stored = {}
                         \/ /\ call'[locked[x]].kind = "read" /\ call'[locked[x]].at # 1
                            /\ call'[locked[x]].at = 3 => call'[locked[x]].found = Unread(x)
    BY <1>2, <1>3 DEF LocksFit
  <2>1. CASE locked[x] = r
    BY <1>1, <1>5, <2>1 DEF LocksFit
  <2>2. CASE locked[x] # r
    BY <1>4, <2>2 DEF LocksFit, InboxTypeOK
  <2> QED
    BY <2>1, <2>2
<1>10. UnreadIsCounted'
  BY <1>2, <1>3 DEF UnreadIsCounted
<1> QED
  BY <1>6, <1>7, <1>8, <1>9, <1>10

\* The conversation of a transaction that commits, and what it has done.
LEMMA Committing ==
  ASSUME BadgeInv, NEW r \in Calls, Commit(r)
  PROVE  /\ call[r].chat \in Chats /\ call[r].at = 3 /\ locked[call[r].chat] = r
         /\ \A x \in Chats : locked[x] = r => x = call[r].chat
         /\ call[r].kind \in {"record", "send", "read"}
         /\ call[r].kind = "read" => call[r].found = Unread(call[r].chat)
         /\ Writes(r) => \E m \in Messages \ stored :
              /\ call[r].found = {m} /\ chat[m] = call[r].chat
              /\ m \in inbound <=> call[r].kind = "record"
<1> USE DEF BadgeInv
<1>1. PICK c \in Chats : locked[c] = r
  BY DEF Commit
<1>2. r # NoChat
  BY InboxAssumption DEF InboxAssumption
<1>3. /\ call[r].chat = c
      /\ \/ call[r].kind \in {"record", "send"} /\ call[r].found \cap stored = {}
         \/ call[r].kind = "read" /\ (call[r].at = 3 => call[r].found = Unread(c))
  BY <1>1, <1>2 DEF LocksFit
<1>4. call[r].at = 3
  BY <1>3, AtKinds DEF Commit, Writes
<1>5. \A x \in Chats : locked[x] = r => x = c
  BY <1>2, <1>3 DEF LocksFit
<1>6. Writes(r) => \E m \in Messages : /\ call[r].found = {m} /\ chat[m] = c
                                       /\ m \in inbound <=> call[r].kind = "record"
  BY <1>3, <1>4 DEF CallsFit, CallFits
<1>7. Writes(r) => call[r].found \cap stored = {}
  BY <1>3 DEF Writes
<1> QED
  BY <1>1, <1>3, <1>4, <1>5, <1>6, <1>7

\* What is unread once a transaction has committed, and what is counted.
LEMMA CommitCounts ==
  ASSUME BadgeInv, NEW r \in Calls, Commit(r)
  PROVE  /\ \A x \in Chats : x # call[r].chat => Unread(x)' = Unread(x)
         /\ UnreadIsCounted' /\ unread' \in [Chats -> Nat]
         /\ read' \subseteq stored' \cap inbound /\ stored' \subseteq Messages
<1> USE DEF BadgeInv
<1> PICK c : c = call[r].chat
  OBVIOUS
<1>1. /\ c \in Chats /\ call[r].kind \in {"record", "send", "read"}
      /\ call[r].kind = "read" => call[r].found = Unread(c)
      /\ Writes(r) => \E m \in Messages \ stored :
           call[r].found = {m} /\ chat[m] = c /\ (m \in inbound <=> call[r].kind = "record")
  BY Committing
<1>2. /\ unread' = [unread EXCEPT ![c] = Counted(r)]
      /\ UNCHANGED <<chat, inbound>>
      /\ call[r].kind = "read" => read' = read \cup call[r].found /\ UNCHANGED stored
      /\ call[r].kind # "read" => stored' = stored \cup call[r].found /\ UNCHANGED read
  BY DEF Commit
<1>3. /\ inbound \subseteq Messages /\ stored \subseteq Messages /\ read \subseteq stored \cap inbound
      /\ unread \in [Chats -> Nat] /\ \A x \in Chats : unread[x] = Cardinality(Unread(x))
      /\ IsFiniteSet(Unread(c))
  BY MessagesAre DEF InboxTypeOK, UnreadIsCounted
<1>4. /\ Counted(r) \in Nat /\ Counted(r) = Cardinality(Unread(c)')
      /\ \A x \in Chats : x # c => Unread(x)' = Unread(x)
      /\ read' \subseteq stored' \cap inbound /\ stored' \subseteq Messages
  <2>1. CASE call[r].kind = "record"
    <3>1. PICK m \in Messages \ stored :
            call[r].found = {m} /\ chat[m] = c /\ m \in inbound
      BY <1>1, <2>1 DEF Writes
    <3>2. stored' = stored \cup {m} /\ read' = read
      BY <1>2, <2>1, <3>1
    <3>3. Unread(c)' = Unread(c) \cup {m} /\ m \notin Unread(c)
      <4>1. m \notin Unread(c) /\ m \notin read /\ m \in inbound
        BY <1>3, <3>1 DEF Unread
      <4>2. Unread(c)' = {x \in ((stored \cup {m}) \cap inbound) \ read : chat[x] = c}
        BY <1>2, <3>2 DEF Unread
      <4>3. ASSUME NEW x PROVE x \in Unread(c)' <=> x \in Unread(c) \/ x = m
        BY <3>1, <4>1, <4>2 DEF Unread
      <4> QED
        BY <4>1, <4>3
    <3>4. Cardinality(Unread(c) \cup {m}) = Cardinality(Unread(c)) + 1
      BY <1>3, <3>3, FS_AddElement
    <3>5. Counted(r) = unread[c] + 1
      BY <2>1 DEF Counted
    <3>6. \A x \in Chats : x # c => Unread(x)' = Unread(x)
      BY <1>2, <3>1, <3>2 DEF Unread
    <3>7. unread[c] \in Nat /\ unread[c] = Cardinality(Unread(c))
      BY <1>1, <1>3
    <3>8. Counted(r) \in Nat /\ Counted(r) = Cardinality(Unread(c)')
      BY <3>3, <3>4, <3>5, <3>7
    <3> QED
      BY <1>3, <3>1, <3>2, <3>6, <3>8
  <2>2. CASE call[r].kind = "send"
    <3>1. PICK m \in Messages \ stored :
            call[r].found = {m} /\ m \notin inbound
      BY <1>1, <2>2 DEF Writes
    <3>2. stored' = stored \cup {m} /\ read' = read
      BY <1>2, <2>2, <3>1
    <3>3. \A x : Unread(x)' = Unread(x)
      BY <1>2, <3>1, <3>2 DEF Unread
    <3>4. Counted(r) = unread[c]
      BY <2>2 DEF Counted
    <3> QED
      BY <1>1, <1>3, <3>1, <3>2, <3>3, <3>4
  <2>3. CASE call[r].kind = "read"
    <3>1. read' = read \cup Unread(c) /\ stored' = stored
      BY <1>1, <1>2, <2>3
    <3>2. ASSUME NEW x
          PROVE  Unread(x)' = {y \in (stored \cap inbound) \ (read \cup Unread(c)) : chat[y] = x}
      BY <1>2, <3>1 DEF Unread
    <3>3. Unread(c)' = {}
      <4>1. \A y \in Unread(c)' : y \in Unread(c) /\ y \notin Unread(c)
        BY <3>2 DEF Unread
      <4> QED
        BY <4>1
    <3>4. ASSUME NEW x \in Chats, x # c PROVE Unread(x)' = Unread(x)
      <4>1. \A y \in Unread(c) : chat[y] # x
        BY <3>4 DEF Unread
      <4>2. ASSUME NEW y PROVE y \in Unread(x)' <=> y \in Unread(x)
        BY <3>2, <4>1 DEF Unread
      <4> QED
        BY <4>2
    <3>5. Counted(r) = 0 /\ Cardinality(Unread(c)') = 0
      BY <2>3, <3>3, FS_EmptySet DEF Counted
    <3>6. Unread(c) \subseteq stored \cap inbound
      BY DEF Unread
    <3> QED
      BY <1>2, <1>3, <3>1, <3>4, <3>5, <3>6
  <2> QED
    BY <1>1, <2>1, <2>2, <2>3
<1>5. unread' \in [Chats -> Nat] /\ unread'[c] = Counted(r)
      /\ \A x \in Chats : x # c => unread'[x] = unread[x]
  BY <1>1, <1>2, <1>3, <1>4
<1>6. UnreadIsCounted'
  <2>1. ASSUME NEW x \in Chats PROVE unread'[x] = Cardinality(Unread(x)')
    <3>1. CASE x = c
      BY <1>4, <1>5, <3>1
    <3>2. CASE x # c
      <4>1. Unread(x)' = Unread(x) /\ unread'[x] = unread[x]
        BY <1>4, <1>5, <3>2
      <4> QED
        BY <1>3, <4>1
    <3> QED
      BY <3>1, <3>2
  <2> QED
    BY <2>1 DEF UnreadIsCounted
<1> QED
  BY <1>4, <1>5, <1>6

\* A transaction that commits.
LEMMA CommitKeeps ==
  ASSUME BadgeInv, NEW r \in Calls, Commit(r)
  PROVE  BadgeInv'
<1> DEFINE c == call[r].chat
<1> USE DEF BadgeInv
<1>1. /\ c \in Chats /\ call[r].at = 3 /\ locked[c] = r
      /\ \A x \in Chats : locked[x] = r => x = c
      /\ call[r].kind \in {"record", "send", "read"}
  BY Committing
<1>2. /\ \A x \in Chats : x # c => Unread(x)' = Unread(x)
      /\ UnreadIsCounted' /\ unread' \in [Chats -> Nat]
      /\ read' \subseteq stored' \cap inbound /\ stored' \subseteq Messages
  BY CommitCounts
<1>3. /\ locked' = [locked EXCEPT ![c] = NoChat]
      /\ call' = [call EXCEPT ![r] = IF call[r].kind = "send" THEN call[r] ELSE Idle]
      /\ UNCHANGED <<chat, inbound, active, thread, older, astray>>
      /\ stored' = stored \/ (Writes(r) /\ stored' = stored \cup call[r].found)
  BY <1>1 DEF Commit, Goes, threadVars, Writes
<1>4. Messages' = Messages
  BY <1>3 DEF Messages
<1>5. /\ \A q \in Calls : q # r => call'[q] = call[q]
      /\ (call'[r] = call[r] /\ call[r].kind = "send") \/ call'[r] = Idle
      /\ Idle \in ChatCall /\ Idle.kind = "none" /\ Idle.found = {}
  BY <1>3, CallTyped DEF InboxTypeOK
<1>6. InboxTypeOK'
  <2>1. call' \in [Calls -> ChatCall] /\ \A q \in Calls : call'[q].found \subseteq Messages
    BY <1>3, <1>5 DEF InboxTypeOK
  <2>2. locked' \in [Chats -> Calls \cup {NoChat}]
    BY <1>1, <1>3 DEF InboxTypeOK
  <2> QED
    BY <1>2, <1>3, <1>4, <2>1, <2>2 DEF InboxTypeOK
<1>7. \A q \in Calls : q # r /\ Writes(q) => call[q].found \cap stored' = call[q].found \cap stored
  BY <1>3 DEF OwnMessages
<1>8. CallsFit'
  <2>1. CallFits(r)'
    <3>1. CASE call'[r] = Idle
      BY <1>5, <3>1 DEF CallFits, Writes
    <3>2. CASE call'[r] = call[r] /\ call[r].kind = "send"
      BY <1>1, <1>3, <1>4, <3>2 DEF CallsFit, CallFits, Writes
    <3> QED
      BY <1>5, <3>1, <3>2
  <2>2. ASSUME NEW q \in Calls \ {r} PROVE CallFits(q)'
    <3>1. call'[q] = call[q] /\ CallFits(q)
      BY <1>5 DEF CallsFit
    <3> QED
      BY <1>3, <1>4, <1>7, <3>1 DEF CallFits, Writes
  <2> QED
    BY <2>1, <2>2 DEF CallsFit
<1>9. OwnMessages'
  <2>1. \A q \in Calls : Writes(q)' => Writes(q) /\ call'[q] = call[q]
    BY <1>5 DEF Writes
  <2> QED
    BY <2>1 DEF OwnMessages
<1>10. LocksFit'
  <2> SUFFICES ASSUME NEW x \in Chats, locked'[x] # NoChat
               PROVE  /\ call'[locked'[x]].chat = x
                      /\ \/ /\ call'[locked'[x]].kind \in {"record", "send"}
                            /\ call'[locked'[x]].at = 3
                            /\ call'[locked'[x]].found \cap stored' = {}
                         \/ /\ call'[locked'[x]].kind = "read" /\ call'[locked'[x]].at # 1
                            /\ call'[locked'[x]].at = 3 =>
                                 call'[locked'[x]].found = Unread(x)'
    BY DEF LocksFit
  <2>1. x # c /\ locked'[x] = locked[x] /\ locked[x] # r /\ locked[x] \in Calls
    BY <1>1, <1>3 DEF InboxTypeOK
  <2>2. call'[locked'[x]] = call[locked[x]] /\ Unread(x)' = Unread(x)
    BY <1>2, <1>5, <2>1
  <2>3. Writes(locked[x]) => call[locked[x]].found \cap stored' = call[locked[x]].found \cap stored
    BY <1>7, <2>1
  <2> QED
    BY <2>1, <2>2, <2>3 DEF LocksFit, Writes
<1> QED
  BY <1>2, <1>6, <1>8, <1>9, <1>10

\* A request that fails takes back what it had not committed.
LEMMA LoseKeeps ==
  ASSUME BadgeInv, NEW r \in Calls, LoseCall(r)
  PROVE  BadgeInv'
<1> USE DEF BadgeInv
<1>1. /\ locked' = [c \in Chats |-> IF locked[c] = r THEN NoChat ELSE locked[c]]
      /\ call' = [call EXCEPT ![r] = Idle]
      /\ UNCHANGED <<chat, inbound, stored, read, unread, active, thread, older, astray>>
  BY DEF LoseCall, Goes, threadVars
<1>2. Messages' = Messages /\ \A x : Unread(x)' = Unread(x)
  BY <1>1 DEF Messages, Unread
<1>3. /\ \A q \in Calls : q # r => call'[q] = call[q]
      /\ call'[r] = Idle /\ Idle \in ChatCall /\ Idle.kind = "none" /\ Idle.found = {}
  BY <1>1, CallTyped DEF InboxTypeOK
<1>4. InboxTypeOK'
  <2>1. call' \in [Calls -> ChatCall] /\ \A q \in Calls : call'[q].found \subseteq Messages
    BY <1>1, <1>3 DEF InboxTypeOK
  <2>2. locked' \in [Chats -> Calls \cup {NoChat}]
    BY <1>1 DEF InboxTypeOK
  <2> QED
    BY <1>1, <1>2, <2>1, <2>2 DEF InboxTypeOK
<1>5. CallsFit'
  BY <1>1, <1>2, <1>3 DEF CallsFit, CallFits, Writes
<1>6. OwnMessages'
  <2>1. \A q \in Calls : Writes(q)' => Writes(q) /\ call'[q] = call[q]
    BY <1>3 DEF Writes
  <2> QED
    BY <2>1 DEF OwnMessages
<1>7. LocksFit'
  <2>1. \A x \in Chats : locked'[x] # NoChat =>
          locked'[x] = locked[x] /\ call'[locked[x]] = call[locked[x]]
    BY <1>1, <1>3 DEF InboxTypeOK
  <2> QED
    BY <1>1, <1>2, <2>1 DEF LocksFit
<1>8. UnreadIsCounted'
  BY <1>1, <1>2 DEF UnreadIsCounted
<1> QED
  BY <1>4, <1>5, <1>6, <1>7, <1>8

\* A page of messages: of the conversation, older than the cursor, and not empty when there
\* are more.
LEMMA PageFetched ==
  ASSUME BadgeInv, NEW r \in Calls, Fetch(r)
  PROVE  /\ call[r].kind \in {"load", "older"} /\ call[r].at = 1 /\ UNCHANGED messageVars
         /\ call' \in [Calls -> ChatCall] /\ \A q \in Calls \ {r} : call'[q] = call[q]
         /\ call'[r].kind = call[r].kind /\ call'[r].chat = call[r].chat
         /\ call'[r].awaited = call[r].awaited /\ call'[r].at = 2
         /\ call'[r].found \subseteq Messages
         /\ \A m \in call'[r].found :
              chat[m] = call[r].chat /\ \A n \in call[r].found : m < n
         /\ call'[r].more => call'[r].found # {}
<1> DEFINE before == {m \in stored : chat[m] = call[r].chat /\ \A n \in call[r].found : m < n}
           page == {m \in before : Cardinality({n \in before : n > m}) < ThreadPage}
           more == before # page
           v == Onward(call[r])
<1> USE DEF BadgeInv
<1>1. call[r].kind \in {"load", "older"} /\ call[r].at = 1 /\ call[r] \in ChatCall
  BY AtKinds DEF Fetch, InboxTypeOK
<1>2. /\ Len(chat) \in Nat /\ Messages = 1..Len(chat) /\ stored \subseteq Messages
      /\ Messages \subseteq Nat
  BY MessagesAre DEF InboxTypeOK
<1>3. page \subseteq Messages /\ page \in SUBSET Nat
      /\ \A m \in page : chat[m] = call[r].chat /\ \A n \in call[r].found : m < n
  BY <1>2
<1>4. more => page # {}
  <2> SUFFICES ASSUME before # {} PROVE page # {}
    OBVIOUS
  <2>1. before \in SUBSET (1..Len(chat))
    BY <1>2
  <2> HIDE DEF before
  <2>2. PICK m \in before : Cardinality({k \in before : k > m}) = 0
    BY <1>2, <2>1, Newest
  <2>3. 0 < ThreadPage
    BY InboxAssumption DEF InboxAssumption
  <2> QED
    BY <2>2, <2>3
<1>5. /\ v \in ChatCall /\ v.kind = call[r].kind /\ v.chat = call[r].chat
      /\ v.awaited = call[r].awaited /\ v.at = 2
  BY <1>1, CallTyped
<1>6. call' = [call EXCEPT ![r] = Paged(v, page, more)] /\ UNCHANGED messageVars
  BY DEF Fetch, Goes
<1> HIDE DEF page, v, more
<1>7. more \in BOOLEAN
  BY DEF more
<1>8. /\ Paged(v, page, more) \in ChatCall
      /\ Paged(v, page, more).found = page
      /\ Paged(v, page, more).more = more
      /\ Paged(v, page, more).kind = v.kind
      /\ Paged(v, page, more).chat = v.chat
      /\ Paged(v, page, more).at = v.at
      /\ Paged(v, page, more).awaited = v.awaited
  BY <1>3, <1>5, <1>7, FoundTyped
<1>9. /\ call'[r] = Paged(v, page, more)
      /\ \A q \in Calls \ {r} : call'[q] = call[q]
      /\ call' \in [Calls -> ChatCall]
  BY <1>6, <1>8 DEF InboxTypeOK
<1> QED
  BY <1>1, <1>3, <1>4, <1>5, <1>6, <1>8, <1>9

\* The types of a step of the page.
LEMMA PageTyped ==
  ASSUME InboxTypeOK, UNCHANGED messageVars, call' \in [Calls -> ChatCall],
         \A q \in Calls : call'[q].found \subseteq Messages,
         active' \in Chats \cup {NoChat}, thread' \in Seq(Messages), older' \in Messages \cup {0},
         astray' \in BOOLEAN
  PROVE  InboxTypeOK'
<1>1. Messages' = Messages /\ UNCHANGED <<chat, inbound, stored, read, unread, locked>>
  BY DEF Messages, messageVars
<1> QED
  BY <1>1 DEF InboxTypeOK

\* A page that is fetched.
LEMMA FetchKeeps ==
  ASSUME BadgeInv, NEW r \in Calls, Fetch(r)
  PROVE  BadgeInv'
<1> USE DEF BadgeInv
<1>1. /\ call[r].kind \in {"load", "older"} /\ call[r].at = 1 /\ UNCHANGED messageVars
      /\ call' \in [Calls -> ChatCall] /\ \A q \in Calls \ {r} : call'[q] = call[q]
      /\ call'[r].kind = call[r].kind /\ call'[r].chat = call[r].chat
      /\ call'[r].at = 2 /\ call'[r].found \subseteq Messages
      /\ \A m \in call'[r].found : chat[m] = call[r].chat
      /\ call'[r].more => call'[r].found # {}
  BY PageFetched
<1>2. InboxTypeOK'
  <2>1. UNCHANGED <<active, thread, older, astray>>
    BY DEF Fetch, threadVars
  <2>2. \A q \in Calls : call'[q].found \subseteq Messages
    BY <1>1 DEF InboxTypeOK
  <2> QED
    BY <1>1, <2>1, <2>2, PageTyped DEF InboxTypeOK
<1>3. CallFits(r)' /\ ~ Writes(r)' /\ \A c \in Chats : locked[c] # r
  <2>1. \A c \in Chats : locked[c] # r
    BY <1>1, Unlocked
  <2>2. ~ Writes(r)'
    BY <1>1 DEF Writes
  <2>3. chat' = chat
    BY <1>1 DEF messageVars
  <2>4. CallFits(r)'
    BY <1>1, <2>2, <2>3 DEF CallFits
  <2> QED
    BY <2>1, <2>2, <2>4
<1>4. CallsFit' /\ OwnMessages' /\ LocksFit' /\ UnreadIsCounted'
  BY <1>1, <1>3, CallsMove
<1> QED
  BY <1>2, <1>4

\* A request the page begins.
LEMMA AskedIs ==
  ASSUME NEW k \in {"send", "read", "load", "older"}, NEW c, NEW S
  PROVE  /\ Asked(k, c, S).kind = k /\ Asked(k, c, S).chat = c /\ Asked(k, c, S).at = 1
         /\ Asked(k, c, S).found = S /\ ~ Asked(k, c, S).more
         /\ Asked(k, c, S).awaited <=> k = "load"
         /\ c \in Chats \cup {NoChat} /\ S \in SUBSET Nat => Asked(k, c, S) \in ChatCall
<1>1. PICK b \in BOOLEAN : b = (k = "load")
  OBVIOUS
<1>2. Asked(k, c, S) = [kind |-> k, chat |-> c, at |-> 1, found |-> S, more |-> FALSE,
                        awaited |-> b]
  BY <1>1 DEF Asked
<1>3. k \in {"none", "record", "send", "read", "load", "older"}
  OBVIOUS
<1>4. c \in Chats \cup {NoChat} /\ S \in SUBSET Nat => Asked(k, c, S) \in ChatCall
  BY <1>1, <1>2, <1>3 DEF ChatCall
<1>5. Asked(k, c, S).awaited = b
  BY <1>2
<1>6. /\ Asked(k, c, S).kind = k /\ Asked(k, c, S).chat = c /\ Asked(k, c, S).at = 1
      /\ Asked(k, c, S).found = S /\ Asked(k, c, S).more = FALSE
  BY <1>2
<1> QED
  BY <1>1, <1>4, <1>5, <1>6

\* A conversation that is opened begins two requests, and no longer waits for another.
LEMMA Opening ==
  ASSUME InboxTypeOK, NEW c \in Chats, NEW r \in Calls, NEW s \in Calls, OpenChat(c, r, s)
  PROVE  /\ r # s /\ call[r].kind = "none" /\ call[s].kind = "none"
         /\ call'[r] = Asked("load", c, {}) /\ call'[s] = Asked("read", c, {})
         /\ call' \in [Calls -> ChatCall]
         /\ \A q \in Calls \ {r, s} :
              \/ call[q].kind # "load" /\ call'[q] = call[q]
              \/ /\ call[q].kind = "load" /\ call'[q].kind = "load" /\ ~ call'[q].awaited
                 /\ call'[q].chat = call[q].chat /\ call'[q].at = call[q].at
                 /\ call'[q].found = call[q].found /\ call'[q].more = call[q].more
         /\ UNCHANGED messageVars
         /\ active' = c /\ thread' = <<>> /\ older' = 0 /\ astray' \in BOOLEAN
<1>1. /\ r # s /\ call[r].kind = "none" /\ call[s].kind = "none"
      /\ UNCHANGED messageVars /\ active' = c /\ thread' = <<>> /\ older' = 0
  BY DEF OpenChat, Numbered, Spare, Under
<1>2. call' = [q \in Calls |->
        CASE q = r -> Asked("load", c, {})
          [] q = s -> Asked("read", c, {})
          [] q \in Under({"load"}) -> [call[q] EXCEPT !.awaited = FALSE]
          [] OTHER -> call[q]]
  BY DEF OpenChat
<1>3. call'[r] = Asked("load", c, {}) /\ call'[s] = Asked("read", c, {})
  <2>1. r \notin Under({"load"}) /\ s \notin Under({"load"})
    BY <1>1 DEF Under
  <2> HIDE DEF Asked
  <2> QED
    BY <1>1, <1>2, <2>1
<1>4. ASSUME NEW q \in Calls \ {r, s}
      PROVE  /\ call[q].kind = "load" => call'[q] = [call[q] EXCEPT !.awaited = FALSE]
             /\ call[q].kind # "load" => call'[q] = call[q]
  BY <1>2 DEF Under
<1>5. ASSUME NEW q \in Calls \ {r, s}, call[q].kind = "load"
      PROVE  /\ call'[q] \in ChatCall /\ call'[q].kind = "load" /\ ~ call'[q].awaited
             /\ call'[q].chat = call[q].chat /\ call'[q].at = call[q].at
             /\ call'[q].found = call[q].found /\ call'[q].more = call[q].more
  BY <1>4, <1>5 DEF InboxTypeOK, ChatCall
<1>6. \A q \in Calls : call'[q] \in ChatCall
  <2>1. Asked("load", c, {}) \in ChatCall /\ Asked("read", c, {}) \in ChatCall
    BY AskedIs
  <2> QED
    BY <1>3, <1>4, <1>5, <2>1 DEF InboxTypeOK
<1>7. call' \in [Calls -> ChatCall]
  <2>1. DOMAIN call' = Calls /\ call' = [q \in Calls |-> call'[q]]
    BY <1>2
  <2> QED
    BY <1>6, <2>1
<1>8. astray' \in BOOLEAN
  BY DEF OpenChat
<1> QED
  BY <1>1, <1>3, <1>4, <1>5, <1>7, <1>8

\* A conversation that is opened.
LEMMA OpenKeeps ==
  ASSUME BadgeInv, NEW c \in Chats, NEW r \in Calls, NEW s \in Calls, OpenChat(c, r, s)
  PROVE  BadgeInv'
<1> USE DEF BadgeInv
<1>1. /\ r # s /\ call[r].kind = "none" /\ call[s].kind = "none"
      /\ call'[r] = Asked("load", c, {}) /\ call'[s] = Asked("read", c, {})
      /\ call' \in [Calls -> ChatCall]
      /\ \A q \in Calls \ {r, s} :
           \/ call[q].kind # "load" /\ call'[q] = call[q]
           \/ /\ call[q].kind = "load" /\ call'[q].kind = "load" /\ ~ call'[q].awaited
              /\ call'[q].chat = call[q].chat /\ call'[q].at = call[q].at
              /\ call'[q].found = call[q].found /\ call'[q].more = call[q].more
      /\ UNCHANGED messageVars
      /\ active' = c /\ thread' = <<>> /\ older' = 0
      /\ astray' \in BOOLEAN
  BY Opening
<1>2. /\ call'[r].kind = "load" /\ call'[r].at = 1 /\ call'[r].found = {} /\ ~ call'[r].more
      /\ call'[s].kind = "read" /\ call'[s].at = 1 /\ call'[s].found = {} /\ call'[s].chat = c
  BY <1>1, AskedIs
<1>3. InboxTypeOK'
  <2>1. \A q \in Calls : call'[q].found \subseteq Messages
    <3>1. \A q \in Calls \ {r, s} : call'[q].found = call[q].found
      BY <1>1
    <3> QED
      BY <1>2, <3>1 DEF InboxTypeOK
  <2>2. thread' \in Seq(Messages) /\ older' \in Messages \cup {0}
    BY <1>1, InboxAssumption DEF InboxAssumption
  <2> QED
    BY <1>1, <2>1, <2>2, PageTyped
<1>4. CallFits(r)' /\ CallFits(s)' /\ ~ Writes(r)' /\ ~ Writes(s)'
  BY <1>2 DEF CallFits, Writes
<1>5. ASSUME NEW q \in Calls \ {r, s}, call'[q] # call[q]
      PROVE  CallFits(q)' /\ ~ Writes(q)' /\ call[q].kind = "load"
  <2>1. chat' = chat
    BY <1>1 DEF messageVars
  <2> QED
    BY <1>1, <1>5, <2>1 DEF CallsFit, CallFits, Writes
<1>6. \A q \in Calls : call[q].kind \in {"none", "load"} => \A x \in Chats : locked[x] # q
  BY Unlocked
<1>7. CallsFit' /\ OwnMessages' /\ LocksFit' /\ UnreadIsCounted'
  BY <1>1, <1>4, <1>5, <1>6, CallsMove
<1> QED
  BY <1>3, <1>7

\* A message the page begins to send, and older ones it asks for.
LEMMA BeginKeeps ==
  ASSUME BadgeInv, NEW r \in Calls, Send(r) \/ LoadOlder(r)
  PROVE  BadgeInv'
<1> USE DEF BadgeInv
<1>1. PICK k \in {"send", "older"}, S \in SUBSET Messages :
        /\ call' = [call EXCEPT ![r] = Asked(k, active, S)] /\ call[r].kind = "none"
        /\ k = "send" => S = {} /\ active # NoChat
        /\ UNCHANGED <<messageVars, active, thread, older>> /\ astray' \in BOOLEAN
  <2>1. CASE Send(r)
    <3>1. astray' \in BOOLEAN /\ call[r].kind = "none"
      BY <2>1 DEF Send, Numbered, Spare, Under, InboxTypeOK, Loading
    <3> QED
      BY <2>1, <3>1 DEF Send, Goes
  <2>2. CASE LoadOlder(r)
    <3>1. astray' \in BOOLEAN /\ call[r].kind = "none" /\ older \in Messages
      BY <2>2 DEF LoadOlder, Numbered, Spare, Under, InboxTypeOK, threadVars
    <3>2. {older} \subseteq Messages
      BY <3>1
    <3>3. call' = [call EXCEPT ![r] = Asked("older", active, {older})]
          /\ UNCHANGED <<messageVars, active, thread, older>>
      BY <2>2 DEF LoadOlder, Goes, threadVars
    <3> QED
      BY <3>1, <3>2, <3>3
  <2> QED
    BY <2>1, <2>2
<1> DEFINE v == Asked(k, active, S)
<1>2. /\ v.kind = k /\ v.at = 1 /\ v.found = S /\ ~ v.more /\ v.chat = active /\ v \in ChatCall
  <2>1. active \in Chats \cup {NoChat} /\ S \in SUBSET Nat
    BY MessagesAre DEF InboxTypeOK
  <2>2. k \in {"send", "read", "load", "older"}
    BY <1>1
  <2>3. v.kind = k /\ v.at = 1 /\ v.found = S /\ ~ v.more /\ v.chat = active
    BY <2>2, AskedIs
  <2>4. v \in ChatCall
    BY <2>1, <2>2, AskedIs
  <2> QED
    BY <2>3, <2>4
<1> HIDE DEF v
<1>3. /\ call'[r] = v /\ \A q \in Calls \ {r} : call'[q] = call[q]
      /\ call' \in [Calls -> ChatCall]
  BY <1>1, <1>2 DEF v, InboxTypeOK
<1>4. InboxTypeOK'
  <2>1. \A q \in Calls : call'[q].found \subseteq Messages
    BY <1>1, <1>2, <1>3 DEF InboxTypeOK
  <2> QED
    BY <1>1, <1>3, <2>1, PageTyped DEF InboxTypeOK
<1>5. CallFits(r)' /\ (Writes(r)' => call'[r].found = {})
  <2>1. active \in Chats \cup {NoChat}
    BY DEF InboxTypeOK
  <2> QED
    BY <1>1, <1>2, <1>3, <2>1 DEF CallFits, Writes
<1>6. \A x \in Chats : locked[x] # r
  BY <1>1, Unlocked
<1>7. CallsFit' /\ OwnMessages' /\ LocksFit' /\ UnreadIsCounted'
  BY <1>1, <1>3, <1>5, <1>6, CallsMove
<1> QED
  BY <1>4, <1>7

\* An answer the page takes: the request is over.
LEMMA AnswerKeeps ==
  ASSUME BadgeInv, NEW r \in Calls, Loaded(r) \/ Sent(r) \/ LoadedOlder(r)
  PROVE  BadgeInv'
<1> DEFINE S == call[r].found
<1> USE DEF BadgeInv
<1>1. /\ Messages = 1..Len(chat) /\ Len(chat) \in 0..MaxMessages /\ S \in SUBSET Messages
  BY MessagesAre DEF InboxTypeOK
<1>2. /\ Sorted(S) \in Seq(Messages) /\ (S # {} => Sorted(S)[1] \in S)
  <2>1. Len(chat) \in Nat /\ S \in SUBSET (1..Len(chat))
    BY <1>1
  <2> HIDE DEF S
  <2>2. Sorted(S) \in Seq(S) /\ (S # {} => Sorted(S)[1] \in S)
    BY <2>1, SortedIsSorted
  <2> QED
    BY <1>1, <2>2, SeqMonotonic
<1>3. /\ call[r].kind \in {"load", "send", "older"} /\ CallFits(r)
      /\ call' = [call EXCEPT ![r] = Idle] /\ UNCHANGED <<messageVars, active, astray>>
      /\ call[r].kind = "send" => S \subseteq stored
  BY DEF Loaded, Sent, LoadedOlder, Answered, Goes, CallsFit
<1>4. call[r].kind \in {"load", "older"} => Cursor(r) \in Messages \cup {0}
  <2>1. call[r].kind \in {"load", "older"} /\ call[r].more => S # {}
    BY <1>3 DEF CallFits
  <2> QED
    BY <1>1, <1>2, <2>1 DEF Cursor
<1>5. thread' \in Seq(Messages) /\ older' \in Messages \cup {0}
  <2>1. thread \in Seq(Messages) /\ older \in Messages \cup {0}
    BY DEF InboxTypeOK
  <2>2. CASE Loaded(r)
    BY <1>2, <1>4, <2>1, <2>2 DEF Loaded, Answered
  <2>3. CASE Sent(r)
    BY <1>2, <2>1, <2>3, ConcatProperties DEF Sent
  <2>4. CASE LoadedOlder(r)
    BY <1>2, <1>4, <2>1, <2>4, ConcatProperties DEF LoadedOlder, Answered
  <2> QED
    BY <2>2, <2>3, <2>4
<1>6. /\ call'[r] = Idle /\ \A q \in Calls \ {r} : call'[q] = call[q]
      /\ call' \in [Calls -> ChatCall] /\ Idle.kind = "none" /\ Idle.found = {}
  BY <1>3, CallTyped DEF InboxTypeOK
<1>7. InboxTypeOK'
  <2>1. \A q \in Calls : call'[q].found \subseteq Messages
    BY <1>6 DEF InboxTypeOK
  <2> QED
    BY <1>3, <1>5, <1>6, <2>1, PageTyped DEF InboxTypeOK
<1>8. \A x \in Chats : locked[x] # r
  <2>1. CASE call[r].kind = "send"
    <3>1. call[r].at = 3
      <4>1. call[r].at > Len(Statements(call[r].kind)) /\ Writes(r)
        BY <2>1 DEF Loaded, Sent, LoadedOlder, Answered, Writes
      <4> QED
        BY <4>1, AtKinds
    <3>2. Writes(r) /\ S # {} /\ S \subseteq stored
      BY <1>3, <2>1, <3>1 DEF CallFits, Writes
    <3>3. S \cap stored # {}
      BY <3>2
    <3> QED
      BY <3>2, <3>3, Unlocked
  <2>2. CASE call[r].kind # "send"
    BY <1>3, <2>2, Unlocked
  <2> QED
    BY <2>1, <2>2
<1>9. CallFits(r)' /\ ~ Writes(r)'
  BY <1>6 DEF CallFits, Writes
<1>10. CallsFit' /\ OwnMessages' /\ LocksFit' /\ UnreadIsCounted'
  BY <1>3, <1>6, <1>8, <1>9, CallsMove
<1> QED
  BY <1>7, <1>10

\* Every step keeps what the badges rest on.
LEMMA BadgeStep ==
  ASSUME BadgeInv, [InboxNext]_inboxVars
  PROVE  BadgeInv'
<1>1. CASE UNCHANGED inboxVars
  <2>1. UNCHANGED <<chat, inbound, stored, read, unread, locked, call, active, thread, older,
                    astray>>
    BY <1>1 DEF inboxVars, messageVars, threadVars
  <2>2. Messages' = Messages /\ \A x : Unread(x)' = Unread(x)
    BY <2>1 DEF Messages, Unread
  <2>3. InboxTypeOK'
    BY <2>1, <2>2 DEF BadgeInv, InboxTypeOK
  <2>4. CallsFit'
    BY <2>1, <2>2 DEF BadgeInv, CallsFit, CallFits, Writes
  <2>5. OwnMessages'
    BY <2>1 DEF BadgeInv, OwnMessages, Writes
  <2>6. LocksFit' /\ UnreadIsCounted'
    BY <2>1, <2>2 DEF BadgeInv, LocksFit, UnreadIsCounted
  <2> QED
    BY <2>3, <2>4, <2>5, <2>6 DEF BadgeInv
<1>2. ASSUME NEW r \in Calls, NEW c \in Chats, Record(r, c) PROVE BadgeInv'
  <2> DEFINE v == Asked("record", c, {})
  <2>1. v = [kind |-> "record", chat |-> c, at |-> 1, found |-> {}, more |-> FALSE,
             awaited |-> FALSE]
    <3>1. ("record" = "load") = FALSE
      OBVIOUS
    <3> QED
      BY <3>1 DEF Asked
  <2> HIDE DEF v
  <2>2. v \in ChatCall /\ v.kind = "record" /\ v.chat = c /\ v.at = 1
    <3>1. v \in ChatCall
      BY <2>1 DEF ChatCall
    <3> QED
      BY <2>1, <3>1
  <2>3. Insert(r, v) /\ call[r].kind = "none"
    BY <1>2 DEF v, Record, Numbered, Spare, Under
  <2>4. \A x \in Chats : locked[x] # r
    BY <2>3, Unlocked DEF BadgeInv
  <2> QED
    BY <2>2, <2>3, <2>4, InsertKeeps
<1>3. ASSUME NEW r \in Calls, Write(r) PROVE BadgeInv'
  <2>1. Writes(r) /\ call[r].at = 1 /\ call[r] \in ChatCall /\ CallFits(r)
    BY <1>3, AtKinds DEF Write, BadgeInv, InboxTypeOK, CallsFit
  <2>2. call[r].chat \in Chats
    BY <2>1 DEF CallFits, Writes
  <2>3. \A x \in Chats : locked[x] # r
    BY <2>1, Unlocked DEF BadgeInv, Writes
  <2> QED
    BY <1>3, <2>1, <2>2, <2>3, InsertKeeps DEF Write, Writes
<1>4. ASSUME NEW r \in Calls, Touch(r) \/ MarkRead(r) \/ Commit(r) \/ Fetch(r) PROVE BadgeInv'
  BY <1>4, TouchKeeps, MarkKeeps, CommitKeeps, FetchKeeps
<1>5. ASSUME NEW r \in Calls, Send(r) \/ LoadOlder(r) PROVE BadgeInv'
  BY <1>5, BeginKeeps
<1>6. ASSUME NEW r \in Calls, Loaded(r) \/ Sent(r) \/ LoadedOlder(r) PROVE BadgeInv'
  BY <1>6, AnswerKeeps
<1>7. ASSUME NEW r \in Calls, LoseCall(r) PROVE BadgeInv'
  BY <1>7, LoseKeeps
<1>8. ASSUME NEW r \in Calls, NEW c \in Chats, NEW s \in Calls, OpenChat(c, r, s) PROVE BadgeInv'
  BY <1>8, OpenKeeps
<1> QED
  BY <1>1, <1>2, <1>3, <1>4, <1>5, <1>6, <1>7, <1>8 DEF InboxNext, Serve

\* In the beginning nothing is written, asked for or shown.
LEMMA InboxBegins ==
  ASSUME InboxInit
  PROVE  BadgeInv /\ ThreadInv
<1>1. /\ chat = <<>> /\ inbound = {} /\ stored = {} /\ read = {}
      /\ unread = [c \in Chats |-> 0] /\ locked = [c \in Chats |-> NoChat]
      /\ call = [r \in Calls |-> Idle] /\ active = NoChat /\ thread = <<>> /\ older = 0
      /\ astray = FALSE
  BY DEF InboxInit
<1>2. Idle \in ChatCall /\ Idle.kind = "none" /\ Idle.found = {} /\ ~ Idle.awaited
  BY CallTyped
<1>3. Messages = {} /\ \A x : Unread(x) = {}
  BY <1>1 DEF Messages, Unread
<1>4. InboxTypeOK
  <2>1. chat \in Seq(Chats) /\ Len(chat) <= MaxMessages /\ thread \in Seq(Messages)
    BY <1>1, InboxAssumption DEF InboxAssumption
  <2> QED
    BY <1>1, <1>2, <1>3, <2>1 DEF InboxTypeOK
<1>5. \A r \in Calls : call[r] = Idle
  BY <1>1
<1>6. CallsFit /\ OwnMessages
  BY <1>2, <1>5 DEF CallsFit, CallFits, OwnMessages, Writes
<1>7. LocksFit /\ UnreadIsCounted
  BY <1>1, <1>3, FS_EmptySet DEF LocksFit, UnreadIsCounted
<1>8. PageFits
  BY <1>2, <1>5 DEF PageFits, Awaited
<1>9. ThreadFits
  <2>1. ~ Loading
    BY <1>2, <1>5 DEF Loading, Under
  <2> QED
    BY <1>1, <1>2, <1>5, <2>1 DEF ThreadFits
<1> QED
  BY <1>4, <1>6, <1>7, <1>8, <1>9 DEF BadgeInv, ThreadInv

-----------------------------------------------------------------------------
(* What the page shows.                                                      *)

\* The thread is being loaded while a loading is waited for.
LEMMA LoadingIs ==
  /\ Loading <=> \E q \in Calls : Awaited(q)
  /\ Loading' <=> \E q \in Calls : Awaited(q)'
BY DEF Loading, Under, Awaited

\* A step of one request that leaves the thread alone, writes none but a new message and
\* finds none but older ones, keeps the thread right.
LEMMA ThreadStays ==
  ASSUME BadgeInv, ThreadInv, UNCHANGED threadVars, \A m \in Messages : chat'[m] = chat[m],
         NEW r \in Calls, \A q \in Calls \ {r} : call'[q] = call[q],
         Awaited(r)' => Awaited(r) /\ call'[r].chat = call[r].chat,
         call'[r].kind = "send" =>
           /\ call[r].kind = "send" /\ call'[r].chat = call[r].chat
           /\ \A m \in call'[r].found : m \in call[r].found \/ (m \in Nat /\ m > Len(chat)),
         call'[r].kind = "older" =>
           /\ call[r].kind = "older" /\ call'[r].chat = call[r].chat
           /\ call'[r].at = 1 => call[r].at = 1 /\ call'[r].found = call[r].found
           /\ call'[r].at # 1 => \/ call[r].at # 1 /\ call'[r].found = call[r].found
                                 \/ call[r].at = 1 /\ \A m \in call'[r].found :
                                                        \A n \in call[r].found : m < n
  PROVE  ThreadInv'
<1>1. UNCHANGED <<active, thread, older, astray>>
  BY DEF threadVars
<1>2. /\ \A q \in Calls : Awaited(q)' => Awaited(q) /\ call'[q].chat = call[q].chat
      /\ \A q \in Calls : call'[q].kind = "send" => call[q].kind = "send"
      /\ \A q \in Calls : call'[q].kind = "older" => call[q].kind = "older"
  <2>1. \A q \in Calls : q # r => call'[q] = call[q]
    OBVIOUS
  <2> QED
    BY <2>1 DEF Awaited
<1>3. PageFits'
  BY <1>1, <1>2 DEF ThreadInv, PageFits
<1>4. ASSUME ~ astray PROVE ThreadFits'
  <2>1. ThreadFits /\ (Loading' => Loading)
    BY <1>2, <1>4, LoadingIs DEF ThreadInv
  <2>2. \A i \in DOMAIN thread : thread[i] \in Messages
    BY ElementOfSeq DEF BadgeInv, InboxTypeOK
  <2>3. Messages = 1..Len(chat) /\ Len(chat) \in Nat
    BY MessagesAre DEF BadgeInv
  <2>4. \A i \in DOMAIN thread : chat'[thread[i]] = active
    BY <2>1, <2>2 DEF ThreadFits
  <2>5. ASSUME NEW q \in Calls, call'[q].kind = "send"
        PROVE  /\ call'[q].chat = active /\ ~ Loading'
               /\ \A m \in call'[q].found : \A i \in DOMAIN thread : thread[i] < m
    <3>1. /\ call[q].kind = "send" /\ call[q].chat = active /\ ~ Loading
          /\ \A m \in call[q].found : \A i \in DOMAIN thread : thread[i] < m
      BY <1>2, <2>1, <2>5 DEF ThreadFits
    <3>2. CASE q = r
      BY <2>1, <2>2, <2>3, <2>5, <3>1, <3>2
    <3>3. CASE q # r
      BY <2>1, <3>1, <3>3
    <3> QED
      BY <3>2, <3>3
  <2>6. ASSUME NEW q \in Calls, call'[q].kind = "older"
        PROVE  /\ call'[q].chat = active /\ ~ Loading' /\ thread # <<>>
               /\ call'[q].at = 1 => call'[q].found = {thread[1]}
               /\ call'[q].at # 1 => \A m \in call'[q].found : m < thread[1]
    <3>1. /\ call[q].kind = "older" /\ call[q].chat = active /\ ~ Loading /\ thread # <<>>
          /\ call[q].at = 1 => call[q].found = {thread[1]}
          /\ call[q].at # 1 => \A m \in call[q].found : m < thread[1]
      BY <1>2, <2>1, <2>6 DEF ThreadFits
    <3>2. CASE q = r
      BY <2>1, <2>6, <3>1, <3>2
    <3>3. CASE q # r
      BY <2>1, <3>1, <3>3
    <3> QED
      BY <3>2, <3>3
  <2>7. /\ \A i, j \in DOMAIN thread : i < j => thread[i] < thread[j]
        /\ older # 0 => thread # <<>> /\ older = thread[1]
        /\ Loading' => thread = <<>> /\ older = 0
    BY <2>1 DEF ThreadFits
  <2> QED
    BY <1>1, <2>4, <2>5, <2>6, <2>7 DEF ThreadFits
<1> QED
  BY <1>1, <1>3, <1>4 DEF ThreadInv

\* What the API does leaves the thread right.
LEMMA ServeShows ==
  ASSUME BadgeInv, ThreadInv, NEW r \in Calls,
         Serve(r) \/ LoseCall(r) \/ \E c \in Chats : Record(r, c)
  PROVE  ThreadInv'
<1> USE DEF BadgeInv
<1>1. /\ Messages = 1..Len(chat) /\ Len(chat) \in Nat /\ chat \in Seq(Chats)
      /\ call[r] \in ChatCall
  BY MessagesAre DEF InboxTypeOK
<1>2. ASSUME NEW v \in ChatCall, v.at = 1, v.kind \in {"record", "send"}, Insert(r, v),
             v = call[r] \/ v.kind = "record"
      PROVE  ThreadInv'
  <2>1. /\ UNCHANGED threadVars /\ chat' = Append(chat, v.chat)
        /\ call'[r] = [Onward(v) EXCEPT !.found = {Len(chat) + 1}]
        /\ \A q \in Calls \ {r} : call'[q] = call[q]
    BY <1>2 DEF Insert, Goes, InboxTypeOK
  <2>2. \A m \in Messages : chat'[m] = chat[m]
    BY <1>1, <2>1
  <2>3. /\ call'[r].kind = v.kind /\ call'[r].chat = v.chat
        /\ call'[r].found = {Len(chat) + 1}
    <3>1. Onward(v) \in ChatCall /\ Onward(v).kind = v.kind /\ Onward(v).chat = v.chat
      BY <1>2, CallTyped
    <3>2. {Len(chat) + 1} \in SUBSET Nat
      BY <1>1
    <3> QED
      BY <2>1, <3>1, <3>2, CallTyped
  <2>4. ~ Awaited(r)' /\ call'[r].kind # "older"
    BY <1>2, <2>3 DEF Awaited
  <2>5. call'[r].kind = "send" =>
          /\ call[r].kind = "send" /\ call'[r].chat = call[r].chat
          /\ \A m \in call'[r].found : m \in Nat /\ m > Len(chat)
    <3>1. \A m \in call'[r].found : m = Len(chat) + 1
      BY <2>3
    <3>2. Len(chat) + 1 \in Nat /\ Len(chat) + 1 > Len(chat)
      BY <1>1
    <3>3. call'[r].kind = "send" => v = call[r]
      BY <1>2, <2>3
    <3> QED
      BY <2>3, <3>1, <3>2, <3>3
  <2> QED
    BY <2>1, <2>2, <2>4, <2>5, ThreadStays
<1>3. ASSUME NEW c \in Chats, Record(r, c) PROVE ThreadInv'
  <2> DEFINE v == Asked("record", c, {})
  <2>1. v = [kind |-> "record", chat |-> c, at |-> 1, found |-> {}, more |-> FALSE,
             awaited |-> FALSE]
    <3>1. ("record" = "load") = FALSE
      OBVIOUS
    <3> QED
      BY <3>1 DEF Asked
  <2>2. Insert(r, v)
    BY <1>3 DEF Record
  <2> HIDE DEF v
  <2>3. v \in ChatCall
    BY <2>1 DEF ChatCall
  <2> QED
    BY <1>2, <2>1, <2>2, <2>3
<1>4. CASE Write(r)
  BY <1>1, <1>2, <1>4, AtKinds DEF Write, Writes
<1>5. ASSUME Touch(r) \/ MarkRead(r)
      PROVE  ThreadInv'
  <2>1. /\ UNCHANGED <<threadVars, chat>> /\ \A q \in Calls \ {r} : call'[q] = call[q]
        /\ call[r].kind \in {"record", "send", "read"} /\ call[r].at # 3
        /\ \/ call'[r] = Onward(call[r])
           \/ /\ call'[r] = [Onward(call[r]) EXCEPT !.found = Unread(call[r].chat)]
              /\ call[r].kind = "read"
    <3>1. CASE Touch(r)
      BY <3>1, AtKinds DEF Touch, Goes, InboxTypeOK, Writes
    <3>2. CASE MarkRead(r)
      BY <3>2, AtKinds DEF MarkRead, Goes, InboxTypeOK, messageVars
    <3> QED
      BY <1>5, <3>1, <3>2
  <2>2. Onward(call[r]) \in ChatCall /\ Onward(call[r]).kind = call[r].kind
        /\ Onward(call[r]).chat = call[r].chat /\ Onward(call[r]).found = call[r].found
    BY <1>1, <2>1, CallTyped
  <2>3. \A x : Unread(x) \in SUBSET Nat
    BY <1>1, MessagesAre
  <2>4. /\ call'[r].kind = call[r].kind /\ call'[r].chat = call[r].chat
        /\ call[r].kind = "send" => call'[r].found = call[r].found
    <3>1. CASE call'[r] = Onward(call[r])
      BY <2>2, <3>1
    <3>2. CASE call'[r] = [Onward(call[r]) EXCEPT !.found = Unread(call[r].chat)]
               /\ call[r].kind = "read"
      <4> DEFINE u == Unread(call[r].chat)
                 o == Onward(call[r])
      <4>1. u \in SUBSET Nat /\ o \in ChatCall /\ call'[r] = [o EXCEPT !.found = u]
        BY <2>2, <2>3, <3>2
      <4> HIDE DEF u, o
      <4>2. call'[r].kind = o.kind /\ call'[r].chat = o.chat
        BY <4>1, CallTyped
      <4> QED
        BY <2>2, <3>2, <4>2 DEF o
    <3> QED
      BY <2>1, <3>1, <3>2
  <2> QED
    BY <2>1, <2>4, ThreadStays DEF Awaited
<1>6. ASSUME Commit(r) \/ LoseCall(r)
      PROVE  ThreadInv'
  <2>1. /\ UNCHANGED <<threadVars, chat>> /\ \A q \in Calls \ {r} : call'[q] = call[q]
        /\ call'[r] = Idle \/ (call'[r] = call[r] /\ call[r].kind = "send")
    BY <1>6 DEF Commit, LoseCall, Goes, InboxTypeOK
  <2>2. Idle.kind = "none"
    BY CallTyped
  <2> QED
    BY <2>1, <2>2, ThreadStays DEF Awaited
<1>7. CASE Fetch(r)
  <2>1. /\ call[r].kind \in {"load", "older"} /\ call[r].at = 1 /\ UNCHANGED messageVars
        /\ \A q \in Calls \ {r} : call'[q] = call[q]
        /\ call'[r].kind = call[r].kind /\ call'[r].chat = call[r].chat
        /\ call'[r].awaited = call[r].awaited /\ call'[r].at = 2
        /\ \A m \in call'[r].found : \A n \in call[r].found : m < n
    BY <1>7, PageFetched
  <2>2. UNCHANGED <<threadVars, chat>>
    BY <1>7, <2>1 DEF Fetch, messageVars
  <2> QED
    BY <2>1, <2>2, ThreadStays DEF Awaited
<1> QED
  BY <1>3, <1>4, <1>5, <1>6, <1>7 DEF Serve

\* A conversation that is opened has an empty thread, and its loading is waited for.
LEMMA OpenShows ==
  ASSUME BadgeInv, ThreadInv, NEW c \in Chats, NEW r \in Calls, NEW s \in Calls,
         OpenChat(c, r, s)
  PROVE  ThreadInv'
<1> USE DEF BadgeInv
<1>1. /\ r # s
      /\ call'[r] = Asked("load", c, {}) /\ call'[s] = Asked("read", c, {})
      /\ \A q \in Calls \ {r, s} :
           \/ call[q].kind # "load" /\ call'[q] = call[q]
           \/ /\ call[q].kind = "load" /\ call'[q].kind = "load" /\ ~ call'[q].awaited
              /\ call'[q].chat = call[q].chat
      /\ active' = c /\ thread' = <<>> /\ older' = 0
  BY Opening
<1>2. /\ call'[r].kind = "load" /\ call'[r].chat = c /\ call'[s].kind = "read"
  BY <1>1, AskedIs
<1>3. /\ \A q \in Calls : Awaited(q)' => q = r
      /\ \A q \in Calls : call'[q].kind \in {"send", "older"} =>
           call'[q] = call[q]
  BY <1>1, <1>2 DEF Awaited
<1>4. PageFits'
  BY <1>1, <1>2, <1>3 DEF ThreadInv, PageFits
<1>5. astray' = (Under({"send", "older"}) # {})
  BY DEF OpenChat
<1>6. ASSUME ~ astray' PROVE ThreadFits'
  <2>1. \A q \in Calls : call[q].kind \notin {"send", "older"}
    BY <1>5, <1>6 DEF Under
  <2>2. \A q \in Calls : call'[q].kind \notin {"send", "older"}
    BY <1>3, <2>1
  <2> QED
    BY <1>1, <2>2 DEF ThreadFits
<1> QED
  BY <1>4, <1>6 DEF ThreadInv

\* A message begins to be sent, or older ones are asked for.
LEMMA BeginShows ==
  ASSUME BadgeInv, ThreadInv, NEW r \in Calls, Send(r) \/ LoadOlder(r)
  PROVE  ThreadInv'
<1> USE DEF BadgeInv
<1>1. UNCHANGED <<chat, active, thread, older>> /\ (astray => astray')
  <2>1. UNCHANGED <<chat, active, thread, older>>
    BY DEF Send, LoadOlder, threadVars, messageVars
  <2>2. astray' = (astray \/ Loading) \/ astray' = astray
    BY DEF Send, LoadOlder, threadVars
  <2>3. ASSUME astray PROVE astray'
    <3>1. CASE astray' = (astray \/ Loading)
      BY <2>3, <3>1
    <3>2. CASE astray' = astray
      BY <2>3, <3>2
    <3> QED
      BY <2>2, <3>1, <3>2
  <2> QED
    BY <2>1, <2>3
<1>2. PICK k \in {"send", "older"}, S \in {{}, {older}} :
        /\ call'[r] = Asked(k, active, S) /\ \A q \in Calls \ {r} : call'[q] = call[q]
        /\ \A q \in Calls : call[q].kind # k
        /\ k = "send" => S = {} /\ (~ astray' => ~ Loading)
        /\ k = "older" => S = {older} /\ older # 0
  <2>1. CASE Send(r)
    <3>1. /\ call'[r] = Asked("send", active, {}) /\ \A q \in Calls \ {r} : call'[q] = call[q]
          /\ \A q \in Calls : call[q].kind # "send"
      BY <2>1 DEF Send, Goes, Under, InboxTypeOK
    <3>2. ~ astray' => ~ Loading
      BY <2>1 DEF Send
    <3> QED
      BY <3>1, <3>2
  <2>2. CASE LoadOlder(r)
    <3>1. /\ call'[r] = Asked("older", active, {older})
          /\ \A q \in Calls \ {r} : call'[q] = call[q]
          /\ \A q \in Calls : call[q].kind # "older" /\ older # 0
      BY <2>2 DEF LoadOlder, Goes, Under, InboxTypeOK
    <3>2. "older" # "send"
      OBVIOUS
    <3> QED
      BY <2>2, <3>1, <3>2 DEF LoadOlder
  <2> QED
    BY <2>1, <2>2
<1>3. /\ call'[r].kind = k /\ call'[r].chat = active /\ call'[r].at = 1 /\ call'[r].found = S
  BY <1>2, AskedIs
<1>4. \A q \in Calls : Awaited(q)' => Awaited(q) /\ call'[q] = call[q]
  BY <1>2, <1>3 DEF Awaited
<1>5. PageFits'
  <2>1. \A q \in Calls : call'[q].kind = k => q = r
    BY <1>2
  <2>2. \A q \in Calls : call'[q].kind # k => call'[q] = call[q]
    BY <1>2, <1>3
  <2> QED
    BY <1>1, <1>2, <1>4, <2>1, <2>2 DEF ThreadInv, PageFits
<1>6. ASSUME ~ astray' PROVE ThreadFits'
  <2>1. ThreadFits /\ (Loading' => Loading) /\ ~ astray
    BY <1>1, <1>4, <1>6, LoadingIs DEF ThreadInv
  <2>2. k = "older" => thread # <<>> /\ S = {thread[1]}
    BY <1>2, <2>1 DEF ThreadFits
  <2>3. ~ Loading
    BY <1>2, <1>6, <2>1 DEF ThreadFits
  <2>4. ASSUME NEW q \in Calls, call'[q].kind = "send"
        PROVE  /\ call'[q].chat = active /\ ~ Loading'
               /\ \A m \in call'[q].found : \A i \in DOMAIN thread : thread[i] < m
    BY <1>2, <1>3, <2>1, <2>3, <2>4 DEF ThreadFits
  <2>5. ASSUME NEW q \in Calls, call'[q].kind = "older"
        PROVE  /\ call'[q].chat = active /\ ~ Loading' /\ thread # <<>>
               /\ call'[q].at = 1 => call'[q].found = {thread[1]}
               /\ call'[q].at # 1 => \A m \in call'[q].found : m < thread[1]
    <3>1. CASE q = r
      BY <1>3, <2>1, <2>2, <2>3, <2>5, <3>1
    <3>2. CASE q # r
      BY <1>2, <2>1, <2>3, <2>5, <3>2 DEF ThreadFits
    <3> QED
      BY <3>1, <3>2
  <2>6. /\ \A i \in DOMAIN thread : chat[thread[i]] = active
        /\ \A i, j \in DOMAIN thread : i < j => thread[i] < thread[j]
        /\ older # 0 => thread # <<>> /\ older = thread[1]
    BY <2>1 DEF ThreadFits
  <2> QED
    BY <1>1, <2>1, <2>3, <2>4, <2>5, <2>6 DEF ThreadFits
<1> QED
  BY <1>5, <1>6 DEF ThreadInv

\* What an answer leaves of the other requests.
LEMMA AnswerLeaves ==
  ASSUME BadgeInv, ThreadInv, NEW r \in Calls, Loaded(r) \/ Sent(r) \/ LoadedOlder(r)
  PROVE  /\ UNCHANGED <<chat, active, astray>> /\ call'[r].kind = "none"
         /\ \A q \in Calls : call'[q].kind # "none" => q # r /\ call'[q] = call[q]
         /\ \A q \in Calls : Awaited(q)' => Awaited(q) /\ q # r
         /\ PageFits'
         /\ Sorted(call[r].found) \in Seq(call[r].found)
         /\ \A i, j \in DOMAIN Sorted(call[r].found) :
              i < j => Sorted(call[r].found)[i] < Sorted(call[r].found)[j]
         /\ call[r].found # {} =>
              Sorted(call[r].found) # <<>> /\ Sorted(call[r].found)[1] \in call[r].found
         /\ call[r].found \subseteq Messages
         /\ call[r].more => call[r].kind = "send" \/ call[r].found # {}
<1> USE DEF BadgeInv
<1>1. /\ UNCHANGED <<messageVars, active, astray>> /\ call' = [call EXCEPT ![r] = Idle]
      /\ call[r].kind \in {"load", "send", "older"}
  BY DEF Loaded, Sent, LoadedOlder, Answered, Goes
<1>2. /\ call'[r] = Idle /\ Idle.kind = "none" /\ \A q \in Calls \ {r} : call'[q] = call[q]
  BY <1>1, CallTyped DEF InboxTypeOK
<1>3. \A q \in Calls : call'[q].kind # "none" => q # r /\ call'[q] = call[q]
  BY <1>2
<1>4. \A q \in Calls : Awaited(q)' => Awaited(q) /\ q # r /\ call'[q] = call[q]
  BY <1>3 DEF Awaited
<1>5. PageFits'
  BY <1>1, <1>3, <1>4 DEF ThreadInv, PageFits
<1> DEFINE S == call[r].found
<1>6. Len(chat) \in Nat /\ S \in SUBSET (1..Len(chat)) /\ S \subseteq Messages
  BY MessagesAre DEF InboxTypeOK
<1>7. call[r].more => call[r].kind = "send" \/ call[r].found # {}
  BY <1>1 DEF CallsFit, CallFits
<1>8. chat' = chat
  BY <1>1 DEF messageVars
<1> HIDE DEF S
<1>9. /\ Sorted(S) \in Seq(S)
      /\ \A i, j \in DOMAIN Sorted(S) : i < j => Sorted(S)[i] < Sorted(S)[j]
      /\ S # {} => Sorted(S) # <<>> /\ Sorted(S)[1] \in S
  BY <1>6, SortedIsSorted
<1> QED
  BY <1>1, <1>2, <1>3, <1>4, <1>5, <1>6, <1>7, <1>8, <1>9 DEF S

\* Two sequences of messages in order, the first before the second, are in order together.
LEMMA Joined ==
  ASSUME NEW s \in Seq(Nat), NEW t \in Seq(Nat),
         \A i, j \in DOMAIN s : i < j => s[i] < s[j],
         \A i, j \in DOMAIN t : i < j => t[i] < t[j],
         \A i \in DOMAIN s : \A j \in DOMAIN t : s[i] < t[j]
  PROVE  /\ \A i, j \in DOMAIN (s \o t) : i < j => (s \o t)[i] < (s \o t)[j]
         /\ \A i \in DOMAIN (s \o t) :
              \/ \E j \in DOMAIN s : (s \o t)[i] = s[j]
              \/ \E j \in DOMAIN t : (s \o t)[i] = t[j]
         /\ s # <<>> => s \o t # <<>> /\ (s \o t)[1] = s[1]
         /\ s = <<>> => s \o t = t
<1>1. /\ s \o t \in Seq(Nat) /\ Len(s \o t) = Len(s) + Len(t)
      /\ Len(s) \in Nat /\ Len(t) \in Nat
      /\ \A i \in 1..Len(s) : (s \o t)[i] = s[i]
      /\ \A i \in 1..Len(t) : (s \o t)[Len(s) + i] = t[i]
  BY ConcatProperties, LenProperties
<1>2. DOMAIN s = 1..Len(s) /\ DOMAIN t = 1..Len(t) /\ DOMAIN (s \o t) = 1..(Len(s) + Len(t))
  BY <1>1
<1>3. ASSUME NEW i \in DOMAIN (s \o t)
      PROVE  \/ i \in DOMAIN s /\ (s \o t)[i] = s[i]
             \/ i - Len(s) \in DOMAIN t /\ (s \o t)[i] = t[i - Len(s)]
  <2>1. CASE i <= Len(s)
    BY <1>1, <1>2, <2>1
  <2>2. CASE ~ (i <= Len(s))
    <3>1. i - Len(s) \in 1..Len(t) /\ Len(s) + (i - Len(s)) = i
      BY <1>1, <1>2, <2>2
    <3> QED
      BY <1>1, <1>2, <3>1
  <2> QED
    BY <2>1, <2>2
<1> DEFINE order == {p \in Nat \X Nat : p[1] < p[2]}
<1>4. ASSUME NEW i \in DOMAIN (s \o t), NEW j \in DOMAIN (s \o t), i < j
      PROVE  (s \o t)[i] < (s \o t)[j]
  <2>1. /\ \A k \in DOMAIN s : s[k] \in Nat
        /\ \A k \in DOMAIN t : t[k] \in Nat
        /\ \A k \in DOMAIN (s \o t) : (s \o t)[k] \in Nat
    BY <1>1, ElementOfSeq
  <2>2. /\ \A k, l \in DOMAIN s : k < l => <<s[k], s[l]>> \in order
        /\ \A k, l \in DOMAIN t : k < l => <<t[k], t[l]>> \in order
        /\ \A k \in DOMAIN s : \A l \in DOMAIN t : <<s[k], t[l]>> \in order
    BY <2>1
  <2>3. \A m, n \in Nat : <<m, n>> \in order => m < n
    OBVIOUS
  <2> HIDE DEF order
  <2>4. <<(s \o t)[i], (s \o t)[j]>> \in order
    BY <1>4, <2>2, JoinedInOrder
  <2> QED
    BY <2>1, <2>3, <2>4
<1>5. ASSUME s # <<>> PROVE s \o t # <<>> /\ (s \o t)[1] = s[1]
  <2>1. Len(s) # 0
    BY <1>5, EmptySeq
  <2>2. 1 \in 1..Len(s) /\ Len(s \o t) # 0
    BY <1>1, <2>1
  <2> QED
    BY <1>1, <2>2
<1>6. ASSUME s = <<>> PROVE s \o t = t
  BY <1>6, ConcatEmptySeq
<1>7. \A i \in DOMAIN (s \o t) : \/ \E j \in DOMAIN s : (s \o t)[i] = s[j]
                                 \/ \E j \in DOMAIN t : (s \o t)[i] = t[j]
  BY <1>3
<1> QED
  BY <1>4, <1>5, <1>6, <1>7

\* What a loading shows is in order, from the conversation that is open.
LEMMA LoadedShows ==
  ASSUME BadgeInv, ThreadInv, NEW r \in Calls, Loaded(r)
  PROVE  ThreadInv'
<1> DEFINE S == call[r].found
<1>1. /\ UNCHANGED <<chat, active, astray>> /\ call'[r].kind = "none"
      /\ \A q \in Calls : call'[q].kind # "none" => q # r /\ call'[q] = call[q]
      /\ \A q \in Calls : Awaited(q)' => Awaited(q) /\ q # r
      /\ PageFits'
      /\ Sorted(S) \in Seq(S)
      /\ \A i, j \in DOMAIN Sorted(S) : i < j => Sorted(S)[i] < Sorted(S)[j]
      /\ S # {} => Sorted(S) # <<>> /\ Sorted(S)[1] \in S
      /\ call[r].more => call[r].kind = "send" \/ S # {}
  BY AnswerLeaves
<1>2. call[r].kind = "load" /\ call[r].at # 1
  BY AtKinds DEF Loaded, Answered, BadgeInv
<1>3. CASE ~ call[r].awaited
  <2>1. UNCHANGED <<thread, older>>
    BY <1>3 DEF Loaded
  <2>2. \A q \in Calls \ {r} : call'[q] = call[q]
    BY DEF Loaded, Answered, Goes, BadgeInv, InboxTypeOK
  <2> QED
    BY <1>1, <2>1, <2>2, ThreadStays DEF Awaited, threadVars
<1>4. ASSUME call[r].awaited, ~ astray' PROVE ThreadFits'
  <2>1. thread' = Sorted(S) /\ older' = Cursor(r)
    BY <1>4 DEF Loaded
  <2>2. ThreadFits /\ Loading /\ call[r].chat = active
    BY <1>1, <1>2, <1>4, LoadingIs DEF ThreadInv, PageFits, Awaited
  <2>3. ~ Loading'
    BY <1>1, <1>2, <1>4, LoadingIs DEF ThreadInv, PageFits, Awaited
  <2>4. \A q \in Calls : call'[q].kind \notin {"send", "older"}
    BY <1>1, <2>2 DEF ThreadFits
  <2>5. \A m \in S : chat[m] = active
    BY <1>2, <2>2 DEF BadgeInv, CallsFit, CallFits
  <2>6. \A i \in DOMAIN Sorted(S) : Sorted(S)[i] \in S
    BY <1>1, ElementOfSeq
  <2>7. older' # 0 => thread' # <<>> /\ older' = thread'[1]
    BY <1>1, <1>2, <2>1 DEF Cursor
  <2> HIDE DEF S
  <2>8. \A i \in DOMAIN thread' : chat'[thread'[i]] = active'
    BY <1>1, <2>1, <2>5, <2>6
  <2>9. \A i, j \in DOMAIN thread' : i < j => thread'[i] < thread'[j]
    BY <1>1, <2>1
  <2> QED
    BY <2>3, <2>4, <2>7, <2>8, <2>9 DEF ThreadFits
<1> QED
  BY <1>1, <1>3, <1>4 DEF ThreadInv

\* What was sent is newer than the thread it joins.
LEMMA SentShows ==
  ASSUME BadgeInv, ThreadInv, NEW r \in Calls, Sent(r)
  PROVE  ThreadInv'
<1> DEFINE S == call[r].found
<1>1. /\ UNCHANGED <<chat, active, astray>> /\ call'[r].kind = "none"
      /\ \A q \in Calls : call'[q].kind # "none" => q # r /\ call'[q] = call[q]
      /\ \A q \in Calls : Awaited(q)' => Awaited(q) /\ q # r
      /\ PageFits'
      /\ Sorted(S) \in Seq(S) /\ S \subseteq Messages
      /\ \A i, j \in DOMAIN Sorted(S) : i < j => Sorted(S)[i] < Sorted(S)[j]
      /\ S # {} => Sorted(S) # <<>>
  BY AnswerLeaves
<1>2. call[r].kind = "send" /\ call[r].at = 3
  <2>1. call[r].kind = "send" /\ call[r].at > Len(Statements(call[r].kind))
    BY DEF Sent, Answered
  <2> QED
    BY <2>1, AtKinds DEF BadgeInv, Writes
<1>3. ASSUME ~ astray' PROVE ThreadFits'
  <2>1. ThreadFits /\ call[r].chat = active /\ ~ Loading
        /\ \A m \in S : \A i \in DOMAIN thread : thread[i] < m
    BY <1>1, <1>2, <1>3 DEF ThreadInv, ThreadFits
  <2>2. thread' = thread \o Sorted(S) /\ older' = older
    BY DEF Sent
  <2>3. S # {} /\ \A m \in S : chat[m] = active
    BY <1>2, <2>1 DEF BadgeInv, CallsFit, CallFits, Writes
  <2>4. \A q \in Calls : call'[q].kind # "send"
    BY <1>1, <1>2 DEF ThreadInv, PageFits
  <2>5. ~ Loading'
    BY <1>1, <2>1, LoadingIs
  <2>6. thread \in Seq(Nat) /\ Sorted(S) \in Seq(Nat)
        /\ \A i \in DOMAIN Sorted(S) : Sorted(S)[i] \in S
    <3>1. Messages \subseteq Nat /\ thread \in Seq(Messages)
      BY MessagesAre DEF BadgeInv, InboxTypeOK
    <3>2. Sorted(S) \in Seq(S) /\ S \subseteq Nat
      BY <1>1, <3>1
    <3> HIDE DEF S
    <3>3. thread \in Seq(Nat) /\ Sorted(S) \in Seq(Nat)
      BY <3>1, <3>2, SeqMonotonic
    <3>4. \A i \in DOMAIN Sorted(S) : Sorted(S)[i] \in S
      BY <3>2, ElementOfSeq
    <3>5. \A i \in DOMAIN thread : thread[i] \in Nat
      BY <3>3, ElementOfSeq
    <3> QED
      BY <3>2, <3>3, <3>4, <3>5
  <2> HIDE DEF S
  <2>7. \A i, j \in DOMAIN thread : i < j => thread[i] < thread[j]
    BY <2>1 DEF ThreadFits
  <2>8. \A i \in DOMAIN thread : \A j \in DOMAIN Sorted(S) : thread[i] < Sorted(S)[j]
    BY <2>1, <2>6
  <2>9. /\ \A i, j \in DOMAIN thread' : i < j => thread'[i] < thread'[j]
        /\ \A i \in DOMAIN thread' : \/ \E j \in DOMAIN thread : thread'[i] = thread[j]
                                     \/ \E j \in DOMAIN Sorted(S) : thread'[i] = Sorted(S)[j]
        /\ thread # <<>> => thread' # <<>> /\ thread'[1] = thread[1]
    BY <1>1, <2>2, <2>6, <2>7, <2>8, Joined
  <2>10. \A i \in DOMAIN thread' : chat[thread'[i]] = active
    BY <2>1, <2>3, <2>6, <2>9 DEF ThreadFits
  <2>11. older # 0 => thread' # <<>> /\ older = thread'[1]
    BY <2>1, <2>9 DEF ThreadFits
  <2>12. ASSUME NEW q \in Calls, call'[q].kind = "older"
         PROVE  /\ call'[q].chat = active /\ thread' # <<>>
                /\ call'[q].at = 1 => call'[q].found = {thread'[1]}
                /\ call'[q].at # 1 => \A m \in call'[q].found : m < thread'[1]
    <3>1. call'[q] = call[q]
      BY <1>1, <2>12
    <3>2. /\ call[q].chat = active /\ thread # <<>>
          /\ call[q].at = 1 => call[q].found = {thread[1]}
          /\ call[q].at # 1 => \A m \in call[q].found : m < thread[1]
      BY <2>1, <2>12, <3>1 DEF ThreadFits
    <3> QED
      BY <2>9, <3>1, <3>2
  <2> QED
    BY <1>1, <2>2, <2>4, <2>5, <2>9, <2>10, <2>11, <2>12 DEF ThreadFits
<1> QED
  BY <1>1, <1>3 DEF ThreadInv

\* What older messages are shown come before the thread they join.
LEMMA OlderShows ==
  ASSUME BadgeInv, ThreadInv, NEW r \in Calls, LoadedOlder(r)
  PROVE  ThreadInv'
<1> DEFINE S == call[r].found
<1>1. /\ UNCHANGED <<chat, active, astray>> /\ call'[r].kind = "none"
      /\ \A q \in Calls : call'[q].kind # "none" => q # r /\ call'[q] = call[q]
      /\ \A q \in Calls : Awaited(q)' => Awaited(q) /\ q # r
      /\ PageFits'
      /\ Sorted(S) \in Seq(S) /\ S \subseteq Messages
      /\ \A i, j \in DOMAIN Sorted(S) : i < j => Sorted(S)[i] < Sorted(S)[j]
      /\ S # {} => Sorted(S) # <<>>
      /\ call[r].more => call[r].kind = "send" \/ S # {}
  BY AnswerLeaves
<1>2. call[r].kind = "older" /\ call[r].at # 1
  BY AtKinds DEF LoadedOlder, Answered, BadgeInv
<1>3. ASSUME ~ astray' PROVE ThreadFits'
  <2>1. ThreadFits /\ call[r].chat = active /\ ~ Loading /\ thread # <<>>
        /\ \A m \in S : m < thread[1]
    BY <1>1, <1>2, <1>3 DEF ThreadInv, ThreadFits
  <2>2. thread' = Sorted(S) \o thread /\ older' = Cursor(r)
    BY DEF LoadedOlder
  <2>3. \A m \in S : chat[m] = active
    BY <1>2, <2>1 DEF BadgeInv, CallsFit, CallFits
  <2>4. \A q \in Calls : call'[q].kind # "older"
    BY <1>1, <1>2 DEF ThreadInv, PageFits
  <2>5. ~ Loading'
    BY <1>1, <2>1, LoadingIs
  <2>6. /\ thread \in Seq(Nat) /\ Sorted(S) \in Seq(Nat) /\ S \subseteq Nat
        /\ \A i \in DOMAIN Sorted(S) : Sorted(S)[i] \in S
        /\ \A i \in DOMAIN thread : thread[i] \in Nat
    <3>1. Messages \subseteq Nat /\ thread \in Seq(Messages)
      BY MessagesAre DEF BadgeInv, InboxTypeOK
    <3>2. Sorted(S) \in Seq(S) /\ S \subseteq Nat
      BY <1>1, <3>1
    <3> HIDE DEF S
    <3>3. thread \in Seq(Nat) /\ Sorted(S) \in Seq(Nat)
      BY <3>1, <3>2, SeqMonotonic
    <3>4. \A i \in DOMAIN Sorted(S) : Sorted(S)[i] \in S
      BY <3>2, ElementOfSeq
    <3>5. \A i \in DOMAIN thread : thread[i] \in Nat
      BY <3>3, ElementOfSeq
    <3> QED
      BY <3>2, <3>3, <3>4, <3>5
  <2>7. \A i, j \in DOMAIN thread : i < j => thread[i] < thread[j]
    BY <2>1 DEF ThreadFits
  <2>8. older' # 0 => Sorted(S) # <<>> /\ older' = Sorted(S)[1]
    BY <1>1, <1>2, <2>2 DEF Cursor
  <2> HIDE DEF S
  <2>9. 1 \in DOMAIN thread /\ \A i \in DOMAIN thread : i = 1 \/ 1 < i
    <3>1. Len(thread) \in Nat /\ DOMAIN thread = 1..Len(thread) /\ Len(thread) # 0
      BY <2>1, <2>6, LenProperties, EmptySeq
    <3> QED
      BY <3>1
  <2>10. \A i \in DOMAIN Sorted(S) : \A j \in DOMAIN thread : Sorted(S)[i] < thread[j]
    <3>1. \A j \in DOMAIN thread : thread[1] = thread[j] \/ thread[1] < thread[j]
      BY <2>7, <2>9
    <3>2. \A m \in S : \A j \in DOMAIN thread : m < thread[j]
      <4>1. thread[1] \in Nat /\ \A m \in S : m \in Nat /\ m < thread[1]
        BY <2>1, <2>6, <2>9 DEF S
      <4> QED
        BY <2>6, <3>1, <4>1
    <3> QED
      BY <2>6, <3>2
  <2>11. /\ \A i, j \in DOMAIN thread' : i < j => thread'[i] < thread'[j]
         /\ \A i \in DOMAIN thread' : \/ \E j \in DOMAIN Sorted(S) : thread'[i] = Sorted(S)[j]
                                      \/ \E j \in DOMAIN thread : thread'[i] = thread[j]
         /\ Sorted(S) # <<>> => thread' # <<>> /\ thread'[1] = Sorted(S)[1]
    BY <1>1, <2>2, <2>6, <2>7, <2>10, Joined
  <2>12. \A i \in DOMAIN thread' : chat[thread'[i]] = active
    BY <2>1, <2>3, <2>6, <2>11 DEF ThreadFits
  <2>13. ASSUME NEW q \in Calls, call'[q].kind = "send"
         PROVE  /\ call'[q].chat = active
                /\ \A m \in call'[q].found : \A i \in DOMAIN thread' : thread'[i] < m
    <3>1. call'[q] = call[q] /\ call[q].kind = "send"
      BY <1>1, <2>13
    <3>2. /\ call[q].chat = active
          /\ \A m \in call[q].found : \A i \in DOMAIN thread : thread[i] < m
      BY <2>1, <3>1 DEF ThreadFits
    <3>3. call[q].found \subseteq Nat
      BY MessagesAre DEF BadgeInv, InboxTypeOK
    <3>4. \A m \in call[q].found : \A i \in DOMAIN Sorted(S) : Sorted(S)[i] < m
      BY <2>6, <2>9, <2>10, <3>2, <3>3
    <3> QED
      BY <2>11, <3>1, <3>2, <3>4
  <2> QED
    BY <1>1, <2>4, <2>5, <2>8, <2>11, <2>12, <2>13 DEF ThreadFits
<1> QED
  BY <1>1, <1>3 DEF ThreadInv

\* Every step keeps what the thread rests on.
LEMMA ThreadStep ==
  ASSUME BadgeInv, ThreadInv, [InboxNext]_inboxVars
  PROVE  ThreadInv'
<1>1. CASE UNCHANGED inboxVars
  <2>1. UNCHANGED <<chat, call, active, thread, older, astray>>
    BY <1>1 DEF inboxVars, messageVars, threadVars
  <2>2. PageFits'
    BY <2>1 DEF ThreadInv, PageFits, Awaited
  <2>3. ThreadFits => ThreadFits'
    BY <2>1 DEF ThreadFits, Loading, Under
  <2> QED
    BY <2>1, <2>2, <2>3 DEF ThreadInv
<1>2. ASSUME NEW r \in Calls, NEW c \in Chats, NEW s \in Calls, OpenChat(c, r, s)
      PROVE  ThreadInv'
  BY <1>2, OpenShows
<1>3. ASSUME NEW r \in Calls, Serve(r) \/ LoseCall(r) \/ \E c \in Chats : Record(r, c)
      PROVE  ThreadInv'
  BY <1>3, ServeShows
<1>4. ASSUME NEW r \in Calls, Send(r) \/ LoadOlder(r) PROVE ThreadInv'
  BY <1>4, BeginShows
<1>5. ASSUME NEW r \in Calls, Loaded(r) \/ Sent(r) \/ LoadedOlder(r) PROVE ThreadInv'
  BY <1>5, LoadedShows, SentShows, OlderShows
<1> QED
  BY <1>1, <1>2, <1>3, <1>4, <1>5 DEF InboxNext

\* The types of the inbox hold whoever writes, reads, opens and loses requests.
THEOREM InboxTypeCorrect == InboxSpec => []InboxTypeOK
<1>1. InboxInit => BadgeInv
  BY InboxBegins
<1>2. BadgeInv /\ [InboxNext]_inboxVars => BadgeInv'
  BY BadgeStep
<1>3. BadgeInv => InboxTypeOK
  BY DEF BadgeInv
<1> QED
  BY <1>1, <1>2, <1>3, PTL DEF InboxSpec

\* The badge of a conversation counts its unread messages, however messages arrive while it is
\* marked read, and the thread of the page shows messages of the conversation that is open,
\* oldest first and none twice, unless one was sent or older ones asked for across an opening.
THEOREM InboxIsSound == InboxSpec => []InboxSound
<1>1. InboxInit => BadgeInv /\ ThreadInv
  BY InboxBegins
<1>2. BadgeInv /\ ThreadInv /\ [InboxNext]_inboxVars => BadgeInv' /\ ThreadInv'
  BY BadgeStep, ThreadStep
<1>3. BadgeInv /\ ThreadInv => InboxSound
  BY DEF BadgeInv, ThreadInv, ThreadFits, InboxSound, ThreadSound
<1> QED
  BY <1>1, <1>2, <1>3, PTL DEF InboxSpec

-----------------------------------------------------------------------------
(* Listing: any rows, pages of any size, and any requests and changes.       *)

\* Rows in the order of the list, and those that come after one.
Ordered(rows) == \A i, j \in DOMAIN rows : i < j => Newer(rows[i], rows[j])
Has(rows, r) == \E i \in DOMAIN rows : rows[i] = r

\* The rows that were there all along are on a page, or after it, or before it began.
Whole(rows, more, after) ==
  \A r \in steady : \/ Has(rows, r)
                    \/ more /\ Newer(Oldest(rows), r)
                    \/ after # NoRow /\ ~ Newer(after, r)

\* Rows of a first page were found by its search; what comes after the cursor is no such row.
Begun(rows, more) ==
  /\ \A i \in DOMAIN rows : i <= PageSize => rows[i] \in found
  /\ more => Len(rows) >= PageSize

\* A request that is alone is the only one, for what the page shows; an answer has the rows
\* that come after the cursor, in order.
FlightFits(f) ==
  /\ f.append <=> f.cursor # NoRow
  /\ f.alone =>
       /\ flights = {f}
       /\ f.append => f.cursor = cursor
       /\ ~ typed => f.search = search
  /\ f.state = "answered" =>
       /\ Ordered(f.data)
       /\ f.more => f.data # <<>>
       /\ f.append => \A i \in DOMAIN f.data : Newer(f.cursor, f.data[i])
       /\ f.alone =>
            /\ Whole(f.data, f.more, f.cursor)
            /\ ~ f.append => shownFor = f.search /\ Begun(f.data, f.more)

FlightsFit == \A f \in flights : FlightFits(f)

\* What is shown ends at the cursor. If it is clean it is in order, and whole unless a first
\* page has been asked for since.
ShownFits ==
  /\ cursor # NoRow => shown # <<>> /\ cursor = Oldest(shown)
  /\ clean => Ordered(shown)
  /\ clean /\ ~ error /\ (\A f \in flights : f.append) =>
       /\ Whole(shown, hasMore, NoRow) /\ Begun(shown, hasMore)
       /\ ~ typed => shownFor = search

ListingInv == ListingTypeOK /\ FlightsFit /\ ShownFits

-----------------------------------------------------------------------------
(* The order of a list.                                                      *)

\* Rows are in a strict order, and any set of them is finite.
LEMMA NewerOrders ==
  /\ \A r \in Rows : ~ Newer(r, r)
  /\ \A r, s \in Rows : r = s \/ Newer(r, s) \/ Newer(s, r)
  /\ \A r, s, t \in Rows : Newer(r, s) /\ Newer(s, t) => Newer(r, t)
  /\ \A r, s \in Rows : Newer(r, s) => ~ Newer(s, r)
  /\ \A S \in SUBSET Rows : IsFiniteSet(S)
<1>1. \A r \in Rows : r \in [time : Nat, id : Nat]
  BY ListingAssumption DEF ListingAssumption
<1>2. ASSUME NEW r \in Rows, NEW s \in Rows PROVE r = s \/ Newer(r, s) \/ Newer(s, r)
  <2>1. /\ r = [time |-> r.time, id |-> r.id] /\ s = [time |-> s.time, id |-> s.id]
        /\ r.time \in Nat /\ s.time \in Nat /\ r.id \in Nat /\ s.id \in Nat
    BY <1>1
  <2>2. r.time = s.time /\ r.id = s.id => r = s
    BY <2>1
  <2> QED
    BY <2>1, <2>2 DEF Newer
<1>3. /\ \A r \in Rows : ~ Newer(r, r)
      /\ \A r, s, t \in Rows : Newer(r, s) /\ Newer(s, t) => Newer(r, t)
      /\ \A r, s \in Rows : Newer(r, s) => ~ Newer(s, r)
  BY <1>1 DEF Newer
<1>4. \A S \in SUBSET Rows : IsFiniteSet(S)
  BY ListingAssumption, FS_Subset DEF ListingAssumption
<1> QED
  BY <1>2, <1>3, <1>4

\* InOrder(S) has every row of S once, the newest first.
LEMMA InOrderIs ==
  ASSUME NEW S \in SUBSET Rows
  PROVE  /\ InOrder(S) \in Seq(S) /\ Len(InOrder(S)) = Cardinality(S) /\ Cardinality(S) \in Nat
         /\ Ordered(InOrder(S))
         /\ \A r \in S : Has(InOrder(S), r)
<1> DEFINE below == [r \in S |-> {s \in S : Newer(s, r)}]
           c == Cardinality(S)
<1>1. IsFiniteSet(S)
  BY NewerOrders
<1>2. below \in [S -> SUBSET S] /\ \A r \in S : below[r] = {s \in S : Newer(s, r)}
  OBVIOUS
<1> HIDE DEF below
<1>3. \A x, y \in S : x \in below[y] <=> Newer(x, y)
  BY <1>2
<1>4. /\ \A x \in S : x \notin below[x]
      /\ \A x, y \in S : x = y \/ x \in below[y] \/ y \in below[x]
      /\ \A x, y \in S : x \in below[y] => below[x] \subseteq below[y]
  <2>1. \A x, y \in S : x \in below[y] => below[x] \subseteq below[y]
    BY <1>2, <1>3, NewerOrders
  <2> QED
    BY <1>3, <2>1, NewerOrders
<1>5. /\ c \in Nat
      /\ \A x \in S : Cardinality(below[x]) \in 0..(c - 1)
      /\ \A i \in 1..c : \E x \in S : Cardinality(below[x]) = i - 1
      /\ \A x, y \in S : Cardinality(below[x]) < Cardinality(below[y]) <=> x \in below[y]
  BY <1>1, <1>2, <1>4, Ranked
<1>6. \A i \in 1..c : InOrder(S)[i] \in S /\ Cardinality(below[InOrder(S)[i]]) = i - 1
  <2> SUFFICES ASSUME NEW i \in 1..c
               PROVE  InOrder(S)[i] \in S /\ Cardinality(below[InOrder(S)[i]]) = i - 1
    OBVIOUS
  <2>1. \E r \in S : Cardinality({s \in S : Newer(s, r)}) = i - 1
    BY <1>2, <1>5
  <2>2. InOrder(S)[i] = CHOOSE r \in S : Cardinality({s \in S : Newer(s, r)}) = i - 1
    BY DEF InOrder
  <2>3. InOrder(S)[i] \in S /\ Cardinality({s \in S : Newer(s, InOrder(S)[i])}) = i - 1
    BY <2>1, <2>2
  <2> QED
    BY <1>2, <2>3
<1>7. DOMAIN InOrder(S) = 1..c /\ InOrder(S) \in [1..c -> S]
  <2> DEFINE e(i) == CHOOSE r \in S : Cardinality({s \in S : Newer(s, r)}) = i - 1
  <2>1. InOrder(S) = [i \in 1..c |-> e(i)]
    BY DEF InOrder
  <2>2. \A i \in 1..c : e(i) \in S
    BY <1>6, <2>1
  <2> HIDE DEF e, c
  <2> QED
    BY <2>1, <2>2
<1>8. InOrder(S) \in Seq(S) /\ Len(InOrder(S)) = c
  BY <1>5, <1>7
<1>9. ASSUME NEW i \in 1..c, NEW j \in 1..c, i < j PROVE Newer(InOrder(S)[i], InOrder(S)[j])
  <2>1. Cardinality(below[InOrder(S)[i]]) < Cardinality(below[InOrder(S)[j]])
    BY <1>5, <1>6, <1>9
  <2> QED
    BY <1>3, <1>5, <1>6, <2>1
<1>10. ASSUME NEW r \in S PROVE \E i \in 1..c : InOrder(S)[i] = r
  <2> DEFINE k == Cardinality(below[r]) + 1
             q == InOrder(S)[k]
  <2>1. k \in 1..c
    BY <1>5
  <2>2. q \in S /\ Cardinality(below[q]) = Cardinality(below[r])
    <3>1. q \in S /\ Cardinality(below[q]) = k - 1
      BY <1>6, <2>1
    <3> QED
      BY <1>5, <3>1
  <2>3. ~ (Cardinality(below[q]) < Cardinality(below[r]))
        /\ ~ (Cardinality(below[r]) < Cardinality(below[q]))
    BY <1>5, <2>2
  <2> HIDE DEF q
  <2>4. q = r
    BY <1>4, <1>5, <2>2, <2>3
  <2> QED
    BY <2>1, <2>4 DEF q
<1> QED
  BY <1>5, <1>7, <1>8, <1>9, <1>10 DEF Ordered, Has

\* A page has the newest rows of S, in order, and the others are older than its last.
LEMMA PageIs ==
  ASSUME NEW S \in SUBSET Rows
  PROVE  /\ PageOf(S) \in Seq(S) /\ Ordered(PageOf(S)) /\ More(S) \in BOOLEAN
         /\ More(S) => PageOf(S) # <<>> /\ Len(PageOf(S)) = PageSize
         /\ \A r \in S : Has(PageOf(S), r) \/ (More(S) /\ Newer(Oldest(PageOf(S)), r))
<1> DEFINE o == InOrder(S)
           n == Cardinality(S)
<1>1. /\ o \in Seq(S) /\ Len(o) = n /\ n \in Nat /\ Ordered(o)
      /\ \A r \in S : Has(o, r)
      /\ PageSize \in Nat \ {0}
  BY InOrderIs, ListingAssumption DEF ListingAssumption
<1>2. More(S) \in BOOLEAN /\ (More(S) <=> n > PageSize)
  BY DEF More
<1> HIDE DEF o, n
<1>3. CASE ~ More(S)
  <2>1. PageOf(S) = o
    BY <1>3 DEF PageOf, o
  <2> QED
    BY <1>1, <1>2, <1>3, <2>1
<1>4. CASE More(S)
  <2>1. PageOf(S) = SubSeq(o, 1, PageSize)
    BY <1>4 DEF PageOf, o
  <2>2. PageSize \in 1..n /\ 1 \in 1..n
    BY <1>1, <1>2, <1>4
  <2>3. /\ PageOf(S) \in Seq(S) /\ Len(PageOf(S)) = PageSize
        /\ \A i \in 1..PageSize : PageOf(S)[i] = o[i]
    BY <1>1, <2>1, <2>2
  <2>4. DOMAIN PageOf(S) = 1..PageSize /\ DOMAIN o = 1..n
    BY <1>1, <2>3
  <2>5. Ordered(PageOf(S)) /\ PageOf(S) # <<>>
    <3>1. 1..PageSize \subseteq 1..n
      BY <1>1, <1>2, <1>4
    <3>2. Ordered(PageOf(S))
      BY <1>1, <2>3, <2>4, <3>1 DEF Ordered
    <3>3. Len(PageOf(S)) # 0
      BY <1>1, <2>3
    <3> QED
      BY <2>3, <3>2, <3>3, EmptySeq
  <2>6. ASSUME NEW r \in S, ~ Has(PageOf(S), r) PROVE Newer(Oldest(PageOf(S)), r)
    <3>1. PICK j \in 1..n : o[j] = r
      BY <1>1, <2>4 DEF Has
    <3>2. ~ (j \in 1..PageSize)
      BY <2>3, <2>4, <2>6, <3>1 DEF Has
    <3>3. PageSize < j
      BY <1>1, <3>2
    <3>4. Newer(o[PageSize], o[j])
      BY <1>1, <2>2, <2>4, <3>3 DEF Ordered
    <3> QED
      BY <1>1, <2>3, <3>1, <3>4 DEF Oldest
  <2> QED
    BY <1>2, <1>4, <2>3, <2>5, <2>6
<1> QED
  BY <1>3, <1>4

-----------------------------------------------------------------------------
(* Requests for pages.                                                       *)

\* What a step changes in a request keeps its type.
LEMMA FlightTyped ==
  /\ \A f \in Flight :
       /\ Disturbed(f) \in Flight /\ ~ Disturbed(f).alone
       /\ Disturbed(f).n = f.n /\ Disturbed(f).append = f.append
       /\ Disturbed(f).search = f.search /\ Disturbed(f).cursor = f.cursor
       /\ Disturbed(f).state = f.state /\ Disturbed(f).data = f.data
       /\ Disturbed(f).more = f.more
  /\ \A f \in Flight, S \in SUBSET Rows :
       /\ WithPage(f, S) \in Flight /\ WithPage(f, S).state = "answered"
       /\ WithPage(f, S).data = PageOf(S) /\ WithPage(f, S).more = More(S)
       /\ WithPage(f, S).n = f.n /\ WithPage(f, S).append = f.append
       /\ WithPage(f, S).search = f.search /\ WithPage(f, S).cursor = f.cursor
       /\ WithPage(f, S).alone = f.alone
<1>1. ASSUME NEW f \in Flight
      PROVE  /\ Disturbed(f) \in Flight /\ ~ Disturbed(f).alone
             /\ Disturbed(f).n = f.n /\ Disturbed(f).append = f.append
             /\ Disturbed(f).search = f.search /\ Disturbed(f).cursor = f.cursor
             /\ Disturbed(f).state = f.state /\ Disturbed(f).data = f.data
             /\ Disturbed(f).more = f.more
  BY DEF Flight, Disturbed
<1>2. ASSUME NEW f \in Flight, NEW S \in SUBSET Rows
      PROVE  /\ WithPage(f, S) \in Flight /\ WithPage(f, S).state = "answered"
             /\ WithPage(f, S).data = PageOf(S) /\ WithPage(f, S).more = More(S)
             /\ WithPage(f, S).n = f.n /\ WithPage(f, S).append = f.append
             /\ WithPage(f, S).search = f.search /\ WithPage(f, S).cursor = f.cursor
             /\ WithPage(f, S).alone = f.alone
  <2> DEFINE d == PageOf(S)
             b == More(S)
             g == [f EXCEPT !.state = "answered"]
             h == [g EXCEPT !.data = d]
  <2>1. d \in Seq(Rows) /\ b \in BOOLEAN
    BY PageIs, SeqMonotonic
  <2>2. WithPage(f, S) = [h EXCEPT !.more = b]
    BY DEF WithPage
  <2> HIDE DEF d, b
  <2>3. /\ g \in Flight /\ g.state = "answered" /\ g.n = f.n /\ g.append = f.append
        /\ g.search = f.search /\ g.cursor = f.cursor /\ g.alone = f.alone
    BY DEF Flight
  <2> HIDE DEF g
  <2>4. /\ h \in Flight /\ h.state = "answered" /\ h.n = f.n /\ h.append = f.append
        /\ h.search = f.search /\ h.cursor = f.cursor /\ h.alone = f.alone /\ h.data = d
    BY <2>1, <2>3 DEF Flight
  <2> HIDE DEF h
  <2>5. /\ [h EXCEPT !.more = b] \in Flight /\ [h EXCEPT !.more = b].more = b
        /\ [h EXCEPT !.more = b].state = h.state /\ [h EXCEPT !.more = b].n = h.n
        /\ [h EXCEPT !.more = b].append = h.append /\ [h EXCEPT !.more = b].search = h.search
        /\ [h EXCEPT !.more = b].cursor = h.cursor /\ [h EXCEPT !.more = b].alone = h.alone
        /\ [h EXCEPT !.more = b].data = h.data
    BY <2>1, <2>4 DEF Flight
  <2> QED
    BY <2>2, <2>4, <2>5 DEF d, b
<1> QED
  BY <1>1, <1>2

-----------------------------------------------------------------------------
(* The list stays in order and whole.                                        *)

\* A step that asks for nothing and shows nothing, and loses rows at most, keeps it so.
LEMMA ListStays ==
  ASSUME ListingInv, steady' \subseteq steady, ListingTypeOK',
         UNCHANGED <<shown, cursor, hasMore, error, flights, shownFor, found, clean>>,
         ~ typed' => ~ typed /\ search' = search
  PROVE  ListingInv'
<1>1. ASSUME NEW rows, NEW more, NEW after, Whole(rows, more, after)
      PROVE  \A r \in steady' : \/ Has(rows, r)
                                \/ more /\ Newer(Oldest(rows), r)
                                \/ after # NoRow /\ ~ Newer(after, r)
  BY <1>1 DEF Whole
<1>2. FlightsFit'
  <2> SUFFICES ASSUME NEW f \in flights PROVE FlightFits(f)'
    BY DEF FlightsFit
  <2>1. FlightFits(f)
    BY DEF ListingInv, FlightsFit
  <2>2. Whole(f.data, f.more, f.cursor) => Whole(f.data, f.more, f.cursor)'
    BY <1>1 DEF Whole
  <2> QED
    BY <2>1, <2>2 DEF FlightFits, Begun
<1>3. ShownFits'
  <2>1. Whole(shown, hasMore, NoRow) => Whole(shown, hasMore, NoRow)'
    BY <1>1 DEF Whole
  <2> QED
    BY <2>1 DEF ListingInv, ShownFits, Begun
<1> QED
  BY <1>2, <1>3 DEF ListingInv

\* A page that is asked for: the first, or the one after the cursor.
LEMMA AskKeeps ==
  ASSUME ListingInv, NEW append \in BOOLEAN, NEW s \in {All, Word}, NEW c \in Rows \cup {NoRow},
         Ask(append, s, c), append <=> c # NoRow, typed' \in BOOLEAN,
         append => c = cursor /\ ~ error /\ typed' = typed,
         saving' \in {All, Word, NoRow}
  PROVE  ListingInv'
<1> USE DEF ListingInv
<1> PICK a \in BOOLEAN : a = (flights = {} /\ s = search)
  OBVIOUS
<1> PICK g : g = Flying(append, s, c, a)
  OBVIOUS
<1>1. /\ flights' = {Disturbed(f) : f \in flights} \cup {g}
      /\ loads' = loads + 1 /\ loads < MaxLoads /\ error' = FALSE /\ loading' = TRUE
      /\ UNCHANGED <<standing, named, everMade, changes, shown, search, cursor, hasMore, steady,
                     shownFor, found, clean>>
  BY DEF Ask, dataVars, firstVars
<1>2. a \in BOOLEAN /\ loads \in 0..MaxLoads /\ MaxLoads \in Nat
  BY ListingAssumption DEF ListingTypeOK, ListingAssumption
<1>3. /\ g \in Flight /\ g.n = loads + 1 /\ g.append = append /\ g.search = s /\ g.cursor = c
      /\ g.state = "asked" /\ g.alone = a
  <2>1. /\ g.n = loads + 1 /\ g.append = append /\ g.search = s /\ g.cursor = c
        /\ g.state = "asked" /\ g.alone = a
    BY DEF Flying
  <2>2. g \in Flight
    BY <1>2 DEF Flying, Flight
  <2> QED
    BY <2>1, <2>2
<1>4. a => flights = {} /\ s = search
  OBVIOUS
<1>5. \A f \in flights : f \in Flight /\ f.n <= loads /\ FlightFits(f)
  BY DEF ListingTypeOK, FlightsFit
<1>6. ListingTypeOK'
  <2>1. loads' \in 0..MaxLoads
    BY <1>1, <1>2
  <2>2. flights' \subseteq Flight
    BY <1>1, <1>3, <1>5, FlightTyped
  <2>3. \A f \in flights' : f.n <= loads'
    <3>1. g.n <= loads'
      BY <1>1, <1>2, <1>3
    <3>2. ASSUME NEW f \in flights PROVE Disturbed(f).n <= loads'
      <4>1. Disturbed(f).n = f.n /\ f.n \in Nat
        BY <1>5, FlightTyped DEF Flight
      <4> QED
        BY <1>1, <1>2, <1>5, <4>1
    <3> QED
      BY <1>1, <3>1, <3>2
  <2> QED
    BY <1>1, <2>1, <2>2, <2>3 DEF ListingTypeOK
<1>7. FlightsFit'
  <2>1. FlightFits(g)'
    BY <1>1, <1>3, <1>4 DEF FlightFits
  <2>2. ASSUME NEW f \in flights PROVE FlightFits(Disturbed(f))'
    BY <1>5, FlightTyped DEF FlightFits
  <2> QED
    BY <1>1, <2>1, <2>2 DEF FlightsFit
<1>8. ShownFits'
  <2>1. cursor' # NoRow => shown' # <<>> /\ cursor' = Oldest(shown')
    BY <1>1 DEF ShownFits
  <2>2. clean' => Ordered(shown')
    BY <1>1 DEF ShownFits
  <2>3. ASSUME clean', \A f \in flights' : f.append
        PROVE  /\ Whole(shown, hasMore, NoRow)' /\ Begun(shown, hasMore)'
               /\ ~ typed' => shownFor' = search'
    <3>1. append /\ \A f \in flights : f.append
      BY <1>1, <1>3, <1>5, <2>3, FlightTyped
    <3>2. /\ Whole(shown, hasMore, NoRow) /\ Begun(shown, hasMore)
          /\ ~ typed => shownFor = search
      BY <1>1, <2>3, <3>1 DEF ShownFits
    <3> QED
      BY <1>1, <3>1, <3>2 DEF Whole, Begun
  <2> QED
    BY <2>1, <2>2, <2>3 DEF ShownFits
<1> QED
  BY <1>6, <1>7, <1>8

\* While a request is alone there is no other.
LEMMA AloneIs ==
  ASSUME ListingInv, NEW f \in flights
  PROVE  /\ FlightFits(f) /\ f \in Flight /\ f.n <= loads
         /\ \A h \in flights \ {f} : ~ h.alone /\ FlightFits(h) /\ h \in Flight /\ h.n <= loads
<1>1. \A h \in flights : FlightFits(h) /\ h \in Flight /\ h.n <= loads
  BY DEF ListingInv, FlightsFit, ListingTypeOK
<1>2. \A h \in flights \ {f} : ~ h.alone
  BY <1>1 DEF FlightFits
<1> QED
  BY <1>1, <1>2

\* Of a request that is not alone only its answer matters.
LEMMA OthersFit ==
  ASSUME NEW h, FlightFits(h), ~ h.alone
  PROVE  FlightFits(h)'
BY DEF FlightFits

\* A page that is answered.
LEMMA AnswerFits ==
  ASSUME ListingInv, NEW f \in flights, List(f)
  PROVE  ListingInv'
<1> USE DEF ListingInv
<1>1. /\ FlightFits(f) /\ f \in Flight /\ f.n <= loads
      /\ \A h \in flights \ {f} : ~ h.alone /\ FlightFits(h) /\ h \in Flight /\ h.n <= loads
  BY AloneIs
<1> PICK S : S = Candidates(f.search, f.cursor)
  OBVIOUS
<1> PICK g : g = WithPage(f, S)
  OBVIOUS
<1>2. /\ flights' = (flights \ {f}) \cup {g}
      /\ f.append => steady' = steady /\ shownFor' = shownFor /\ found' = found
      /\ ~ f.append => /\ steady' = Candidates(f.search, NoRow) /\ shownFor' = f.search
                       /\ found' = Candidates(f.search, NoRow)
      /\ UNCHANGED <<standing, named, everMade, changes, shown, search, cursor, hasMore, loading,
                     error, typed, saving, clean, loads>>
  BY DEF List, Becomes, dataVars, pageVars, firstVars
<1>3. /\ standing \subseteq Rows /\ steady \subseteq standing
      /\ f.cursor # NoRow => S = {r \in standing : Newer(f.cursor, r)}
      /\ f.cursor = NoRow => S = Candidates(f.search, NoRow)
      /\ S \subseteq standing /\ Candidates(f.search, NoRow) \subseteq standing
  BY DEF ListingTypeOK, Candidates, Beyond
<1>4. /\ g \in Flight /\ g.state = "answered" /\ g.n = f.n /\ g.append = f.append
      /\ g.search = f.search /\ g.cursor = f.cursor /\ g.alone = f.alone
      /\ g.data = PageOf(S) /\ g.more = More(S)
  <2>1. S \in SUBSET Rows
    BY <1>3
  <2> QED
    BY <1>1, <2>1, FlightTyped
<1>5. /\ g.data \in Seq(S) /\ Ordered(g.data)
      /\ g.more => g.data # <<>> /\ Len(g.data) = PageSize
      /\ \A r \in S : Has(g.data, r) \/ (g.more /\ Newer(Oldest(g.data), r))
  <2>1. S \in SUBSET Rows
    BY <1>3
  <2> QED
    BY <1>4, <2>1, PageIs
<1>6. \A i \in DOMAIN g.data : g.data[i] \in S
  BY <1>5, ElementOfSeq
<1>7. ListingTypeOK'
  <2>1. flights' \subseteq Flight /\ \A h \in flights' : h.n <= loads
    BY <1>1, <1>2, <1>4
  <2>2. steady' \subseteq standing /\ found' \subseteq Rows
    BY <1>2, <1>3 DEF Flight, ListingTypeOK
  <2>3. shownFor' \in {All, Word}
    BY <1>1, <1>2 DEF Flight, ListingTypeOK
  <2> QED
    BY <1>2, <2>1, <2>2, <2>3 DEF ListingTypeOK
<1>8. FlightFits(g)'
  <2>1. g.append <=> g.cursor # NoRow
    BY <1>1, <1>4 DEF FlightFits
  <2>2. g.alone => flights' = {g} /\ (g.append => g.cursor = cursor')
                  /\ (~ typed' => g.search = search')
    BY <1>1, <1>2, <1>4 DEF FlightFits
  <2>3. g.append => \A i \in DOMAIN g.data : Newer(g.cursor, g.data[i])
    BY <1>3, <1>4, <1>6, <2>1
  <2>4. ASSUME NEW r \in steady'
        PROVE  \/ Has(g.data, r)
               \/ g.more /\ Newer(Oldest(g.data), r)
               \/ g.cursor # NoRow /\ ~ Newer(g.cursor, r)
    <3>1. CASE f.append
      <4>1. r \in standing /\ f.cursor # NoRow
        BY <1>2, <1>3, <1>4, <2>1, <3>1
      <4> QED
        BY <1>3, <1>4, <1>5, <4>1
    <3>2. CASE ~ f.append
      <4>1. r \in S
        BY <1>2, <1>3, <1>4, <2>1, <3>2
      <4> QED
        BY <1>5, <4>1
    <3> QED
      BY <3>1, <3>2
  <2>5. ~ g.append => shownFor' = g.search /\ Begun(g.data, g.more)'
    <3> SUFFICES ASSUME ~ g.append PROVE shownFor' = g.search /\ Begun(g.data, g.more)'
      OBVIOUS
    <3>1. f.cursor = NoRow /\ found' = S /\ shownFor' = g.search
      BY <1>2, <1>3, <1>4, <2>1
    <3>2. PageSize \in Nat
      BY ListingAssumption DEF ListingAssumption
    <3> QED
      BY <1>5, <1>6, <3>1, <3>2 DEF Begun
  <2> QED
    BY <1>5, <2>1, <2>2, <2>3, <2>4, <2>5 DEF FlightFits, Whole
<1>9. FlightsFit'
  BY <1>1, <1>2, <1>8, OthersFit DEF FlightsFit
<1>10. ShownFits'
  <2>1. (\A h \in flights' : h.append) => f.append /\ \A h \in flights : h.append
    BY <1>2, <1>4
  <2> QED
    BY <1>2, <2>1 DEF ShownFits, Whole, Begun
<1> QED
  BY <1>7, <1>9, <1>10

\* Rows appended to others: what either has is there, and the last is the last.
LEMMA JoinedRows ==
  ASSUME NEW s \in Seq(Rows), NEW t \in Seq(Rows)
  PROVE  /\ s \o t \in Seq(Rows)
         /\ \A r : Has(s, r) \/ Has(t, r) => Has(s \o t, r)
         /\ t # <<>> => s \o t # <<>> /\ Oldest(s \o t) = Oldest(t)
<1>1. /\ s \o t \in Seq(Rows) /\ Len(s \o t) = Len(s) + Len(t)
      /\ Len(s) \in Nat /\ Len(t) \in Nat
      /\ \A i \in 1..Len(s) : (s \o t)[i] = s[i]
      /\ \A i \in 1..Len(t) : (s \o t)[Len(s) + i] = t[i]
  BY ConcatProperties, LenProperties
<1>2. DOMAIN s = 1..Len(s) /\ DOMAIN t = 1..Len(t) /\ DOMAIN (s \o t) = 1..(Len(s) + Len(t))
  BY <1>1
<1>3. ASSUME NEW r, Has(s, r) PROVE Has(s \o t, r)
  <2>1. PICK i \in 1..Len(s) : s[i] = r
    BY <1>2, <1>3 DEF Has
  <2>2. i \in DOMAIN (s \o t) /\ (s \o t)[i] = r
    BY <1>1, <1>2, <2>1
  <2> QED
    BY <2>2 DEF Has
<1>4. ASSUME NEW r, Has(t, r) PROVE Has(s \o t, r)
  <2>1. PICK i \in 1..Len(t) : t[i] = r
    BY <1>2, <1>4 DEF Has
  <2>2. Len(s) + i \in DOMAIN (s \o t) /\ (s \o t)[Len(s) + i] = r
    BY <1>1, <1>2, <2>1
  <2> QED
    BY <2>2 DEF Has
<1>5. ASSUME t # <<>> PROVE s \o t # <<>> /\ Oldest(s \o t) = Oldest(t)
  <2>1. Len(t) # 0
    BY <1>5, EmptySeq
  <2>2. Len(t) \in 1..Len(t) /\ Len(s \o t) # 0
    BY <1>1, <2>1
  <2> QED
    BY <1>1, <2>2 DEF Oldest
<1> QED
  BY <1>1, <1>3, <1>4, <1>5

\* A page that arrives and is shown.
LEMMA ReceiveKeeps ==
  ASSUME ListingInv, NEW f \in flights, Receive(f)
  PROVE  ListingInv'
<1> USE DEF ListingInv
<1>1. /\ FlightFits(f) /\ f \in Flight /\ f.state = "answered"
      /\ \A h \in flights \ {f} : ~ h.alone /\ FlightFits(h) /\ h \in Flight /\ h.n <= loads
  BY AloneIs DEF Receive
<1>2. /\ flights' = flights \ {f} /\ hasMore' = f.more /\ loading' = FALSE
      /\ f.append => shown' = shown \o f.data
      /\ ~ f.append => shown' = f.data
      /\ f.more => cursor' = Oldest(f.data)
      /\ ~ f.more => cursor' = NoRow
      /\ clean' = (f.alone /\ (f.append => clean))
      /\ UNCHANGED <<standing, named, everMade, changes, search, error, typed, saving, steady,
                     shownFor, found, loads>>
  BY DEF Receive, dataVars, firstVars
<1>3. /\ f.data \in Seq(Rows) /\ f.more \in BOOLEAN /\ f.alone \in BOOLEAN /\ f.append \in BOOLEAN
      /\ shown \in Seq(Rows)
      /\ Ordered(f.data) /\ (f.more => f.data # <<>>) /\ (f.append <=> f.cursor # NoRow)
  BY <1>1 DEF Flight, ListingTypeOK, FlightFits
<1>4. /\ shown \o f.data \in Seq(Rows)
      /\ \A r : Has(shown, r) \/ Has(f.data, r) => Has(shown \o f.data, r)
      /\ f.data # <<>> => shown \o f.data # <<>> /\ Oldest(shown \o f.data) = Oldest(f.data)
  BY <1>3, JoinedRows
<1>5. /\ shown' \in Seq(Rows) /\ cursor' \in Rows \cup {NoRow} /\ (cursor' # NoRow <=> f.more)
      /\ cursor' # NoRow => shown' # <<>> /\ cursor' = Oldest(shown')
  <2>1. shown' \in Seq(Rows)
    BY <1>2, <1>3, <1>4
  <2>2. f.more => Oldest(f.data) \in Rows
    <3> SUFFICES ASSUME f.more PROVE Oldest(f.data) \in Rows
      OBVIOUS
    <3>1. Len(f.data) \in DOMAIN f.data
      <4>1. Len(f.data) \in Nat /\ Len(f.data) # 0 /\ DOMAIN f.data = 1..Len(f.data)
        BY <1>3, EmptySeq, LenProperties
      <4> QED
        BY <4>1
    <3> QED
      BY <1>3, <3>1, ElementOfSeq DEF Oldest
  <2>3. NoRow \notin Rows
    BY ListingAssumption DEF ListingAssumption
  <2>4. f.more => shown' # <<>> /\ Oldest(f.data) = Oldest(shown')
    BY <1>2, <1>3, <1>4
  <2> QED
    BY <1>2, <2>1, <2>2, <2>3, <2>4
<1>6. ListingTypeOK'
  <2>1. clean' \in BOOLEAN
    BY <1>2
  <2>2. flights' \subseteq Flight /\ \A h \in flights' : h.n <= loads
    BY <1>1, <1>2
  <2>3. hasMore' <=> cursor' # NoRow
    BY <1>2, <1>5
  <2> QED
    BY <1>2, <1>5, <2>1, <2>2, <2>3 DEF ListingTypeOK
<1>7. FlightsFit'
  BY <1>1, <1>2, OthersFit DEF FlightsFit
<1>8. ASSUME clean'
      PROVE  /\ f.alone /\ flights = {f} /\ (f.append => f.cursor = cursor /\ clean)
             /\ ~ typed => f.search = search
             /\ Whole(f.data, f.more, f.cursor)
             /\ ~ f.append => shownFor = f.search /\ Begun(f.data, f.more)
  BY <1>1, <1>2, <1>8 DEF FlightFits
<1>9. ASSUME clean' PROVE Ordered(shown')
  <2>1. CASE ~ f.append
    BY <1>2, <1>3, <2>1
  <2>2. CASE f.append
    <3>1. /\ Ordered(shown) /\ cursor # NoRow /\ cursor \in Rows
          /\ shown # <<>> /\ cursor = Oldest(shown)
          /\ \A i \in DOMAIN f.data : Newer(cursor, f.data[i])
      BY <1>1, <1>3, <1>8, <1>9, <2>2 DEF ShownFits, FlightFits, ListingTypeOK
    <3>2. /\ \A i \in DOMAIN shown : shown[i] \in Rows
          /\ \A i \in DOMAIN f.data : f.data[i] \in Rows
      BY <1>3, ElementOfSeq
    <3>3. \A i \in DOMAIN shown : shown[i] = cursor \/ Newer(shown[i], cursor)
      <4>1. /\ Len(shown) \in Nat /\ DOMAIN shown = 1..Len(shown) /\ cursor = shown[Len(shown)]
        BY <1>3, <3>1, LenProperties DEF Oldest
      <4>2. \A i \in DOMAIN shown :
              i = Len(shown) \/ (i < Len(shown) /\ Len(shown) \in DOMAIN shown)
        BY <4>1
      <4> QED
        BY <3>1, <4>1, <4>2 DEF Ordered
    <3>4. \A i \in DOMAIN shown : \A j \in DOMAIN f.data : Newer(shown[i], f.data[j])
      BY <3>1, <3>2, <3>3, NewerOrders
    <3> DEFINE order == {p \in Rows \X Rows : Newer(p[1], p[2])}
    <3>5. /\ \A i, j \in DOMAIN shown : i < j => <<shown[i], shown[j]>> \in order
          /\ \A i, j \in DOMAIN f.data : i < j => <<f.data[i], f.data[j]>> \in order
          /\ \A i \in DOMAIN shown : \A j \in DOMAIN f.data : <<shown[i], f.data[j]>> \in order
      BY <1>3, <3>1, <3>2, <3>4 DEF Ordered
    <3>6. \A r, s \in Rows : <<r, s>> \in order => Newer(r, s)
      OBVIOUS
    <3>7. order \subseteq Rows \X Rows
      OBVIOUS
    <3> HIDE DEF order
    <3>8. \A i, j \in DOMAIN (shown \o f.data) :
            i < j => <<(shown \o f.data)[i], (shown \o f.data)[j]>> \in order
      BY <1>3, <3>5, JoinedInOrder
    <3>9. \A i \in DOMAIN (shown \o f.data) : (shown \o f.data)[i] \in Rows
      BY <1>4, ElementOfSeq
    <3> QED
      BY <1>2, <2>2, <3>6, <3>8, <3>9 DEF Ordered
  <2> QED
    BY <1>3, <2>1, <2>2
<1>10. ASSUME clean', ~ error', \A h \in flights' : h.append
       PROVE  /\ Whole(shown, hasMore, NoRow)' /\ Begun(shown, hasMore)'
              /\ ~ typed' => shownFor' = search'
  <2>1. CASE ~ f.append
    <3>1. Whole(f.data, f.more, NoRow)
      BY <1>3, <1>8, <1>10, <2>1 DEF Whole
    <3>2. shown' = f.data /\ hasMore' = f.more
      BY <1>2, <2>1
    <3> QED
      BY <1>2, <1>8, <1>10, <2>1, <3>1, <3>2 DEF Whole, Begun
  <2>2. CASE f.append
    <3>1. /\ Whole(shown, hasMore, NoRow) /\ (~ typed => shownFor = search)
          /\ Begun(shown, hasMore) /\ Whole(f.data, f.more, cursor) /\ clean
          /\ cursor # NoRow /\ cursor = Oldest(shown)
      BY <1>2, <1>3, <1>8, <1>10, <2>2 DEF ShownFits
    <3>2. ASSUME NEW r \in steady PROVE Has(shown', r) \/ (f.more /\ Newer(Oldest(shown'), r))
      <4>1. Has(shown, r) \/ Newer(cursor, r)
        BY <3>1, <3>2 DEF Whole
      <4>2. Has(f.data, r) \/ (f.more /\ Newer(Oldest(f.data), r)) \/ ~ Newer(cursor, r)
        BY <3>1, <3>2 DEF Whole
      <4>3. Has(shown, r) \/ Has(f.data, r) => Has(shown', r)
        BY <1>2, <1>4, <2>2
      <4>4. f.more => Oldest(shown') = Oldest(f.data)
        BY <1>2, <1>3, <1>4, <2>2
      <4> QED
        BY <4>1, <4>2, <4>3, <4>4
    <3>3. Begun(shown, hasMore)'
      <4>1. hasMore /\ PageSize \in Nat /\ Len(shown) >= PageSize
        BY <3>1, ListingAssumption DEF Begun, ListingTypeOK, ListingAssumption
      <4>2. /\ Len(shown) \in Nat /\ Len(f.data) \in Nat
            /\ Len(shown') = Len(shown) + Len(f.data)
            /\ DOMAIN shown' = 1..Len(shown') /\ DOMAIN shown = 1..Len(shown)
            /\ \A i \in 1..Len(shown) : shown'[i] = shown[i]
        BY <1>2, <1>3, <1>4, <2>2, ConcatProperties, LenProperties
      <4>3. ASSUME NEW i \in DOMAIN shown', i <= PageSize PROVE shown'[i] \in found'
        <5>1. i \in 1..Len(shown)
          BY <4>1, <4>2, <4>3
        <5> QED
          BY <1>2, <3>1, <4>2, <4>3, <5>1 DEF Begun
      <4> QED
        BY <4>1, <4>2, <4>3 DEF Begun
    <3> QED
      BY <1>2, <3>1, <3>2, <3>3 DEF Whole
  <2> QED
    BY <1>3, <2>1, <2>2
<1>11. ShownFits'
  BY <1>5, <1>9, <1>10 DEF ShownFits
<1> QED
  BY <1>6, <1>7, <1>11

\* A page that is lost.
LEMMA LoseKeepsList ==
  ASSUME ListingInv, NEW f \in flights, LosePage(f)
  PROVE  ListingInv'
<1> USE DEF ListingInv
<1>1. \A h \in flights \ {f} : ~ h.alone /\ FlightFits(h) /\ h \in Flight /\ h.n <= loads
  BY AloneIs
<1>2. /\ flights' = flights \ {f} /\ loading' = FALSE /\ error' = TRUE
      /\ UNCHANGED <<standing, named, everMade, changes, shown, search, cursor, hasMore, typed,
                     saving, steady, shownFor, found, clean, loads>>
  BY DEF LosePage, dataVars, firstVars
<1>3. ListingTypeOK'
  BY <1>1, <1>2 DEF ListingTypeOK
<1>4. FlightsFit'
  BY <1>1, <1>2, OthersFit DEF FlightsFit
<1>5. ShownFits'
  BY <1>2 DEF ShownFits
<1> QED
  BY <1>3, <1>4, <1>5

-----------------------------------------------------------------------------
(* What may happen to the rows, and what the page may do.                    *)

\* A row that comes, goes or changes disturbs nothing: rows of the first page go at most.
LEMMA RowsKeep ==
  ASSUME ListingInv, DataStep
  PROVE  ListingInv'
<1>1. PICK r \in Rows : Create(r) \/ Delete(r) \/ Update(r)
  BY DEF DataStep
<1>2. changes' \in 0..MaxChanges
  BY ListingAssumption DEF DataStep, ListingInv, ListingTypeOK, ListingAssumption
<1>3. /\ UNCHANGED <<pageVars, flights, shownFor, found, clean, loads>>
      /\ steady' \subseteq steady
      /\ standing' \subseteq everMade' /\ everMade' \subseteq Rows /\ named' \subseteq Rows
      /\ steady' \subseteq standing'
  <2>1. CASE Create(r)
    BY <2>1 DEF Create, ListingInv, ListingTypeOK, firstVars
  <2>2. CASE Delete(r)
    BY <2>2 DEF Delete, ListingInv, ListingTypeOK, firstVars
  <2>3. CASE Update(r)
    <3>1. named' \subseteq Rows /\ steady' \subseteq steady
      BY <2>3 DEF Update, ListingInv, ListingTypeOK
    <3> QED
      BY <2>3, <3>1 DEF Update, ListingInv, ListingTypeOK, firstVars
  <2> QED
    BY <1>1, <2>1, <2>2, <2>3
<1>4. ListingTypeOK'
  BY <1>2, <1>3 DEF ListingInv, ListingTypeOK, pageVars
<1>5. /\ UNCHANGED <<shown, cursor, hasMore, error, flights, shownFor, found, clean>>
      /\ ~ typed' => ~ typed /\ search' = search
  BY <1>3 DEF pageVars
<1> QED
  BY <1>3, <1>4, <1>5, ListStays

\* What the page does keeps the list in order and whole.
LEMMA PageKeeps ==
  ASSUME ListingInv, PageStep
  PROVE  ListingInv'
<1>1. /\ ListingTypeOK /\ search \in {All, Word} /\ typed \in BOOLEAN
      /\ cursor \in Rows \cup {NoRow} /\ NoRow \in Rows \cup {NoRow}
      /\ saving \in {All, Word, NoRow} /\ NoRow \notin {All, Word} /\ (hasMore <=> cursor # NoRow)
  BY ListingAssumption DEF ListingInv, ListingTypeOK, ListingAssumption
<1>2. CASE Type
  <2>1. /\ ListingTypeOK' /\ steady' \subseteq steady
        /\ UNCHANGED <<shown, cursor, hasMore, error, flights, shownFor, found, clean>>
        /\ ~ typed' => ~ typed /\ search' = search
    BY <1>1, <1>2 DEF Type, ListingTypeOK, dataVars, firstVars
  <2> QED
    BY <2>1, ListStays
<1>3. CASE SendChange \/ ChangeFailed
  <2>1. saving' \in {All, Word, NoRow}
    BY <1>1, <1>3 DEF SendChange, ChangeFailed
  <2>2. /\ UNCHANGED <<dataVars, shown, search, cursor, hasMore, loading, error, typed, flights,
                       steady, shownFor, found, clean, loads>>
    BY <1>3 DEF SendChange, ChangeFailed, firstVars
  <2>3. /\ ListingTypeOK' /\ steady' \subseteq steady
        /\ UNCHANGED <<shown, cursor, hasMore, error, flights, shownFor, found, clean>>
        /\ ~ typed' => ~ typed /\ search' = search
    BY <1>1, <2>1, <2>2 DEF ListingTypeOK, dataVars
  <2> QED
    BY <2>3, ListStays
<1>4. CASE Pause
  <2>1. Ask(FALSE, search, NoRow) /\ typed' = FALSE /\ saving' = saving
    BY <1>4 DEF Pause
  <2> QED
    BY <1>1, <2>1, AskKeeps
<1>5. CASE LoadMore
  <2>1. Ask(TRUE, search, cursor) /\ typed' = typed /\ saving' = saving /\ ~ error /\ hasMore
    BY <1>5 DEF LoadMore
  <2> QED
    BY <1>1, <2>1, AskKeeps
<1>6. CASE Retry
  <2>1. Ask(FALSE, search, NoRow) /\ typed' = typed /\ saving' = saving
    BY <1>6 DEF Retry
  <2> QED
    BY <1>1, <2>1, AskKeeps
<1>7. CASE ChangeMade
  <2>1. Ask(FALSE, saving, NoRow) /\ typed' = typed /\ saving' = NoRow /\ saving \in {All, Word}
    BY <1>1, <1>7 DEF ChangeMade
  <2> QED
    BY <1>1, <2>1, AskKeeps
<1> QED
  BY <1>2, <1>3, <1>4, <1>5, <1>6, <1>7 DEF PageStep

\* Every list begins in order and whole: nothing is shown, and it is not clean.
LEMMA ListingBegins == ListingInit => ListingInv
<1> SUFFICES ASSUME ListingInit PROVE ListingInv
  OBVIOUS
<1>1. ListingTypeOK
  <2>1. standing \subseteq Rows /\ named \subseteq Rows
    BY ListingAssumption DEF ListingInit, ListingAssumption
  <2>2. 0 \in 0..MaxLoads /\ 0 \in 0..MaxChanges
    BY ListingAssumption DEF ListingAssumption
  <2>3. shown \in Seq(Rows) /\ flights \subseteq Flight /\ \A f \in flights : f.n <= loads
    BY DEF ListingInit
  <2> QED
    BY <2>1, <2>2, <2>3 DEF ListingInit, ListingTypeOK
<1>2. FlightsFit /\ ShownFits
  BY DEF ListingInit, FlightsFit, ShownFits
<1> QED
  BY <1>1, <1>2 DEF ListingInv

\* Every step keeps the list so.
LEMMA ListingStep == ListingInv /\ [ListingNext]_listingVars => ListingInv'
<1> SUFFICES ASSUME ListingInv, [ListingNext]_listingVars PROVE ListingInv'
  OBVIOUS
<1>1. CASE DataStep
  BY <1>1, RowsKeep
<1>2. CASE PageStep
  BY <1>2, PageKeeps
<1>3. ASSUME NEW f \in flights, List(f) \/ LosePage(f) \/ Receive(f) PROVE ListingInv'
  BY <1>3, AnswerFits, LoseKeepsList, ReceiveKeeps
<1>4. CASE UNCHANGED listingVars
  <2>1. ListingTypeOK'
    BY <1>4 DEF ListingInv, ListingTypeOK, listingVars, dataVars, pageVars, firstVars
  <2>2. /\ UNCHANGED <<shown, cursor, hasMore, error, flights, shownFor, found, clean>>
        /\ steady' \subseteq steady /\ (~ typed' => ~ typed /\ search' = search)
    BY <1>4 DEF listingVars, dataVars, pageVars, firstVars
  <2> QED
    BY <2>1, <2>2, ListStays
<1> QED
  BY <1>1, <1>2, <1>3, <1>4 DEF ListingNext

\* The rows, the page and its requests keep their types.
THEOREM ListingTypeCorrect == ListingSpec => []ListingTypeOK
<1>1. ListingInv => ListingTypeOK
  BY DEF ListingInv
<1> QED
  BY <1>1, ListingBegins, ListingStep, PTL DEF ListingSpec

\* An undisturbed list shows its rows once, the newest first; at rest its first page has only
\* rows the search that is has found, and at its end no row is missing that it found all along.
THEOREM ListingIsSound == ListingSpec => []ListingSound
<1>1. ListingInv => ListingSound
  <2> SUFFICES ASSUME ListingInv, clean
               PROVE  /\ Ordered(shown)
                      /\ AtRest => /\ shownFor = search
                                   /\ \A i \in DOMAIN shown : i <= PageSize => shown[i] \in found
                      /\ AtRest /\ ~ hasMore => \A r \in steady : Has(shown, r)
    BY DEF ListingSound, Ordered, Has
  <2>1. Ordered(shown)
    BY DEF ListingInv, ShownFits
  <2>2. ASSUME AtRest
        PROVE  Whole(shown, hasMore, NoRow) /\ Begun(shown, hasMore) /\ shownFor = search
    BY <2>2 DEF ListingInv, ShownFits, AtRest
  <2> QED
    BY <2>1, <2>2 DEF Whole, Begun
<1> QED
  BY <1>1, ListingBegins, ListingStep, PTL DEF ListingSpec
=============================================================================
