--------------------------- MODULE JobQueueProofs ---------------------------
(* Invariance proofs for JobQueue: any number of jobs, any policy.           *)
EXTENDS JobQueue, TLAPS

\* Not finished: BullMQ may still run the job.
Unfinished == {"none", "waiting", "active", "held"}

\* A job that is still open has failed no attempt, and its handler started once per
\* stall, plus once if it is running now.
OpenJobs ==
  \A j \in Jobs :
    /\ job[j] \in Unfinished => made[j] = 0 /\ stalls[j] <= MaxStalled
    /\ job[j] \in {"none", "waiting"} => starts[j] <= stalls[j]
    /\ job[j] \in {"active", "held"} => starts[j] <= stalls[j] + 1

QueueInv == QueueTypeOK /\ OpenJobs /\ StartsBounded /\ DeadLettersAreFinal

\* The invariant holds before anything was added.
LEMMA QueueInvInit == QueueInit => QueueInv
  BY JobQueueAssumption
  DEF QueueInit, QueueInv, QueueTypeOK, OpenJobs, StartsBounded, DeadLettersAreFinal,
      JobState, JobAttempts, Unfinished, JobQueueAssumption

\* The 'failed' listener touches the two records of dead letters only, and adds the
\* failed job at most.
LEMMA DeadLetterEffect ==
  ASSUME NEW j \in Jobs, QueueTypeOK, DeadLetter(j)
  PROVE  /\ dlq' \subseteq Jobs /\ logged' \subseteq Jobs
         /\ dlq' \cup logged' \subseteq dlq \cup logged \cup {j}
  BY DEF DeadLetter, QueueTypeOK

\* A producer's add keeps it, repeated or not.
LEMMA QueueInvProduce ==
  ASSUME NEW j \in Jobs, QueueInv, Produce(j)
  PROVE  QueueInv'
  BY JobQueueAssumption
  DEF Produce, Add, QueueInv, QueueTypeOK, OpenJobs, StartsBounded, DeadLettersAreFinal,
      JobState, JobAttempts, Unfinished, JobQueueAssumption

\* So does every step of a worker, the failing and the dying ones included.
LEMMA QueueInvConsume ==
  ASSUME NEW j \in Jobs, QueueInv, Consume(j)
  PROVE  QueueInv'
<1> USE JobQueueAssumption
    DEF QueueInv, QueueTypeOK, OpenJobs, StartsBounded, DeadLettersAreFinal,
        JobState, JobAttempts, Unfinished, JobQueueAssumption
<1>1. CASE Take(j)
  BY <1>1 DEF Take
<1>2. CASE Succeed(j)
  BY <1>2 DEF Succeed
<1>3. CASE Fail(j)
  <2>1. dlq' \cup logged' \subseteq dlq \cup logged \cup {j} /\ dlq' \subseteq Jobs /\ logged' \subseteq Jobs
    BY <1>3, DeadLetterEffect DEF Fail
  <2>2. job[j] = "active" /\ made[j] = 0 /\ stalls[j] <= MaxStalled
    BY <1>3 DEF Fail
  <2>3. made' = [made EXCEPT ![j] = 1] /\ made'[j] = 1
    BY <1>3, <2>2 DEF Fail
  <2>4. job' = [job EXCEPT ![j] = "failed"]
    <3>1. ~ (made'[j] < JobAttempts)
      BY <2>3
    <3>2. job' = [job EXCEPT ![j] = IF made'[j] < JobAttempts THEN "waiting" ELSE "failed"]
      BY <1>3 DEF Fail
    <3> QED BY ONLY <3>1, <3>2
  <2>5. stalls' = stalls /\ starts' = starts
    BY <1>3 DEF Fail
  <2>6. QueueTypeOK'
    BY <2>1, <2>2, <2>3, <2>4, <2>5
  <2>7. OpenJobs' /\ StartsBounded'
    BY <2>2, <2>3, <2>4, <2>5
  <2>8. DeadLettersAreFinal'
    BY <2>1, <2>4
  <2> QED BY <2>6, <2>7, <2>8
<1>4. CASE WorkerDies(j)
  BY <1>4 DEF WorkerDies
<1>5. CASE Reclaim(j) /\ job'[j] = "waiting"
  BY <1>5 DEF Reclaim
<1>6. CASE Reclaim(j) /\ job'[j] # "waiting"
  <2>0. job[j] = "held" /\ made[j] = 0 /\ stalls[j] <= MaxStalled
    BY <1>6 DEF Reclaim
  <2>1. /\ job' = [job EXCEPT ![j] = "failed"]
        /\ made' = [made EXCEPT ![j] = 1]
        /\ stalls' = [stalls EXCEPT ![j] = @ + 1]
        /\ starts' = starts
        /\ DeadLetter(j)
    BY <1>6, <2>0 DEF Reclaim
  <2>2. dlq' \cup logged' \subseteq dlq \cup logged \cup {j} /\ dlq' \subseteq Jobs /\ logged' \subseteq Jobs
    BY <2>1, DeadLetterEffect
  <2> QED BY <2>0, <2>1, <2>2
<1> QED BY <1>1, <1>2, <1>3, <1>4, <1>5, <1>6 DEF Consume

\* ... and hence every step of the queue.
LEMMA QueueInvStep == QueueInv /\ [QueueNext]_queueVars => QueueInv'
<1> SUFFICES ASSUME QueueInv, [QueueNext]_queueVars PROVE QueueInv'
  OBVIOUS
<1>1. CASE UNCHANGED queueVars
  BY <1>1 DEF queueVars, QueueInv, QueueTypeOK, OpenJobs, StartsBounded, DeadLettersAreFinal
<1>2. CASE QueueNext
  BY <1>2, QueueInvProduce, QueueInvConsume DEF QueueNext
<1> QED BY <1>1, <1>2

LEMMA QueueInvAlways == QueueSpec => []QueueInv
  BY QueueInvInit, QueueInvStep, PTL DEF QueueSpec

\* Type correctness, the bounds on attempts and stalls included.
THEOREM QueueTypeCorrect == QueueSpec => []QueueTypeOK
  BY QueueInvAlways, PTL DEF QueueInv

\* However often producers add an id and workers die, the handler of the job starts at
\* most once more than the stalls that are tolerated.
THEOREM HandlerStartsBounded == QueueSpec => []StartsBounded
  BY QueueInvAlways, PTL DEF QueueInv

\* Nothing is dead-lettered that may still run or that succeeded.
THEOREM DeadLetterQueueHoldsFailures == QueueSpec => []DeadLettersAreFinal
  BY QueueInvAlways, PTL DEF QueueInv

\* No step of a producer or a worker takes a finished job out of its final state.
THEOREM FinishedJobsStay == QueueSpec => FinishedIsFinal
<1>1. QueueInv /\ [QueueNext]_queueVars
      => [\A j \in Jobs : job[j] \in {"completed", "failed"} => job'[j] = job[j]]_queueVars
  BY DEF QueueNext, Produce, Consume, Add, Take, Succeed, Fail, WorkerDies, Reclaim,
         queueVars, QueueInv, QueueTypeOK
<1> QED BY <1>1, QueueInvAlways, PTL DEF QueueSpec, FinishedIsFinal
=============================================================================
