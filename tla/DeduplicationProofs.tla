------------------------- MODULE DeduplicationProofs --------------------------
(* Proofs about what recognises a repetition by something it has stored:       *)
(* Idempotency, LeadIntake, Lockout, HostedForms and KnowledgeIndex, with any  *)
(* number of requests, workers, submissions, sign-ins, documents and faults.   *)
EXTENDS Idempotency, LeadIntake, Lockout, HostedForms, KnowledgeIndex, FiniteSetTheorems, TLAPS

-----------------------------------------------------------------------------
(* The idempotency key, with row-level security binding or not.              *)

\* From a successful insert to the answer, the key is this request's.
Holds(r) == pc[r] \in {"executing", "storing", "releasing"}

KeyTyped ==
  /\ row = {} \/ \E b \in Bodies, s \in BOOLEAN : row = {[hash |-> b, stored |-> s]}
  /\ pc \in [Requests -> Step]
  /\ body \in [Requests -> Bodies]
  /\ answer \in [Requests -> Answer]
  /\ \A r \in Requests : pc[r] # "over" => answer[r] = "none"
  /\ ran \subseteq Requests \X Bodies
  /\ claims \subseteq Requests
  /\ faults \in 0..MaxFaults

\* One request at most holds the key, and the row is then the one it inserted.
OneHolder ==
  /\ \A r, q \in Requests : Holds(r) /\ Holds(q) => r = q
  /\ \A r \in Requests : Holds(r) => \E s \in BOOLEAN : row = {[hash |-> body[r], stored |-> s]}

\* What is about to be stored, is stored or was replayed belongs to an operation that
\* ran.
StoredHasRun ==
  /\ \A r \in Requests : pc[r] = "storing" => <<r, body[r]>> \in ran
  /\ \A k \in row : k.stored => \E q \in Requests : <<q, k.hash>> \in ran

\* While the key is free, or its holder has not run or has failed, every operation
\* that ran has been paid for by a fault; otherwise all but one have.
Spent == row = {} \/ \E r \in Requests : pc[r] \in {"executing", "releasing"}

RunsPaidFor ==
  /\ IsFiniteSet(ran)
  /\ Cardinality(ran) <= 1 + faults
  /\ Spent => Cardinality(ran) <= faults

KeyInv ==
  KeyTyped /\ OneHolder /\ StoredHasRun /\ ReplayIsFaithful /\ RunsPaidFor /\ KeyNotBurnt

-----------------------------------------------------------------------------
\* The invariant holds before the first request.
LEMMA KeyInvInit == KeyInit => KeyInv
<1> SUFFICES ASSUME KeyInit PROVE KeyInv
  OBVIOUS
<1>1. KeyTyped /\ OneHolder /\ StoredHasRun /\ ReplayIsFaithful /\ KeyNotBurnt
  BY IdempotencyAssumption
  DEF KeyInit, KeyTyped, OneHolder, Holds, StoredHasRun, ReplayIsFaithful, KeyNotBurnt, Step,
      Answer, IdempotencyAssumption
<1>2. RunsPaidFor
  BY FS_EmptySet DEF KeyInit, RunsPaidFor
<1> QED
  BY <1>1, <1>2 DEF KeyInv

\* The answer of findFirst sends the request on, or ends it without touching the key.
LEMMA KeyInvLookUp ==
  ASSUME KeyInv, NEW r \in Requests, LookUp(r)
  PROVE  KeyInv'
<1> USE DEF KeyInv
<1>1. KeyTyped'
  BY DEF LookUp, Goto, Reply, VisibleRow, KeyTyped, Step, Answer
<1>2. pc[r] = "new" /\ pc'[r] \in {"claiming", "over"} /\ \A q \in Requests \ {r} : pc'[q] = pc[q]
  BY DEF LookUp, Goto, Reply, KeyTyped
<1>3. OneHolder' /\ StoredHasRun' /\ KeyNotBurnt'
  BY <1>2 DEF LookUp, OneHolder, Holds, StoredHasRun, KeyNotBurnt
<1>4. ReplayIsFaithful'
  <2>1. answer'[r] = "replayed" =>
          answer[r] = "replayed" \/ \E k \in row : k.hash = body[r] /\ k.stored
    BY DEF LookUp, Goto, Reply, VisibleRow, KeyTyped
  <2>2. \A q \in Requests \ {r} : answer'[q] = answer[q]
    BY DEF LookUp, Goto, Reply, KeyTyped
  <2> QED
    BY <2>1, <2>2 DEF LookUp, StoredHasRun, ReplayIsFaithful
<1>5. RunsPaidFor'
  BY <1>2 DEF LookUp, RunsPaidFor, Spent
<1> QED
  BY <1>1, <1>3, <1>4, <1>5

\* The unique key lets the insert through only while nobody holds it.
LEMMA KeyInvClaim ==
  ASSUME KeyInv, NEW r \in Requests, Claim(r)
  PROVE  KeyInv'
<1> USE DEF KeyInv
<1>1. CASE row # {} \/ RowSecurity
  <2>1. Reply(r, "busy") /\ UNCHANGED <<row, body, ran, claims, faults>>
    BY <1>1 DEF Claim, Create
  <2>2. pc[r] = "claiming" /\ pc'[r] = "over" /\ \A q \in Requests \ {r} : pc'[q] = pc[q]
    BY <2>1 DEF Claim, Reply, KeyTyped
  <2>3. KeyTyped'
    BY <2>1 DEF Reply, KeyTyped, Step, Answer
  <2>4. OneHolder' /\ StoredHasRun' /\ KeyNotBurnt'
    BY <2>1, <2>2 DEF OneHolder, Holds, StoredHasRun, KeyNotBurnt
  <2>5. ReplayIsFaithful' /\ RunsPaidFor'
    BY <2>1, <2>2 DEF Reply, ReplayIsFaithful, RunsPaidFor, Spent, KeyTyped
  <2> QED
    BY <2>3, <2>4, <2>5
<1>2. CASE row = {} /\ ~ RowSecurity
  <2>1. /\ row' = {[hash |-> body[r], stored |-> FALSE]}
        /\ claims' = claims \cup {r}
        /\ pc' = [pc EXCEPT ![r] = "executing"]
        /\ UNCHANGED <<answer, body, ran, faults>>
    BY <1>2 DEF Claim, Create, Goto
  <2>2. KeyTyped'
    BY <2>1 DEF Claim, KeyTyped, Step
  <2>3. OneHolder'
    <3>1. \A q \in Requests : ~ Holds(q)
      BY <1>2 DEF OneHolder
    <3>2. \A q \in Requests \ {r} : ~ Holds(q)'
      BY <2>1, <3>1 DEF Holds, KeyTyped
    <3> QED
      BY <2>1, <3>2 DEF OneHolder, KeyTyped
  <2>5. StoredHasRun'
    BY <2>1 DEF StoredHasRun, KeyTyped
  <2>6. KeyNotBurnt'
    BY <2>1 DEF KeyNotBurnt, KeyTyped
  <2>4. ReplayIsFaithful' /\ RunsPaidFor'
    BY <1>2, <2>1 DEF ReplayIsFaithful, RunsPaidFor, Spent
  <2> QED
    BY <2>2, <2>3, <2>4, <2>5, <2>6
<1> QED
  BY <1>1, <1>2

\* The operation runs once in the hands of its holder.
LEMMA KeyInvExecute ==
  ASSUME KeyInv, NEW r \in Requests, Execute(r)
  PROVE  KeyInv'
<1> USE DEF KeyInv
<1>1. /\ pc[r] = "executing"
      /\ UNCHANGED <<row, body, answer, claims, faults>>
      /\ \/ pc' = [pc EXCEPT ![r] = "storing"] /\ ran' = ran \cup {<<r, body[r]>>}
         \/ pc' = [pc EXCEPT ![r] = "releasing"] /\ ran' = ran
  BY DEF Execute, Goto
<1>2. KeyTyped'
  BY <1>1 DEF KeyTyped, Step
<1>3. OneHolder'
  BY <1>1 DEF OneHolder, Holds, KeyTyped
<1>4. StoredHasRun' /\ ReplayIsFaithful'
  BY <1>1 DEF StoredHasRun, ReplayIsFaithful, KeyTyped
<1>5. KeyNotBurnt'
  BY <1>1 DEF KeyNotBurnt, KeyTyped
<1>6. RunsPaidFor'
  <2>1. IsFiniteSet(ran) /\ Cardinality(ran) <= faults /\ Cardinality(ran) \in Nat
    BY <1>1, FS_CardinalityType DEF RunsPaidFor, Spent
  <2>2. faults \in Nat
    BY IdempotencyAssumption DEF KeyTyped, IdempotencyAssumption
  <2>3. CASE pc' = [pc EXCEPT ![r] = "storing"] /\ ran' = ran \cup {<<r, body[r]>>}
    <3> DEFINE run == <<r, body[r]>>
    <3>1. /\ IsFiniteSet(ran \cup {run})
          /\ Cardinality(ran \cup {run}) =
               IF run \in ran THEN Cardinality(ran) ELSE Cardinality(ran) + 1
      BY <2>1, FS_AddElement
    <3>2. row # {} /\ \A q \in Requests : pc'[q] \notin {"executing", "releasing"}
      BY <1>1, <2>3 DEF OneHolder, Holds, KeyTyped
    <3>3. IsFiniteSet(ran') /\ Cardinality(ran') <= 1 + faults
      <4> HIDE DEF run
      <4>1. Cardinality(ran \cup {run}) <= 1 + faults
        BY <2>1, <2>2, <3>1
      <4> QED
        BY <2>3, <3>1, <4>1 DEF run
    <3> QED
      BY <1>1, <3>2, <3>3 DEF RunsPaidFor, Spent
  <2>4. CASE ran' = ran
    BY <1>1, <2>1, <2>2, <2>4 DEF RunsPaidFor
  <2> QED
    BY <1>1, <2>3, <2>4
<1> QED
  BY <1>2, <1>3, <1>4, <1>5, <1>6

\* updateMany completes the holder's own row.
LEMMA CompleteKeepsHash ==
  ASSUME KeyTyped, OneHolder, NEW r \in Requests, Holds(r), Complete
  PROVE  row' = {[hash |-> body[r], stored |-> HasBody]}
<1>1. PICK s \in BOOLEAN : row = {[hash |-> body[r], stored |-> s]}
  BY DEF OneHolder
<1> DEFINE k == [hash |-> body[r], stored |-> s]
<1>2. [k EXCEPT !.stored = HasBody] = [hash |-> body[r], stored |-> HasBody]
  OBVIOUS
<1>3. row' = {[k EXCEPT !.stored = HasBody]}
  <2>1. row = {k}
    BY <1>1
  <2> HIDE DEF k
  <2> QED
    BY <2>1, Zenon DEF Complete
<1> QED
  BY <1>2, <1>3

\* Its response is stored, and the request is over.
LEMMA KeyInvStore ==
  ASSUME KeyInv, NEW r \in Requests, Store(r)
  PROVE  KeyInv'
<1> USE DEF KeyInv
<1>1. /\ pc[r] = "storing"
      /\ pc' = [pc EXCEPT ![r] = "over"]
      /\ answer' = [answer EXCEPT ![r] = "ok"]
      /\ UNCHANGED <<body, ran, claims, faults>>
  BY DEF Store, Reply
<1>2. Holds(r) /\ <<r, body[r]>> \in ran
  BY <1>1 DEF Holds, StoredHasRun
<1>3. row' = {[hash |-> body[r], stored |-> HasBody]} /\ HasBody \in BOOLEAN
  BY <1>2, CompleteKeepsHash, IdempotencyAssumption DEF Store, IdempotencyAssumption
<1>4. \A q \in Requests : pc'[q] \notin {"executing", "storing", "releasing"}
  BY <1>1, <1>2 DEF OneHolder, Holds, KeyTyped
<1>5. KeyTyped'
  BY <1>1, <1>3 DEF KeyTyped, Step, Answer
<1>6. OneHolder' /\ StoredHasRun'
  BY <1>1, <1>2, <1>3, <1>4 DEF OneHolder, Holds, StoredHasRun
<1>7. ReplayIsFaithful' /\ KeyNotBurnt'
  BY <1>1, <1>2 DEF ReplayIsFaithful, KeyNotBurnt, KeyTyped
<1>8. RunsPaidFor'
  BY <1>1, <1>3, <1>4 DEF RunsPaidFor, Spent
<1> QED
  BY <1>5, <1>6, <1>7, <1>8

\* A fault is counted.
LEMMA FaultCounted ==
  ASSUME KeyTyped, NEW kind, Fault(kind)
  PROVE  faults \in Nat /\ faults' = faults + 1 /\ faults' \in 0..MaxFaults /\ faults' # 0
  BY IdempotencyAssumption DEF KeyTyped, Fault, IdempotencyAssumption

\* A response that could not be stored leaves the key to be released.
LEMMA KeyInvStoreFails ==
  ASSUME KeyInv, NEW r \in Requests, StoreFails(r)
  PROVE  KeyInv'
<1> USE DEF KeyInv
<1>1. /\ pc[r] = "storing"
      /\ pc' = [pc EXCEPT ![r] = "releasing"]
      /\ UNCHANGED <<answer, body, ran, claims>>
      /\ Fault("store")
  BY DEF StoreFails, Goto
<1>2. Holds(r) /\ <<r, body[r]>> \in ran
  BY <1>1 DEF Holds, StoredHasRun
<1>3. PICK s \in BOOLEAN : row' = {[hash |-> body[r], stored |-> s]}
  BY <1>2, CompleteKeepsHash, IdempotencyAssumption DEF StoreFails, OneHolder, IdempotencyAssumption
<1>4. KeyTyped'
  BY <1>1, <1>3, FaultCounted DEF KeyTyped, Step
<1>5. OneHolder'
  BY <1>1, <1>2, <1>3 DEF OneHolder, Holds, KeyTyped
<1>6. StoredHasRun' /\ ReplayIsFaithful'
  <2>1. \A q \in Requests : pc'[q] = "storing" => <<q, body'[q]>> \in ran'
    BY <1>1 DEF StoredHasRun, KeyTyped
  <2>2. \A k \in row' : k.hash = body[r]
    BY <1>3
  <2>3. ReplayIsFaithful'
    BY <1>1 DEF ReplayIsFaithful
  <2> QED
    BY <1>1, <1>2, <2>1, <2>2, <2>3 DEF StoredHasRun
<1>7. KeyNotBurnt' /\ RunsPaidFor'
  <2>1. faults' = faults + 1 /\ faults \in Nat /\ faults' # 0
    BY <1>1, FaultCounted
  <2>2. Cardinality(ran) \in Nat /\ ran' = ran
    BY <1>1, FS_CardinalityType DEF RunsPaidFor
  <2> QED
    BY <2>1, <2>2 DEF KeyNotBurnt, RunsPaidFor
<1> QED
  BY <1>4, <1>5, <1>6, <1>7

\* The failed holder gives the key back, or tries to.
LEMMA KeyInvRelease ==
  ASSUME KeyInv, NEW r \in Requests, Release(r)
  PROVE  KeyInv'
<1> USE DEF KeyInv
<1>1. /\ pc[r] = "releasing"
      /\ pc' = [pc EXCEPT ![r] = "over"]
      /\ answer' = [answer EXCEPT ![r] = "error"]
      /\ UNCHANGED <<body, ran, claims>>
      /\ \/ row' = {} /\ faults' = faults
         \/ Fault("release") /\ row' = row
  BY DEF Release, Reply
<1>2. \A q \in Requests : pc'[q] \notin {"executing", "storing", "releasing"}
  BY <1>1 DEF OneHolder, Holds, KeyTyped
<1>3. KeyTyped'
  BY <1>1, FaultCounted DEF KeyTyped, Step, Answer
<1>4. OneHolder' /\ StoredHasRun'
  BY <1>1, <1>2 DEF OneHolder, Holds, StoredHasRun
<1>5. ReplayIsFaithful' /\ KeyNotBurnt'
  BY <1>1, FaultCounted DEF ReplayIsFaithful, KeyNotBurnt, KeyTyped
<1>6. RunsPaidFor'
  <2>1. IsFiniteSet(ran) /\ Cardinality(ran) <= faults /\ Cardinality(ran) \in Nat
    BY <1>1, FS_CardinalityType DEF RunsPaidFor, Spent
  <2>2. faults \in Nat /\ (faults' = faults \/ faults' = faults + 1)
    BY <1>1, FaultCounted, IdempotencyAssumption DEF KeyTyped, IdempotencyAssumption
  <2> QED
    BY <1>1, <2>1, <2>2 DEF RunsPaidFor
<1> QED
  BY <1>3, <1>4, <1>5, <1>6

\* A request dies in the API process, at any step of its.
LEMMA KeyInvCrash ==
  ASSUME KeyInv, NEW r \in Requests, Crash(r)
  PROVE  KeyInv'
<1> USE DEF KeyInv
<1>1. /\ pc' = [pc EXCEPT ![r] = "over"]
      /\ answer' = [answer EXCEPT ![r] = "error"]
      /\ UNCHANGED <<row, body, ran, claims>>
      /\ Fault("crash")
  BY DEF Crash, Reply
<1>2. KeyTyped'
  BY <1>1, FaultCounted DEF KeyTyped, Step, Answer
<1>3. OneHolder' /\ StoredHasRun' /\ ReplayIsFaithful'
  BY <1>1 DEF OneHolder, Holds, StoredHasRun, ReplayIsFaithful, KeyTyped
<1>4. KeyNotBurnt' /\ RunsPaidFor'
  <2>1. faults' = faults + 1 /\ faults \in Nat /\ faults' # 0
    BY <1>1, FaultCounted
  <2>2. Cardinality(ran) \in Nat /\ ran' = ran
    BY <1>1, FS_CardinalityType DEF RunsPaidFor
  <2> QED
    BY <2>1, <2>2 DEF KeyNotBurnt, RunsPaidFor
<1> QED
  BY <1>2, <1>3, <1>4

\* Every step keeps the invariant.
LEMMA KeyInvStep == KeyInv /\ [KeyNext]_keyVars => KeyInv'
<1> SUFFICES ASSUME KeyInv, [KeyNext]_keyVars PROVE KeyInv'
  OBVIOUS
<1>1. CASE UNCHANGED keyVars
  BY <1>1
  DEF keyVars, KeyInv, KeyTyped, OneHolder, Holds, StoredHasRun, ReplayIsFaithful, RunsPaidFor,
      Spent, KeyNotBurnt
<1>2. ASSUME NEW r \in Requests, Steps(r) \/ StoreFails(r) \/ Crash(r) PROVE KeyInv'
  BY <1>2, KeyInvLookUp, KeyInvClaim, KeyInvExecute, KeyInvStore, KeyInvRelease,
     KeyInvStoreFails, KeyInvCrash DEF Steps
<1> QED
  BY <1>1, <1>2 DEF KeyNext

LEMMA KeyInvAlways == KeySpec => []KeyInv
  BY KeyInvInit, KeyInvStep, PTL DEF KeySpec

-----------------------------------------------------------------------------
\* The interceptor is type correct: in particular there is one row at most.
THEOREM KeyTypeCorrect == KeySpec => []KeyTypeOK
<1>1. KeyInv => KeyTypeOK
  <2> SUFFICES ASSUME KeyInv PROVE KeyTypeOK
    OBVIOUS
  <2>1. CASE row = {}
    BY <2>1, FS_EmptySet DEF KeyInv, KeyTyped, KeyTypeOK
  <2>2. CASE \E k \in [hash : Bodies, stored : BOOLEAN] : row = {k}
    <3>1. Cardinality(row) = 1
      BY <2>2, FS_Singleton
    <3> QED
      BY <2>2, <3>1 DEF KeyInv, KeyTyped, KeyTypeOK
  <2> QED
    BY <2>1, <2>2 DEF KeyInv, KeyTyped
<1> QED
  BY <1>1, KeyInvAlways, PTL

\* However many requests carry the key, no two of them run their operation at the same
\* time.
THEOREM OperationsNeverOverlap == KeySpec => []OneAtATime
<1>1. KeyInv => OneAtATime
  <2> SUFFICES ASSUME KeyInv PROVE OneAtATime
    OBVIOUS
  <2> DEFINE running == {r \in Requests : pc[r] \in {"executing", "storing"}}
  <2>1. CASE running = {}
    BY <2>1, FS_EmptySet DEF OneAtATime
  <2>2. CASE running # {}
    <3>1. PICK r \in Requests : running = {r}
      BY <2>2 DEF KeyInv, OneHolder, Holds
    <3> QED
      BY <3>1, FS_Singleton DEF OneAtATime
  <2> QED
    BY <2>1, <2>2
<1> QED
  BY <1>1, KeyInvAlways, PTL

\* The operations that ran are at most one more than the faults.
THEOREM RerunsArePaidFor == KeySpec => []RerunsNeedFaults
<1>1. KeyInv => RerunsNeedFaults
  BY DEF KeyInv, RunsPaidFor, RerunsNeedFaults
<1> QED
  BY <1>1, KeyInvAlways, PTL

\* A replayed answer is the answer to this very body.
THEOREM ReplaysAreFaithful == KeySpec => []ReplayIsFaithful
<1>1. KeyInv => ReplayIsFaithful
  BY DEF KeyInv
<1> QED
  BY <1>1, KeyInvAlways, PTL

\* Without faults a failed request gives the key back.
THEOREM KeysAreReturned == KeySpec => []KeyNotBurnt
<1>1. KeyInv => KeyNotBurnt
  BY DEF KeyInv
<1> QED
  BY <1>1, KeyInvAlways, PTL

(* Lead intake: any number of workers, submissions and people.              *)

\* The workers that have saved a lead of the submission and may still answer its sender.
Repliers(l) == {w \in Workers : at[w] = l /\ leadStep[w] = "replying"}

\* Every message to a sender belongs to a lead of its own.
RepliesOwed == \A l \in Leads : replied[l] + Cardinality(Repliers(l)) <= saved[l]

\* A submission that two workers never processed at once has one worker at most and one
\* lead at most, and none while that worker has looked and has yet to save one.
AloneOnce ==
  \A l \in Leads : l \notin shared =>
    /\ \A v, w \in Workers : at[v] = l /\ at[w] = l => v = w
    /\ saved[l] <= 1
    /\ \A w \in Workers :
         at[w] = l /\ leadStep[w] \in {"fetching", "finding", "inserting", "creating"} =>
           saved[l] = 0

LeadInv == LeadTypeOK /\ RepliesOwed /\ AloneOnce

\* The invariant holds before the first submission.
LEMMA LeadInvInit == LeadInit => LeadInv
<1> SUFFICES ASSUME LeadInit PROVE LeadInv
  OBVIOUS
<1>1. LeadTypeOK
  BY LeadAssumption DEF LeadInit, LeadTypeOK, LeadAssumption, EventStatus, LeadStep
<1>2. ASSUME NEW l \in Leads
      PROVE  replied[l] + Cardinality(Repliers(l)) <= saved[l]
  <2>1. Repliers(l) = {}
    BY DEF LeadInit, Repliers
  <2> QED
    BY <2>1, FS_EmptySet DEF LeadInit
<1>3. AloneOnce
  BY LeadAssumption DEF LeadInit, AloneOnce, LeadAssumption
<1> QED
  BY <1>1, <1>2, <1>3 DEF LeadInv, RepliesOwed

\* A fault keeps the number of them bounded.
LEMMA LeadFaultTypes ==
  ASSUME LeadTypeOK, NEW kind, LeadFault(kind)
  PROVE  leadFaults' \in 0..MaxLeadFaults
  BY LeadAssumption DEF LeadAssumption, LeadTypeOK, LeadFault

\* A submission at which the loop is is one.
LEMMA LeadAt ==
  ASSUME LeadTypeOK, NEW w \in Workers, leadStep[w] \notin {"down", "idle", "loop"}
  PROVE  at[w] \in Leads
  BY DEF LeadTypeOK

\* A step within the processing of a submission keeps the types.
LEMMA LeadTypeGoto ==
  ASSUME LeadTypeOK, NEW w \in Workers, NEW step \in LeadStep \ {"down", "idle", "loop"},
         leadStep[w] \notin {"down", "idle", "loop"}, LeadGoto(w, step),
         contacts' \subseteq People, saved' \in [Leads -> Nat], replied' \in [Leads -> Nat],
         leadFaults' \in 0..MaxLeadFaults,
         UNCHANGED <<event, receivedAt, unknown, person, todo, at, shared>>
  PROVE  LeadTypeOK'
  BY DEF LeadTypeOK, LeadGoto

\* Recording a submission keeps the types.
LEMMA LeadTypeRecord ==
  ASSUME LeadTypeOK, NEW l \in Leads, Record(l), IsFiniteSet(Recorded)
  PROVE  LeadTypeOK'
<1>1. Cardinality(Recorded) \in Nat
  BY FS_CardinalityType
<1>2. receivedAt' \in [Leads -> Nat]
  BY <1>1 DEF Record, LeadTypeOK
<1>3. event' \in [Leads -> EventStatus] /\ unknown' \subseteq Leads
  BY DEF Record, LeadTypeOK, EventStatus
<1> QED
  BY <1>2, <1>3 DEF Record, LeadTypeOK, loopVars

\* The steps of a worker keep the types.
LEMMA LeadTypeProcess ==
  ASSUME LeadTypeOK, NEW w \in Workers, Process(w) \/ LeadCrash(w)
  PROVE  LeadTypeOK'
<1>1. CASE Poll(w)
  <2>1. Oldest \subseteq Leads
    BY DEF Oldest
  <2>2. todo' \in [Workers -> SUBSET Leads]
    BY <1>1, <2>1 DEF Poll, LeadTypeOK
  <2> QED
    BY <1>1, <2>2 DEF Poll, LeadTypeOK, LeadGoto, LeadStep
<1>2. CASE Begin(w)
  <2>1. CASE todo[w] = {}
    BY <1>2, <2>1 DEF Begin, LeadTypeOK, LeadGoto, LeadStep
  <2>2. ASSUME NEW l \in todo[w], at' = [at EXCEPT ![w] = l],
               todo' = [todo EXCEPT ![w] = @ \ {l}],
               shared' = IF \E v \in Workers : at[v] = l THEN shared \cup {l} ELSE shared,
               LeadGoto(w, "looking")
        PROVE  LeadTypeOK'
    <3>1. l \in Leads /\ l # NoLead
      BY LeadAssumption DEF LeadAssumption, LeadTypeOK
    <3>2. at' \in [Workers -> Leads \cup {NoLead}] /\ todo' \in [Workers -> SUBSET Leads]
      BY <2>2, <3>1 DEF LeadTypeOK
    <3>3. shared' \subseteq Leads
      BY <2>2, <3>1 DEF LeadTypeOK
    <3>4. leadStep' \in [Workers -> LeadStep]
      BY <2>2 DEF LeadTypeOK, LeadGoto, LeadStep
    <3>5. \A v \in Workers : leadStep'[v] \in {"down", "idle", "loop"} <=> at'[v] = NoLead
      BY <2>2, <3>1 DEF LeadTypeOK, LeadGoto
    <3> QED
      BY <1>2, <3>2, <3>3, <3>4, <3>5 DEF Begin, LeadTypeOK
  <2> QED
    BY <1>2, <2>1, <2>2 DEF Begin
<1>3. CASE Look(w)
  <2>1. \E step \in LeadStep \ {"down", "idle", "loop"} : LeadGoto(w, step)
    BY <1>3 DEF Look, LeadStep
  <2> QED
    BY <1>3, <2>1, LeadTypeGoto DEF Look, LeadTypeOK
<1>4. CASE Fetch(w)
  <2>1. \E step \in LeadStep \ {"down", "idle", "loop"} : LeadGoto(w, step)
    BY <1>4 DEF Fetch, LeadStep
  <2>2. leadFaults' \in 0..MaxLeadFaults
    BY <1>4, LeadFaultTypes DEF Fetch, LeadTypeOK
  <2> QED
    BY <1>4, <2>1, <2>2, LeadTypeGoto DEF Fetch, LeadTypeOK
<1>5. CASE FindContact(w)
  <2>1. \E step \in LeadStep \ {"down", "idle", "loop"} : LeadGoto(w, step)
    BY <1>5 DEF FindContact, LeadStep
  <2> QED
    BY <1>5, <2>1, LeadTypeGoto DEF FindContact, LeadTypeOK
<1>6. CASE CreateContact(w)
  <2>1. \E step \in LeadStep \ {"down", "idle", "loop"} : LeadGoto(w, step)
    BY <1>6 DEF CreateContact, LeadStep
  <2>2. at[w] \in Leads
    BY <1>6, LeadAt DEF CreateContact
  <2>3. contacts' \subseteq People
    BY <1>6, <2>2 DEF CreateContact, LeadTypeOK
  <2> QED
    BY <1>6, <2>1, <2>3, LeadTypeGoto DEF CreateContact, LeadTypeOK
<1>7. CASE CreateLead(w)
  <2>1. \E step \in LeadStep \ {"down", "idle", "loop"} : LeadGoto(w, step)
    BY <1>7 DEF CreateLead, LeadStep
  <2>2. at[w] \in Leads
    BY <1>7, LeadAt DEF CreateLead
  <2>3. saved[at[w]] + 1 \in Nat
    BY <2>2 DEF LeadTypeOK
  <2>4. saved' \in [Leads -> Nat]
    BY <1>7, <2>2, <2>3 DEF CreateLead, LeadTypeOK
  <2>5. leadFaults' \in 0..MaxLeadFaults
    BY <1>7, LeadFaultTypes DEF CreateLead, LeadTypeOK
  <2> QED
    BY <1>7, <2>1, <2>4, <2>5, LeadTypeGoto DEF CreateLead, LeadTypeOK
<1>8. CASE AutoReply(w)
  <2>1. "done" \in LeadStep \ {"down", "idle", "loop"}
    BY DEF LeadStep
  <2>2. at[w] \in Leads
    BY <1>8, LeadAt DEF AutoReply
  <2>3. replied[at[w]] + 1 \in Nat
    BY <2>2 DEF LeadTypeOK
  <2>4. replied' \in [Leads -> Nat]
    BY <1>8, <2>2, <2>3 DEF AutoReply, LeadTypeOK
  <2> QED
    BY <1>8, <2>1, <2>4, LeadTypeGoto DEF AutoReply, LeadTypeOK
<1>9. CASE MarkProcessed(w) \/ MarkFailed(w)
  <2>1. at[w] \in Leads
    BY <1>9, LeadAt DEF MarkProcessed, MarkFailed
  <2>2. event' \in [Leads -> EventStatus]
    BY <1>9, <2>1 DEF MarkProcessed, MarkFailed, SetEvent, LeadTypeOK, EventStatus
  <2>3. leadFaults' \in 0..MaxLeadFaults
    BY <1>9, LeadFaultTypes DEF MarkProcessed, MarkFailed, LeadTypeOK
  <2> QED
    BY <1>9, <2>2, <2>3
    DEF MarkProcessed, MarkFailed, Continue, LeadGoto, LeadTypeOK, LeadStep
<1>10. CASE LeadCrash(w)
  <2>1. leadFaults' \in 0..MaxLeadFaults
    BY <1>10, LeadFaultTypes DEF LeadCrash
  <2> QED
    BY <1>10, <2>1 DEF LeadCrash, LeadGoto, LeadTypeOK, LeadStep
<1>11. CASE Restart(w)
  BY <1>11 DEF Restart, LeadGoto, LeadTypeOK, LeadStep
<1> QED
  BY <1>1, <1>2, <1>3, <1>4, <1>5, <1>6, <1>7, <1>8, <1>9, <1>10, <1>11 DEF Process

\* What the other workers are at stays as it is.
OnlyAt(w) ==
  \A v \in Workers \ {w} : leadStep'[v] = leadStep[v] /\ at'[v] = at[v]

\* A step of one worker is one of that worker.
LEMMA LeadOnlyAt ==
  ASSUME LeadTypeOK, NEW w \in Workers, Process(w) \/ LeadCrash(w)
  PROVE  OnlyAt(w)
  BY DEF OnlyAt, LeadTypeOK, Process, LeadCrash, Poll, Begin, Look, Fetch, FindContact,
     CreateContact, CreateLead, AutoReply, MarkProcessed, MarkFailed, Restart, Continue, LeadGoto

\* Those who may answer a sender are finitely many workers.
LEMMA RepliersFinite ==
  ASSUME NEW l \in Leads
  PROVE  /\ IsFiniteSet(Repliers(l)) /\ IsFiniteSet(Repliers(l)')
         /\ Cardinality(Repliers(l)) \in Nat /\ Cardinality(Repliers(l)') \in Nat
<1>1. Repliers(l) \subseteq Workers /\ Repliers(l)' \subseteq Workers
  BY DEF Repliers
<1>2. IsFiniteSet(Repliers(l)) /\ IsFiniteSet(Repliers(l)')
  BY <1>1, LeadAssumption, FS_Subset DEF LeadAssumption
<1> QED
  BY <1>2, FS_CardinalityType

\* A worker answers a sender only after it saved a lead, and once for each.
LEMMA RepliesStep ==
  ASSUME LeadInv, LeadTypeOK', NEW w \in Workers, Process(w) \/ LeadCrash(w), NEW l \in Leads
  PROVE  replied'[l] + Cardinality(Repliers(l)') <= saved'[l]
<1>1. replied[l] + Cardinality(Repliers(l)) <= saved[l]
  BY DEF LeadInv, RepliesOwed
<1>2. LeadTypeOK /\ OnlyAt(w) /\ replied[l] \in Nat /\ saved[l] \in Nat
  BY LeadOnlyAt DEF LeadInv, LeadTypeOK
<1>3. CASE CreateLead(w) /\ at[w] = l /\ saved' # saved
  <2>1. saved'[l] = saved[l] + 1 /\ replied' = replied
    BY <1>2, <1>3 DEF CreateLead, LeadTypeOK
  <2>2. Repliers(l)' \subseteq Repliers(l) \cup {w}
    BY <1>2 DEF Repliers, OnlyAt
  <2>3. /\ IsFiniteSet(Repliers(l) \cup {w})
        /\ Cardinality(Repliers(l) \cup {w}) \in
             {Cardinality(Repliers(l)), Cardinality(Repliers(l)) + 1}
    BY RepliersFinite, FS_AddElement
  <2>4. Cardinality(Repliers(l)') <= Cardinality(Repliers(l) \cup {w})
    BY <2>2, <2>3, FS_Subset
  <2> QED
    BY <1>1, <1>2, <2>1, <2>3, <2>4, RepliersFinite
<1>4. CASE AutoReply(w) /\ at[w] = l
  <2>1. saved' = saved /\ replied'[l] <= replied[l] + 1 /\ replied'[l] \in Nat
    BY <1>2, <1>4 DEF AutoReply, LeadTypeOK
  <2>2. w \in Repliers(l)
    BY <1>4 DEF Repliers, AutoReply
  <2>3. leadStep'[w] = "done"
    BY <1>2, <1>4 DEF AutoReply, LeadGoto, LeadTypeOK
  <2>4. Repliers(l)' \subseteq Repliers(l) \ {w}
    BY <1>2, <2>3 DEF Repliers, OnlyAt
  <2>5. /\ IsFiniteSet(Repliers(l) \ {w})
        /\ Cardinality(Repliers(l) \ {w}) = Cardinality(Repliers(l)) - 1
    BY <2>2, RepliersFinite, FS_RemoveElement
  <2>6. Cardinality(Repliers(l)') <= Cardinality(Repliers(l) \ {w})
    BY <2>4, <2>5, FS_Subset
  <2> QED
    BY <1>1, <1>2, <2>1, <2>5, <2>6, RepliersFinite
<1>5. CASE ~ (CreateLead(w) /\ at[w] = l /\ saved' # saved) /\ ~ (AutoReply(w) /\ at[w] = l)
  <2>1. saved'[l] = saved[l] /\ replied'[l] = replied[l]
    BY <1>2, <1>5 DEF LeadTypeOK, Process, LeadCrash, Poll, Begin, Look, Fetch, FindContact,
       CreateContact, CreateLead, AutoReply, MarkProcessed, MarkFailed, Restart
  <2>2. ~ (leadStep'[w] = "replying" /\ at'[w] = l)
    <3>1. CASE CreateLead(w)
      <4>1. saved[at[w]] + 1 # saved[at[w]]
        BY <1>2, <3>1, LeadAt DEF CreateLead, LeadTypeOK
      <4>2. at[w] \in Leads /\ at' = at
        BY <1>2, <3>1, LeadAt DEF CreateLead
      <4>3. saved' # saved \/ leadStep'[w] = "failing"
        BY <1>2, <3>1, <4>1, <4>2 DEF CreateLead, LeadGoto, LeadTypeOK
      <4> QED
        BY <1>5, <3>1, <4>2, <4>3
    <3>2. CASE ~ CreateLead(w)
      BY <1>2, <3>2 DEF LeadTypeOK, Process, LeadCrash, Poll, Begin, Look, Fetch, FindContact,
         CreateContact, AutoReply, MarkProcessed, MarkFailed, Restart, Continue, LeadGoto
    <3> QED
      BY <3>1, <3>2
  <2>3. Repliers(l)' \subseteq Repliers(l)
    BY <1>2, <2>2 DEF Repliers, OnlyAt
  <2>4. Cardinality(Repliers(l)') <= Cardinality(Repliers(l))
    BY <2>3, RepliersFinite, FS_Subset
  <2> QED
    BY <1>1, <1>2, <2>1, <2>4, RepliersFinite
<1> QED
  BY <1>3, <1>4, <1>5

\* A submission taken up by a second worker is remembered; a worker alone looks for the
\* lead before it saves one.
LEMMA AloneStep ==
  ASSUME LeadInv, LeadTypeOK', NEW w \in Workers, Process(w) \/ LeadCrash(w)
  PROVE  AloneOnce'
<1>1. LeadTypeOK /\ OnlyAt(w)
  BY LeadOnlyAt DEF LeadInv
<1> SUFFICES ASSUME NEW l \in Leads, l \notin shared'
             PROVE  /\ \A u, v \in Workers : at'[u] = l /\ at'[v] = l => u = v
                    /\ saved'[l] <= 1
                    /\ \A v \in Workers :
                         at'[v] = l
                         /\ leadStep'[v] \in {"fetching", "finding", "inserting", "creating"} =>
                           saved'[l] = 0
  BY DEF AloneOnce
<1>2. shared \subseteq shared'
  BY DEF Process, LeadCrash, Poll, Begin, Look, Fetch, FindContact, CreateContact, CreateLead,
     AutoReply, MarkProcessed, MarkFailed, Restart
<1>3. /\ \A u, v \in Workers : at[u] = l /\ at[v] = l => u = v
      /\ saved[l] <= 1
      /\ \A v \in Workers :
           at[v] = l /\ leadStep[v] \in {"fetching", "finding", "inserting", "creating"} =>
             saved[l] = 0
  BY <1>2 DEF LeadInv, AloneOnce
<1>4. l # NoLead
  BY LeadAssumption DEF LeadAssumption
<1>5. CASE Begin(w)
  <2>1. UNCHANGED saved /\ leadStep'[w] \in {"idle", "looking"}
    BY <1>1, <1>5 DEF Begin, LeadGoto, LeadTypeOK
  <2>2. at'[w] = l => \A v \in Workers : at[v] # l
    BY <1>1, <1>4, <1>5 DEF Begin, LeadTypeOK
  <2> QED
    BY <1>1, <1>3, <2>1, <2>2 DEF OnlyAt
<1>6. CASE CreateLead(w) /\ at[w] = l
  <2>1. saved[l] = 0 /\ at' = at /\ leadStep'[w] \in {"replying", "failing"}
    BY <1>1, <1>3, <1>6 DEF CreateLead, LeadGoto, LeadTypeOK
  <2>2. saved'[l] \in {0, 1}
    BY <1>1, <1>6, <2>1 DEF CreateLead, LeadTypeOK
  <2> QED
    BY <1>1, <1>3, <1>6, <2>1, <2>2 DEF OnlyAt
<1>7. CASE ~ Begin(w) /\ ~ (CreateLead(w) /\ at[w] = l)
  <2>1. saved'[l] = saved[l]
    BY <1>1, <1>7 DEF LeadTypeOK, Process, LeadCrash, Poll, Look, Fetch, FindContact,
       CreateContact, CreateLead, AutoReply, MarkProcessed, MarkFailed, Restart
  <2>2. at'[w] \in {at[w], NoLead}
    BY <1>1, <1>7 DEF LeadTypeOK, Process, LeadCrash, Poll, Look, Fetch, FindContact,
       CreateContact, CreateLead, AutoReply, MarkProcessed, MarkFailed, Restart, Continue
  <2>3. \A v \in Workers : at'[v] = l => at[v] = l
    BY <1>1, <1>4, <2>2 DEF OnlyAt
  <2>4. leadStep'[w] \in {"fetching", "finding", "inserting", "creating"} =>
          \/ leadStep[w] \in {"fetching", "finding", "inserting", "creating"}
          \/ leadStep[w] = "looking" /\ ~ Captured(at[w])
    BY <1>1, <1>7 DEF LeadTypeOK, Process, LeadCrash, Poll, Look, Fetch, FindContact,
       CreateContact, CreateLead, AutoReply, MarkProcessed, MarkFailed, Restart, Continue,
       LeadGoto
  <2>5. ~ Captured(l) => saved[l] = 0
    BY <1>1 DEF LeadTypeOK, Captured
  <2> QED
    BY <1>1, <1>3, <2>1, <2>3, <2>4, <2>5 DEF OnlyAt
<1> QED
  BY <1>5, <1>6, <1>7

\* A step records or settles one submission at most.
LEMMA RecordedFinite ==
  ASSUME LeadTypeOK, IsFiniteSet(Recorded), [LeadNext]_leadVars
  PROVE  IsFiniteSet(Recorded')
<1>1. \E l : Recorded' \subseteq Recorded \cup {l}
  <2>1. CASE event' = event
    BY <2>1 DEF Recorded
  <2>2. ASSUME NEW l \in Leads, NEW s, SetEvent(l, s)
        PROVE  Recorded' \subseteq Recorded \cup {l}
    BY <2>2 DEF Recorded, SetEvent, LeadTypeOK
  <2>3. ASSUME NEW l \in Leads, Record(l)
        PROVE  SetEvent(l, "RECEIVED")
    BY <2>3 DEF Record, SetEvent
  <2>4. ASSUME NEW w \in Workers, Process(w) \/ LeadCrash(w)
        PROVE  event' = event \/ \E l \in Leads, s \in EventStatus : SetEvent(l, s)
    <3>1. CASE MarkProcessed(w) \/ MarkFailed(w)
      <4>1. at[w] \in Leads
        BY <3>1, LeadAt DEF MarkProcessed, MarkFailed
      <4> QED
        BY <3>1, <4>1 DEF MarkProcessed, MarkFailed, EventStatus
    <3>2. CASE ~ (MarkProcessed(w) \/ MarkFailed(w))
      BY <2>4, <3>2 DEF Process, LeadCrash, Poll, Begin, Look, Fetch, FindContact, CreateContact,
         CreateLead, AutoReply, Restart
    <3> QED
      BY <3>1, <3>2
  <2> QED
    BY <2>1, <2>2, <2>3, <2>4 DEF LeadNext, leadVars
<1> QED
  BY <1>1, FS_AddElement, FS_Subset

\* Recording a submission leaves the workers to their work.
LEMMA LeadInvRecord ==
  ASSUME LeadInv, NEW l \in Leads, Record(l), IsFiniteSet(Recorded)
  PROVE  LeadInv'
<1>1. LeadTypeOK'
  BY LeadTypeRecord DEF LeadInv
<1>2. UNCHANGED <<at, leadStep, saved, replied, shared>>
  BY DEF Record, loopVars
<1>3. \A k \in Leads : Repliers(k)' = Repliers(k)
  BY <1>2 DEF Repliers
<1> QED
  BY <1>1, <1>2, <1>3 DEF LeadInv, RepliesOwed, AloneOnce

\* Every step preserves the invariant.
LEMMA LeadInvNext ==
  LeadInv /\ IsFiniteSet(Recorded) /\ [LeadNext]_leadVars => (LeadInv /\ IsFiniteSet(Recorded))'
<1> SUFFICES ASSUME LeadInv, IsFiniteSet(Recorded), [LeadNext]_leadVars
             PROVE  LeadInv' /\ IsFiniteSet(Recorded')
  OBVIOUS
<1>1. IsFiniteSet(Recorded')
  BY RecordedFinite DEF LeadInv
<1>2. CASE UNCHANGED leadVars
  <2>1. UNCHANGED <<at, leadStep, saved, replied, shared>> /\ LeadTypeOK'
    BY <1>2 DEF leadVars, loopVars, LeadInv, LeadTypeOK
  <2>2. \A k \in Leads : Repliers(k)' = Repliers(k)
    BY <2>1 DEF Repliers
  <2> QED
    BY <1>1, <2>1, <2>2 DEF LeadInv, RepliesOwed, AloneOnce
<1>3. CASE \E l \in Leads : Record(l)
  BY <1>1, <1>3, LeadInvRecord
<1>4. ASSUME NEW w \in Workers, Process(w) \/ LeadCrash(w)
      PROVE  LeadInv'
  <2>1. LeadTypeOK'
    BY <1>4, LeadTypeProcess DEF LeadInv
  <2>2. RepliesOwed'
    BY <1>4, <2>1, RepliesStep DEF RepliesOwed
  <2>3. AloneOnce'
    BY <1>4, <2>1, AloneStep
  <2> QED
    BY <2>1, <2>2, <2>3 DEF LeadInv
<1> QED
  BY <1>1, <1>2, <1>3, <1>4 DEF LeadNext

\* The types, one lead for each message, and one worker and one lead for every submission
\* that no two workers processed at once.
THEOREM LeadInvariant == LeadSafe => [](LeadInv /\ IsFiniteSet(Recorded))
<1>1. LeadInit => IsFiniteSet(Recorded)
  <2> SUFFICES ASSUME LeadInit PROVE IsFiniteSet(Recorded)
    OBVIOUS
  <2>1. Recorded = {}
    BY DEF LeadInit, Recorded
  <2> QED
    BY <2>1, FS_EmptySet
<1> QED
  BY <1>1, LeadInvInit, LeadInvNext, PTL DEF LeadSafe

\* A submission becomes two leads only when two workers were processing it at once, and its
\* sender is messaged at most once for each lead.
THEOREM LeadsNeedOverlapToRepeat == LeadSafe => []DuplicatesNeedOverlap
<1>1. LeadInv => DuplicatesNeedOverlap
  <2> SUFFICES ASSUME LeadInv, NEW l \in Leads
               PROVE  replied[l] <= saved[l] /\ (saved[l] > 1 => l \in shared)
    BY DEF DuplicatesNeedOverlap
  <2>1. replied[l] \in Nat /\ saved[l] \in Nat
    BY DEF LeadInv, LeadTypeOK
  <2>2. replied[l] <= saved[l]
    BY <2>1, RepliersFinite DEF LeadInv, RepliesOwed
  <2>3. saved[l] > 1 => l \in shared
    BY <2>1 DEF LeadInv, AloneOnce
  <2> QED
    BY <2>2, <2>3
<1> QED
  BY <1>1, LeadInvariant, PTL

(* The lockout: any number of sign-ins and attempts.                        *)

\* The sign-ins that were let in, and those whose wrong password is not counted yet.
LetIn == {r \in SignIns : login[r] = "checked"}
ToCount == {r \in SignIns : login[r] = "wrong"}

\* A wrong password is in the counter, on its way there, or was kept out of it; and those
\* that were let in were so while the counter was below the limit.
GuessesCounted ==
  /\ guesses <= failures + uncounted + Cardinality(ToCount)
  /\ guesses + Cardinality(LetIn) <= MaxAttempts - 1 + Cardinality(SignIns) + uncounted

LockInv == LockoutTypeOK /\ lockFaults \in Nat /\ tries \in Nat /\ GuessesCounted

\* Two sets of sign-ins that have none in common.
LEMMA SignInsApart ==
  ASSUME NEW S, NEW T, S \subseteq SignIns, T \subseteq SignIns, S \cap T = {}
  PROVE  /\ IsFiniteSet(S) /\ IsFiniteSet(T)
         /\ Cardinality(S) \in Nat /\ Cardinality(T) \in Nat /\ Cardinality(SignIns) \in Nat
         /\ Cardinality(S) + Cardinality(T) <= Cardinality(SignIns)
<1>1. IsFiniteSet(SignIns)
  BY LockoutAssumption DEF LockoutAssumption
<1>2. IsFiniteSet(S) /\ IsFiniteSet(T)
  BY <1>1, FS_Subset
<1>3. Cardinality(S) \in Nat /\ Cardinality(T) \in Nat /\ Cardinality(SignIns) \in Nat
  BY <1>1, <1>2, FS_CardinalityType
<1>4. Cardinality(S \cup T) = Cardinality(S) + Cardinality(T) - Cardinality(S \cap T)
  BY <1>2, FS_Union
<1>5. Cardinality(S \cap T) = 0
  BY FS_EmptySet
<1>6. Cardinality(S \cup T) <= Cardinality(SignIns)
  BY <1>1, FS_Subset
<1> QED
  BY <1>2, <1>3, <1>4, <1>5, <1>6

\* No sign-in is both let in and to be counted.
LEMMA SignInsFinite ==
  /\ IsFiniteSet(LetIn) /\ IsFiniteSet(ToCount)
  /\ Cardinality(LetIn) \in Nat /\ Cardinality(ToCount) \in Nat /\ Cardinality(SignIns) \in Nat
  /\ Cardinality(LetIn) + Cardinality(ToCount) <= Cardinality(SignIns)
<1>1. LetIn \subseteq SignIns /\ ToCount \subseteq SignIns /\ LetIn \cap ToCount = {}
  BY DEF LetIn, ToCount
<1> QED
  BY <1>1, SignInsApart

\* The same afterwards.
LEMMA SignInsFiniteAfter ==
  /\ IsFiniteSet(LetIn') /\ IsFiniteSet(ToCount')
  /\ Cardinality(LetIn') \in Nat /\ Cardinality(ToCount') \in Nat
  /\ Cardinality(LetIn') + Cardinality(ToCount') <= Cardinality(SignIns)
<1>1. LetIn' \subseteq SignIns /\ ToCount' \subseteq SignIns /\ LetIn' \cap ToCount' = {}
  BY DEF LetIn, ToCount
<1> QED
  BY <1>1, SignInsApart

\* A set that gains one sign-in at most.
LEMMA OneMore ==
  ASSUME NEW S, NEW T, NEW r, IsFiniteSet(S), T \subseteq S \cup {r}
  PROVE  Cardinality(T) <= Cardinality(S) + 1
<1>1. /\ IsFiniteSet(S \cup {r})
      /\ Cardinality(S \cup {r}) \in {Cardinality(S), Cardinality(S) + 1}
  BY FS_AddElement
<1>2. Cardinality(T) <= Cardinality(S \cup {r}) /\ Cardinality(T) \in Nat
  BY <1>1, FS_Subset, FS_CardinalityType
<1> QED
  BY <1>1, <1>2, FS_CardinalityType

\* A set that loses one sign-in at least.
LEMMA OneLess ==
  ASSUME NEW S, NEW T, NEW r \in S, IsFiniteSet(S), T \subseteq S \ {r}
  PROVE  Cardinality(T) + 1 <= Cardinality(S)
<1>1. IsFiniteSet(S \ {r}) /\ Cardinality(S \ {r}) = Cardinality(S) - 1
  BY FS_RemoveElement
<1>2. Cardinality(T) <= Cardinality(S \ {r}) /\ Cardinality(T) \in Nat
  BY <1>1, FS_Subset, FS_CardinalityType
<1> QED
  BY <1>1, <1>2, FS_CardinalityType

\* The invariant holds before the first sign-in.
LEMMA LockInvInit == LockoutInit => LockInv
<1> SUFFICES ASSUME LockoutInit PROVE LockInv
  OBVIOUS
<1>1. LockoutTypeOK /\ lockFaults \in Nat /\ tries \in Nat
  <2>1. MaxLockFaults \in Nat /\ MaxTries \in Nat
    BY LockoutAssumption DEF LockoutAssumption
  <2>2. lockFaults <= MaxLockFaults /\ tries <= MaxTries
    BY <2>1 DEF LockoutInit
  <2> QED
    BY <2>2 DEF LockoutInit, LockoutTypeOK, Login
<1>2. LetIn = {} /\ ToCount = {}
  BY DEF LockoutInit, LetIn, ToCount
<1>3. GuessesCounted
  BY <1>2, FS_EmptySet, SignInsFinite, LockoutAssumption
  DEF LockoutInit, GuessesCounted, LockoutAssumption
<1> QED
  BY <1>1, <1>3 DEF LockInv

\* Every step keeps the types.
LEMMA LockTypeNext ==
  ASSUME LockInv, [LockoutNext]_lockVars
  PROVE  LockoutTypeOK' /\ lockFaults' \in Nat /\ tries' \in Nat
<1>1. CASE UNCHANGED lockVars
  BY <1>1 DEF lockVars, LockInv, LockoutTypeOK
<1>2. CASE WindowEnds
  BY <1>2 DEF WindowEnds, KeyGone, LockInv, LockoutTypeOK
<1>3. ASSUME NEW r \in SignIns, Check(r)
      PROVE  LockoutTypeOK' /\ lockFaults' \in Nat /\ tries' \in Nat
  BY <1>3, LockoutAssumption DEF LockoutAssumption, Check, LockInv, LockoutTypeOK, Login
<1>4. ASSUME NEW r \in SignIns, SignInStep(r)
      PROVE  LockoutTypeOK' /\ lockFaults' \in Nat /\ tries' \in Nat
  <2>1. CASE Verify(r)
    BY <2>1 DEF Verify, LockInv, LockoutTypeOK, Login
  <2>2. CASE Clear(r)
    BY <2>2 DEF Clear, KeyGone, LockInv, LockoutTypeOK, Login
  <2>3. CASE Count(r)
    BY <2>3 DEF Count, LockInv, LockoutTypeOK, Login
  <2>4. CASE Expire(r)
    BY <2>4 DEF Expire, LockInv, LockoutTypeOK, Login
  <2> QED
    BY <1>4, <2>1, <2>2, <2>3, <2>4 DEF SignInStep
<1>5. ASSUME NEW r \in SignIns, Break(r)
      PROVE  LockoutTypeOK' /\ lockFaults' \in Nat /\ tries' \in Nat
  <2>1. lockFaults' = lockFaults + 1 /\ lockFaults < MaxLockFaults
    BY <1>5 DEF Break, Trouble
  <2> QED
    BY <1>5, <2>1, LockoutAssumption DEF LockoutAssumption, Break, LockInv, LockoutTypeOK, Login
<1> QED
  BY <1>1, <1>2, <1>3, <1>4, <1>5 DEF LockoutNext

\* When the key goes, nothing of what is left to count was guessed before.
LEMMA KeyGoneCounted ==
  ASSUME LockInv, KeyGone
  PROVE  GuessesCounted'
  BY SignInsFinite, SignInsFiniteAfter, LockoutAssumption
  DEF KeyGone, GuessesCounted, LockoutAssumption

\* Every step preserves the invariant.
LEMMA LockInvNext == LockInv /\ [LockoutNext]_lockVars => LockInv'
<1> SUFFICES ASSUME LockInv, [LockoutNext]_lockVars PROVE LockInv'
  OBVIOUS
<1>1. LockoutTypeOK' /\ lockFaults' \in Nat /\ tries' \in Nat
  BY LockTypeNext
<1>2. /\ guesses \in Nat /\ failures \in Nat /\ uncounted \in Nat /\ MaxAttempts \in Nat \ {0}
      /\ login \in [SignIns -> Login]
      /\ guesses <= failures + uncounted + Cardinality(ToCount)
      /\ guesses + Cardinality(LetIn) <= MaxAttempts - 1 + Cardinality(SignIns) + uncounted
  BY LockoutAssumption DEF LockInv, LockoutTypeOK, GuessesCounted, LockoutAssumption
<1>3. CASE UNCHANGED lockVars
  BY <1>1, <1>2, <1>3 DEF LockInv, GuessesCounted, LetIn, ToCount, lockVars
<1>4. CASE KeyGone
  BY <1>1, <1>4, KeyGoneCounted DEF LockInv
<1>5. ASSUME NEW r \in SignIns, Check(r)
      PROVE  LockInv'
  <2>1. /\ UNCHANGED <<failures, guesses, uncounted>> /\ failures < MaxAttempts
        /\ login' = [login EXCEPT ![r] = "checked"] /\ login[r] = "none"
    BY <1>2, <1>5 DEF Check, Locked
  <2>2. ToCount' = ToCount
    BY <1>2, <2>1 DEF ToCount
  <2>3. GuessesCounted'
    BY <1>2, <2>1, <2>2, SignInsFinite, SignInsFiniteAfter DEF GuessesCounted
  <2> QED
    BY <1>1, <2>3 DEF LockInv
<1>6. ASSUME NEW r \in SignIns, Verify(r)
      PROVE  LockInv'
  <2>1. /\ UNCHANGED <<failures, uncounted>> /\ login[r] = "checked"
        /\ login' \in [SignIns -> Login] /\ login'[r] \in {"right", "wrong", "none"}
        /\ \A q \in SignIns \ {r} : login'[q] = login[q]
        /\ guesses' = IF login'[r] = "wrong" THEN guesses + 1 ELSE guesses
    BY <1>1, <1>2, <1>6 DEF Verify, LockoutTypeOK
  <2>2. Cardinality(LetIn') + 1 <= Cardinality(LetIn)
    <3>1. r \in LetIn /\ LetIn' \subseteq LetIn \ {r}
      BY <2>1 DEF LetIn
    <3> QED
      BY <3>1, SignInsFinite, OneLess
  <2>3. CASE login'[r] = "wrong"
    <3>1. r \in ToCount' /\ ToCount \subseteq ToCount' \ {r}
      BY <2>1, <2>3 DEF ToCount
    <3>2. Cardinality(ToCount) + 1 <= Cardinality(ToCount')
      BY <3>1, SignInsFiniteAfter, OneLess
    <3>3. GuessesCounted'
      BY <1>2, <2>1, <2>2, <2>3, <3>2, SignInsFinite, SignInsFiniteAfter DEF GuessesCounted
    <3> QED
      BY <1>1, <3>3 DEF LockInv
  <2>4. CASE login'[r] # "wrong"
    <3>1. ToCount' = ToCount
      BY <2>1, <2>4 DEF ToCount
    <3>2. GuessesCounted'
      BY <1>2, <2>1, <2>2, <2>4, <3>1, SignInsFinite, SignInsFiniteAfter DEF GuessesCounted
    <3> QED
      BY <1>1, <3>2 DEF LockInv
  <2> QED
    BY <2>3, <2>4
<1>7. ASSUME NEW r \in SignIns, Count(r)
      PROVE  LockInv'
  <2>1. /\ UNCHANGED <<guesses, uncounted>> /\ failures' = failures + 1
        /\ login[r] = "wrong" /\ login'[r] \in {"first", "none"}
        /\ \A q \in SignIns \ {r} : login'[q] = login[q]
    BY <1>2, <1>7 DEF Count
  <2>2. LetIn' = LetIn /\ ToCount \subseteq ToCount' \cup {r}
    BY <2>1 DEF LetIn, ToCount
  <2>3. Cardinality(ToCount) <= Cardinality(ToCount') + 1
    BY <2>2, SignInsFiniteAfter, OneMore
  <2>4. GuessesCounted'
    BY <1>2, <2>1, <2>2, <2>3, SignInsFinite, SignInsFiniteAfter DEF GuessesCounted
  <2> QED
    BY <1>1, <2>4 DEF LockInv
<1>8. ASSUME NEW r \in SignIns, Expire(r)
      PROVE  LockInv'
  <2>1. /\ UNCHANGED <<guesses, uncounted, failures>>
        /\ login[r] = "first" /\ login'[r] = "none"
        /\ \A q \in SignIns \ {r} : login'[q] = login[q]
    BY <1>2, <1>8 DEF Expire
  <2>2. LetIn' = LetIn /\ ToCount' = ToCount
    BY <2>1 DEF LetIn, ToCount
  <2>3. GuessesCounted'
    BY <1>2, <2>1, <2>2 DEF GuessesCounted
  <2> QED
    BY <1>1, <2>3 DEF LockInv
<1>9. ASSUME NEW r \in SignIns, Break(r)
      PROVE  LockInv'
  <2>1. /\ UNCHANGED <<guesses, failures>> /\ login'[r] = "none"
        /\ uncounted' = IF login[r] = "wrong" /\ guesses > 0 THEN uncounted + 1 ELSE uncounted
        /\ \A q \in SignIns \ {r} : login'[q] = login[q]
    BY <1>2, <1>9 DEF Break
  <2>2. LetIn' \subseteq LetIn /\ ToCount \subseteq ToCount' \cup {r}
    BY <2>1 DEF LetIn, ToCount
  <2>3. /\ Cardinality(LetIn') <= Cardinality(LetIn)
        /\ Cardinality(ToCount) <= Cardinality(ToCount') + 1
    BY <2>2, SignInsFinite, SignInsFiniteAfter, OneMore, FS_Subset
  <2>4. login[r] # "wrong" => ToCount' = ToCount
    BY <2>1 DEF ToCount
  <2>5. GuessesCounted'
    BY <1>2, <2>1, <2>3, <2>4, SignInsFinite, SignInsFiniteAfter DEF GuessesCounted
  <2> QED
    BY <1>1, <2>5 DEF LockInv
<1> QED
  BY <1>3, <1>4, <1>5, <1>6, <1>7, <1>8, <1>9
  DEF LockoutNext, WindowEnds, SignInStep, Clear

\* The types, and where every wrong password is.
THEOREM LockInvariant == LockoutSpec => []LockInv
<1> QED
  BY LockInvInit, LockInvNext, PTL DEF LockoutSpec

\* Between two moments at which the key goes, an account answers at most MaxAttempts - 1 wrong
\* passwords, those of the sign-ins that raced, and those a fault kept from being counted.
THEOREM GuessesAreBounded == LockoutSpec => []GuessesBounded
<1>1. LockInv => GuessesBounded
  BY SignInsFinite, LockoutAssumption
  DEF LockInv, LockoutTypeOK, GuessesCounted, GuessesBounded, LockoutAssumption
<1> QED
  BY <1>1, LockInvariant, PTL

-----------------------------------------------------------------------------
(* Hosted forms.                                                             *)

\* A submission under way has a form, one that creates a contact has an address, one that
\* writes has created its contact or found it; a contact that is made while another one is
\* to be, and a member's submission that is refused, have a reason.
SubmissionFits(v) ==
  /\ v.step \in {"found", "creating", "writing", "captured", "done"} => v.form \in Forms
  /\ v.step = "creating" \/ v.creates => v.email \in Addresses
  /\ v.step = "writing" /\ v.email # Nobody => v.creates \/ Contact(v) \in formContacts
  /\ v.step \in {"captured", "done"} /\ v.email # Nobody => Contact(v) \in formContacts
  /\ v.step = "creating" /\ Contact(v) \in formContacts => v.raced
  /\ v.step = "refused" /\ InScope(v) => v.failed \/ v.raced

SubmissionsFit == \A s \in Submissions : SubmissionFits(sent[s])

\* Two submissions that deal with one contact at the same time know it.
Deals(v) == v.step \in {"creating", "writing"} /\ v.email # Nobody
RivalsRaced ==
  \A s, t \in Submissions :
    s # t /\ Deals(sent[s]) /\ Deals(sent[t]) /\ Contact(sent[s]) = Contact(sent[t])
      => sent[s].raced

\* The submissions of a form that were captured, which its count is the number of.
ReceivedBy(f) == {s \in Received : sent[s].form = f}
SubmitsCounted == \A f \in Forms : submitCount[f] = Cardinality(ReceivedBy(f))

FormsInv == FormsTypeOK /\ SubmissionsFit /\ RivalsRaced /\ SubmitsCounted

\* The invariant holds before anything is published.
LEMMA FormsInvInit == FormsInit => FormsInv
<1> SUFFICES ASSUME FormsInit PROVE FormsInv
  OBVIOUS
<1> USE FormsAssumption DEF FormsAssumption, FormsInit, Unsent
<1>1. FormsTypeOK
  BY DEF FormsTypeOK, Submission
<1>2. SubmissionsFit
  BY DEF SubmissionsFit, SubmissionFits
<1>3. RivalsRaced
  BY DEF RivalsRaced, Deals
<1>4. SubmitsCounted
  <2>1. \A f \in Forms : ReceivedBy(f) = {}
    BY DEF ReceivedBy, Received
  <2> QED
    BY <2>1, FS_EmptySet DEF SubmitsCounted
<1> QED
  BY <1>1, <1>2, <1>3, <1>4 DEF FormsInv

\* What keeps the captured submissions of every form keeps the counts.
LEMMA CountsStay ==
  ASSUME FormsInv, UNCHANGED submitCount,
         \A s \in Submissions :
           /\ sent'[s].form = sent[s].form \/ s \notin Received
           /\ s \in Received' <=> s \in Received
  PROVE  SubmitsCounted'
<1>1. ASSUME NEW f \in Forms PROVE ReceivedBy(f)' = ReceivedBy(f)
  <2>1. \A s \in Submissions : s \in ReceivedBy(f)' <=> s \in ReceivedBy(f)
    BY DEF ReceivedBy, Received
  <2> QED
    BY <2>1 DEF ReceivedBy, Received
<1> QED
  BY <1>1 DEF SubmitsCounted, FormsInv

\* One submission changes, and does not begin to deal with a contact.
LEMMA RivalsStay ==
  ASSUME FormsInv, NEW s \in Submissions, NEW v, sent' = [sent EXCEPT ![s] = v],
         Deals(v) => /\ Deals(sent[s])
                     /\ Contact(v) = Contact(sent[s]) /\ v.raced = sent[s].raced
  PROVE  RivalsRaced'
<1>1. sent'[s] = v /\ \A t \in Submissions \ {s} : sent'[t] = sent[t]
  BY DEF FormsInv, FormsTypeOK
<1> QED
  BY <1>1 DEF RivalsRaced, FormsInv

\* One submission changes, contacts stay.
LEMMA FitsStay ==
  ASSUME FormsInv, NEW s \in Submissions, NEW v, sent' = [sent EXCEPT ![s] = v],
         UNCHANGED formContacts, SubmissionFits(v)
  PROVE  SubmissionsFit'
<1>1. sent'[s] = v /\ \A t \in Submissions \ {s} : sent'[t] = sent[t]
  BY DEF FormsInv, FormsTypeOK
<1> QED
  BY <1>1 DEF SubmissionsFit, SubmissionFits, FormsInv, Contact, InScope

\* A visitor arrives.
LEMMA FormsInvArrive ==
  ASSUME FormsInv, NEW s \in Submissions, NEW by \in Forms \cup {Nobody},
         NEW email \in Addresses \cup {Nobody}, Arrive(s, by, email)
  PROVE  FormsInv'
<1>1. PICK v \in Submission :
        /\ sent' = [sent EXCEPT ![s] = v]
        /\ v.step = "absent" \/ (v.step = "found" /\ v.form \in Forms)
        /\ v.creates = FALSE
  <2>1. CASE published \ removed = {}
    <3>1. [[Unsent EXCEPT !.by = by, !.email = email] EXCEPT !.step = "absent"] \in Submission
      BY DEF Submission, Unsent
    <3>2. sent' = [sent EXCEPT ![s] = [[Unsent EXCEPT !.by = by, !.email = email]
                                         EXCEPT !.step = "absent"]]
      BY <2>1 DEF Arrive, Becomes
    <3> QED
      BY <3>1, <3>2 DEF Unsent
  <2>2. CASE published \ removed # {}
    <3>1. PICK f \in published \ removed :
            sent' = [sent EXCEPT ![s] = [[Unsent EXCEPT !.by = by, !.email = email]
                                           EXCEPT !.form = f, !.step = "found"]]
      BY <2>2 DEF Arrive, Becomes
    <3>2. f \in Forms
      BY DEF FormsInv, FormsTypeOK
    <3>3. [[Unsent EXCEPT !.by = by, !.email = email] EXCEPT !.form = f, !.step = "found"]
            \in Submission
      BY <3>2 DEF Submission, Unsent
    <3> QED
      BY <3>1, <3>2, <3>3 DEF Unsent
  <2> QED
    BY <2>1, <2>2
<1>2. FormsTypeOK'
  BY <1>1 DEF Arrive, FormsInv, FormsTypeOK
<1>3. SubmissionsFit'
  BY <1>1, FitsStay DEF Arrive, SubmissionFits
<1>4. RivalsRaced'
  BY <1>1, RivalsStay DEF Deals
<1>5. SubmitsCounted'
  <2>1. sent'[s] = v /\ \A t \in Submissions \ {s} : sent'[t] = sent[t]
    BY <1>1 DEF FormsInv, FormsTypeOK
  <2>2. s \notin Received /\ s \notin Received'
    BY <1>1, <2>1 DEF Arrive, Received
  <2>3. \A t \in Submissions \ {s} : t \in Received' <=> t \in Received
    BY <2>1 DEF Received
  <2> QED
    BY <2>1, <2>2, <2>3, CountsStay DEF Arrive
<1> QED
  BY <1>2, <1>3, <1>4, <1>5 DEF FormsInv

\* The contact is looked for: who is beside it learns so, and it of them.
LEMMA FormsInvFind ==
  ASSUME FormsInv, NEW s \in Submissions, SeekContact(s)
  PROVE  FormsInv'
<1> DEFINE v == sent[s]
           step == IF ~ InScope(v) THEN "refused" ELSE IF Known(v) THEN "writing" ELSE "creating"
           others == IF InScope(v) THEN Rivals(s) ELSE {}
<1>1. v \in Submission /\ v.step = "found" /\ v.form \in Forms
  BY DEF SeekContact, FormsInv, FormsTypeOK, SubmissionsFit, SubmissionFits
<1>2. /\ sent'[s] = [v EXCEPT !.step = step, !.raced = others # {}]
      /\ \A t \in Submissions \ {s} :
           sent'[t] = IF t \in others THEN [sent[t] EXCEPT !.raced = TRUE] ELSE sent[t]
      /\ sent' = [t \in Submissions |-> sent'[t]]
  BY DEF SeekContact
<1>3. step \in {"refused", "writing", "creating"}
  OBVIOUS
<1>4. [v EXCEPT !.step = step, !.raced = others # {}] \in Submission
  BY <1>1, <1>3 DEF Submission
<1>5. \A t \in Submissions : sent[t] \in Submission /\ SubmissionFits(sent[t])
  BY DEF FormsInv, FormsTypeOK, SubmissionsFit
<1> HIDE DEF others, step
<1>6. ASSUME NEW t \in Submissions \ {s}
       PROVE  /\ sent'[t] \in Submission
              /\ sent'[t].by = sent[t].by /\ sent'[t].form = sent[t].form
              /\ sent'[t].email = sent[t].email /\ sent'[t].step = sent[t].step
              /\ sent'[t].creates = sent[t].creates /\ sent'[t].failed = sent[t].failed
              /\ sent[t].raced \/ t \in others => sent'[t].raced
  <2>1. sent[t] \in Submission
    BY <1>5
  <2>2. CASE t \in others
    <3>1. sent'[t] = [sent[t] EXCEPT !.raced = TRUE]
      BY <1>2, <2>2
    <3> QED
      BY <2>1, <3>1 DEF Submission
  <2>3. CASE t \notin others
    BY <1>2, <2>1, <2>3
  <2> QED
    BY <2>2, <2>3
<1>7. FormsTypeOK'
  <2>1. ASSUME NEW t \in Submissions PROVE sent'[t] \in Submission
    BY <1>2, <1>4, <1>6
  <2> QED
    BY <1>2, <2>1 DEF SeekContact, FormsInv, FormsTypeOK
<1>8. SubmissionsFit'
  <2>1. UNCHANGED formContacts
    BY DEF SeekContact
  <2>2. ASSUME NEW t \in Submissions \ {s} PROVE SubmissionFits(sent[t])'
    BY <1>5, <1>6, <2>1 DEF SubmissionFits, Contact, InScope
  <2>3. SubmissionFits(sent[s])'
    BY <1>1, <1>2, <1>5, <2>1 DEF SubmissionFits, Contact, InScope, Submission, Known, step
  <2> QED
    BY <2>2, <2>3 DEF SubmissionsFit
<1>9. RivalsRaced'
  <2> SUFFICES ASSUME NEW t \in Submissions, NEW u \in Submissions, t # u,
                      Deals(sent'[t]), Deals(sent'[u]), Contact(sent'[t]) = Contact(sent'[u])
               PROVE  sent'[t].raced
    BY DEF RivalsRaced
  <2>1. CASE t # s /\ u # s
    BY <1>6, <2>1 DEF FormsInv, RivalsRaced, Deals, Contact
  <2>2. CASE t = s
    <3>1. InScope(v) /\ v.email # Nobody /\ Contact(v) = Contact(sent[u]) /\ Deals(sent[u])
      BY <1>1, <1>2, <1>6, <2>2 DEF Deals, Contact, Submission, step
    <3>2. u \in others
      BY <2>2, <3>1 DEF Deals, Rivals, others
    <3> QED
      BY <1>1, <1>2, <2>2, <3>2 DEF Submission
  <2>3. CASE u = s
    <3>1. InScope(v) /\ v.email # Nobody /\ Contact(v) = Contact(sent[t]) /\ Deals(sent[t])
      BY <1>1, <1>2, <1>6, <2>3 DEF Deals, Contact, Submission, step
    <3>2. t \in others
      BY <2>3, <3>1 DEF Deals, Rivals, others
    <3> QED
      BY <1>6, <2>3, <3>2
  <2> QED
    BY <2>1, <2>2, <2>3
<1>10. SubmitsCounted'
  <2>1. \A t \in Submissions \ {s} : sent'[t].form = sent[t].form /\ sent'[t].step = sent[t].step
    BY <1>6
  <2>2. s \notin Received /\ s \notin Received'
    BY <1>1, <1>2, <1>3 DEF Received, Submission
  <2> QED
    BY <2>1, <2>2, CountsStay DEF SeekContact, Received
<1> QED
  BY <1>7, <1>8, <1>9, <1>10 DEF FormsInv

\* The contact is created, unless it has been meanwhile; then somebody raced.
LEMMA FormsInvMake ==
  ASSUME FormsInv, NEW s \in Submissions, MakeContact(s)
  PROVE  FormsInv'
<1> DEFINE v == sent[s]
<1>1. v \in Submission /\ SubmissionFits(v) /\ v.step = "creating"
  BY DEF MakeContact, FormsInv, FormsTypeOK, SubmissionsFit
<1>2. PICK w \in Submission :
        /\ sent' = [sent EXCEPT ![s] = w]
        /\ w.form = v.form /\ w.email = v.email /\ w.raced = v.raced
        /\ \/ w.step = "refused" /\ v.raced /\ w.creates = v.creates
           \/ w.step = "writing" /\ w.creates
  <2>1. CASE Contact(v) \in formContacts
    <3>1. [v EXCEPT !.step = "refused"] \in Submission
      BY <1>1 DEF Submission
    <3>2. sent' = [sent EXCEPT ![s] = [v EXCEPT !.step = "refused"]] /\ v.raced
      BY <1>1, <2>1 DEF MakeContact, Becomes, SubmissionFits
    <3> QED
      BY <1>1, <3>1, <3>2 DEF Submission
  <2>2. CASE Contact(v) \notin formContacts
    <3>1. [v EXCEPT !.step = "writing", !.creates = TRUE] \in Submission
      BY <1>1 DEF Submission
    <3>2. sent' = [sent EXCEPT ![s] = [v EXCEPT !.step = "writing", !.creates = TRUE]]
      BY <2>2 DEF MakeContact, Becomes
    <3> QED
      BY <1>1, <3>1, <3>2 DEF Submission
  <2> QED
    BY <2>1, <2>2
<1>3. FormsTypeOK'
  BY <1>2 DEF MakeContact, FormsInv, FormsTypeOK
<1>4. SubmissionsFit'
  BY <1>1, <1>2, FitsStay DEF MakeContact, SubmissionFits, Submission
<1>5. RivalsRaced'
  BY <1>1, <1>2, RivalsStay DEF Deals, Contact, Submission
<1>6. SubmitsCounted'
  <2>1. sent'[s] = w /\ \A t \in Submissions \ {s} : sent'[t] = sent[t]
    BY <1>2 DEF FormsInv, FormsTypeOK
  <2> QED
    BY <1>1, <1>2, <2>1, CountsStay DEF MakeContact, Received
<1> QED
  BY <1>3, <1>4, <1>5, <1>6 DEF FormsInv

\* The transaction commits: one submission more, with a contact if it has an address.
LEMMA FormsInvCapture ==
  ASSUME FormsInv, NEW s \in Submissions, Capture(s)
  PROVE  FormsInv'
<1> DEFINE v == sent[s]
<1>1. v \in Submission /\ SubmissionFits(v) /\ v.step = "writing" /\ v.form \in Forms
  BY DEF Capture, FormsInv, FormsTypeOK, SubmissionsFit, SubmissionFits
<1>2. /\ sent'[s] = [v EXCEPT !.step = "captured"]
      /\ \A t \in Submissions \ {s} : sent'[t] = sent[t]
      /\ [v EXCEPT !.step = "captured"] \in Submission
  BY <1>1 DEF Capture, Becomes, FormsInv, FormsTypeOK, Submission
<1>3. v.creates => v.email \in Addresses
  BY <1>1 DEF SubmissionFits
<1>4. /\ formContacts' \subseteq Forms \X Addresses
      /\ formContacts \subseteq formContacts'
      /\ v.email # Nobody => Contact(v) \in formContacts'
      /\ \A c \in formContacts' : c \in formContacts \/ (c = Contact(v) /\ v.creates)
  BY <1>1, <1>3 DEF Capture, Contact, SubmissionFits, FormsInv, FormsTypeOK
<1>5. FormsTypeOK'
  BY <1>1, <1>2, <1>4 DEF Capture, Becomes, FormsInv, FormsTypeOK
<1>6. SubmissionsFit'
  <2>1. ASSUME NEW t \in Submissions \ {s} PROVE SubmissionFits(sent[t])'
    <3>1. sent[t] \in Submission /\ SubmissionFits(sent[t]) /\ sent'[t] = sent[t]
      BY <1>2 DEF FormsInv, FormsTypeOK, SubmissionsFit
    <3>2. ASSUME sent[t].step = "creating", Contact(sent[t]) \in formContacts',
                 Contact(sent[t]) \notin formContacts
          PROVE  sent[t].raced
      <4>1. Contact(sent[t]) = Contact(v) /\ v.creates
        BY <1>4, <3>2
      <4>2. Deals(v) /\ Deals(sent[t])
        BY <1>1, <1>3, <3>1, <3>2, <4>1, FormsAssumption
        DEF Deals, FormsAssumption, SubmissionFits
      <4> QED
        BY <4>1, <4>2 DEF FormsInv, RivalsRaced
    <3> QED
      BY <1>4, <3>1, <3>2 DEF SubmissionFits, Contact, InScope
  <2>2. SubmissionFits(sent[s])'
    BY <1>1, <1>2, <1>3, <1>4 DEF SubmissionFits, Contact, InScope, Submission
  <2> QED
    BY <2>1, <2>2 DEF SubmissionsFit
<1>7. RivalsRaced'
  BY <1>2, RivalsStay DEF Capture, Becomes, Deals, Submission
<1>8. SubmitsCounted'
  <2> SUFFICES ASSUME NEW f \in Forms
               PROVE  submitCount'[f] = Cardinality(ReceivedBy(f)')
    BY DEF SubmitsCounted
  <2>1. submitCount[f] = Cardinality(ReceivedBy(f)) /\ s \notin ReceivedBy(f)
    BY <1>1 DEF FormsInv, SubmitsCounted, ReceivedBy, Received
  <2>2. IsFiniteSet(ReceivedBy(f))
    BY FormsAssumption, FS_Subset DEF FormsAssumption, ReceivedBy, Received
  <2>3. CASE f = v.form
    <3>1. ReceivedBy(f)' = ReceivedBy(f) \cup {s}
      BY <1>1, <1>2, <2>3 DEF ReceivedBy, Received, Submission
    <3>2. submitCount'[f] = submitCount[f] + 1
      BY <2>3 DEF Capture, FormsInv, FormsTypeOK
    <3> QED
      BY <2>1, <2>2, <3>1, <3>2, FS_AddElement
  <2>4. CASE f # v.form
    <3>1. ReceivedBy(f)' = ReceivedBy(f)
      BY <1>1, <1>2, <2>4 DEF ReceivedBy, Received, Submission
    <3>2. submitCount'[f] = submitCount[f]
      BY <2>4 DEF Capture, FormsInv, FormsTypeOK
    <3> QED
      BY <2>1, <3>1, <3>2
  <2> QED
    BY <2>3, <2>4
<1> QED
  BY <1>5, <1>6, <1>7, <1>8 DEF FormsInv

\* The workflows are told, or the transaction fails.
LEMMA FormsInvAfter ==
  ASSUME FormsInv, NEW s \in Submissions, Trigger(s) \/ BreakOff(s)
  PROVE  FormsInv'
<1> DEFINE v == sent[s]
<1>1. v \in Submission /\ SubmissionFits(v)
  BY DEF FormsInv, FormsTypeOK, SubmissionsFit
<1>2. PICK w \in Submission :
        /\ sent' = [sent EXCEPT ![s] = w]
        /\ w.form = v.form /\ w.email = v.email /\ (w.creates => v.creates)
        /\ \/ v.step = "captured" /\ w.step = "done"
           \/ v.step \in {"found", "creating", "writing"} /\ w.step = "refused" /\ w.failed
  <2>1. CASE Trigger(s)
    <3>1. [v EXCEPT !.step = "done"] \in Submission
      BY <1>1 DEF Submission
    <3> QED
      BY <1>1, <2>1, <3>1 DEF Trigger, Becomes, Submission
  <2>2. CASE BreakOff(s)
    <3>1. [v EXCEPT !.step = "refused", !.failed = TRUE, !.creates = FALSE] \in Submission
      BY <1>1 DEF Submission
    <3> QED
      BY <1>1, <2>2, <3>1 DEF BreakOff, Becomes, Submission
  <2> QED
    BY <2>1, <2>2
<1>3. UNCHANGED <<published, removed, formContacts, submitCount>>
  BY DEF Trigger, BreakOff
<1>4. FormsTypeOK'
  BY <1>2, <1>3, FormsAssumption
  DEF Trigger, BreakOff, FormsInv, FormsTypeOK, FormsAssumption
<1>5. SubmissionsFit'
  <2>1. SubmissionFits(w)
    BY <1>1, <1>2 DEF SubmissionFits, Contact, Submission
  <2> QED
    BY <1>2, <1>3, <2>1, FitsStay
<1>6. RivalsRaced'
  BY <1>2, RivalsStay DEF Deals
<1>7. SubmitsCounted'
  <2>1. sent'[s] = w /\ \A t \in Submissions \ {s} : sent'[t] = sent[t]
    BY <1>2 DEF FormsInv, FormsTypeOK
  <2>2. \A t \in Submissions :
          sent'[t].form = sent[t].form /\ (t \in Received' <=> t \in Received)
    BY <1>2, <2>1 DEF Received
  <2> QED
    BY <1>3, <2>2, CountsStay
<1> QED
  BY <1>4, <1>5, <1>6, <1>7 DEF FormsInv

\* The invariant holds in every reachable state.
LEMMA FormsInvAlways == FormsSpec => []FormsInv
<1>1. FormsInv /\ [FormsNext]_formVars => FormsInv'
  <2> SUFFICES ASSUME FormsInv, [FormsNext]_formVars PROVE FormsInv'
    OBVIOUS
  <2>1. CASE UNCHANGED formVars \/ \E f \in Forms : SetStatus(f) \/ Remove(f)
    <3>1. UNCHANGED <<sent, formContacts, submitCount, triggered, formTrouble>>
      BY <2>1 DEF SetStatus, Remove, formVars
    <3>2. published' \subseteq Forms /\ removed' \subseteq Forms
      BY <2>1 DEF SetStatus, Remove, formVars, FormsInv, FormsTypeOK
    <3>3. FormsTypeOK'
      BY <3>1, <3>2 DEF FormsInv, FormsTypeOK
    <3>4. SubmissionsFit' /\ RivalsRaced'
      BY <3>1 DEF FormsInv, SubmissionsFit, SubmissionFits, RivalsRaced, Deals, Contact, InScope
    <3>5. SubmitsCounted'
      BY <3>1, CountsStay DEF Received
    <3> QED
      BY <3>3, <3>4, <3>5 DEF FormsInv
  <2>2. CASE \E s \in Submissions, by \in Forms \cup {Nobody}, email \in Addresses \cup {Nobody} :
               Arrive(s, by, email)
    BY <2>2, FormsInvArrive
  <2>3. CASE \E s \in Submissions : SeekContact(s)
    BY <2>3, FormsInvFind
  <2>4. CASE \E s \in Submissions : MakeContact(s)
    BY <2>4, FormsInvMake
  <2>5. CASE \E s \in Submissions : Capture(s)
    BY <2>5, FormsInvCapture
  <2>6. CASE \E s \in Submissions : Trigger(s) \/ BreakOff(s)
    BY <2>6, FormsInvAfter
  <2> QED
    BY <2>1, <2>2, <2>3, <2>4, <2>5, <2>6 DEF FormsNext
<1> QED
  BY <1>1, FormsInvInit, PTL DEF FormsSpec

\* Hosted forms are type correct.
THEOREM FormTypeCorrect == FormsSpec => []FormsTypeOK
<1>1. FormsInv => FormsTypeOK
  BY DEF FormsInv
<1> QED
  BY <1>1, FormsInvAlways, PTL

\* A submission is captured whole or not at all, and a member's is lost for a reason only.
THEOREM FormsAreSound == FormsSpec => []FormsSound
<1>1. FormsInv => FormsSound
  <2> SUFFICES ASSUME FormsInv PROVE FormsSound
    OBVIOUS
  <2>1. CapturedWhole
    BY DEF FormsInv, SubmitsCounted, ReceivedBy, SubmissionsFit, SubmissionFits, Received,
           CapturedWhole
  <2>2. MembersCaptured
    BY DEF FormsInv, SubmissionsFit, SubmissionFits, MembersCaptured
  <2> QED
    BY <2>1, <2>2 DEF FormsSound
<1> QED
  BY <1>1, FormsInvAlways, PTL

-----------------------------------------------------------------------------
(* The index of a knowledge base.                                            *)

(* Sums.                                                                     *)

\* The numbered chunks of the documents of S, when f says how many each has.
ChunksOf(f, S) == UNION {{d} \X (1..f[d]) : d \in S}

\* There are finitely many, and they are counted one document at a time.
LEMMA CountAdds ==
  ASSUME NEW f \in [Documents -> Nat], NEW S \in SUBSET Documents
  PROVE  /\ Cardinality(ChunksOf(f, S)) \in Nat
         /\ \A d \in S :
              Cardinality(ChunksOf(f, S)) = Cardinality(ChunksOf(f, S \ {d})) + f[d]
<1> DEFINE g(d) == {d} \X (1..f[d])
<1>1. ASSUME NEW d \in Documents
      PROVE  IsFiniteSet(g(d)) /\ Cardinality(g(d)) = f[d]
  <2>1. f[d] \in Nat /\ IsFiniteSet(1..f[d]) /\ Cardinality(1..f[d]) = f[d]
    BY FS_Interval
  <2>2. IsFiniteSet({d}) /\ Cardinality({d}) = 1
    BY FS_Singleton
  <2>3. Cardinality({d} \X (1..f[d])) = 1 * f[d] /\ IsFiniteSet({d} \X (1..f[d]))
    BY <2>1, <2>2, FS_Product
  <2> QED
    BY <2>1, <2>3
<1>2. ASSUME NEW T \in SUBSET Documents PROVE IsFiniteSet(ChunksOf(f, T))
  <2> DEFINE h == [d \in T |-> g(d)]
             R == {g(d) : d \in T}
  <2>1. h \in Surjection(T, R)
    BY DEF Surjection
  <2>2. IsFiniteSet(T)
    BY KnowledgeAssumption, FS_Subset DEF KnowledgeAssumption
  <2>3. IsFiniteSet(R)
    <3> HIDE DEF h, R
    <3> QED BY <2>1, <2>2, FS_Surjection
  <2>4. \A x \in R : IsFiniteSet(x)
    BY <1>1
  <2>5. IsFiniteSet(UNION R)
    <3> HIDE DEF R
    <3> QED BY <2>3, <2>4, FS_UNION
  <2> QED
    BY <2>5 DEF ChunksOf
<1>3. ASSUME NEW d \in S
      PROVE  Cardinality(ChunksOf(f, S)) = Cardinality(ChunksOf(f, S \ {d})) + f[d]
  <2>1. ChunksOf(f, S) = ChunksOf(f, S \ {d}) \cup g(d)
    BY DEF ChunksOf
  <2>2. ChunksOf(f, S \ {d}) \cap g(d) = {}
    BY DEF ChunksOf
  <2>3. IsFiniteSet(ChunksOf(f, S \ {d}))
    BY <1>2
  <2>4. Cardinality(ChunksOf(f, S \ {d})) \in Nat
    BY <2>3, FS_CardinalityType
  <2>5. f[d] \in Nat
    OBVIOUS
  <2>6. IsFiniteSet(g(d)) /\ Cardinality(g(d)) = f[d]
    BY <1>1
  <2> HIDE DEF g
  <2>7. Cardinality(ChunksOf(f, S)) =
          Cardinality(ChunksOf(f, S \ {d})) + Cardinality(g(d)) - Cardinality({})
    BY <2>1, <2>2, <2>3, <2>6, FS_Union
  <2> QED
    BY <2>4, <2>5, <2>6, <2>7, FS_EmptySet
<1> QED
  BY <1>2, <1>3, FS_CardinalityType

\* The documents of S have as many as before when none of their counts changes.
LEMMA CountStays ==
  ASSUME NEW f, NEW g, NEW S, \A d \in S : f[d] = g[d]
  PROVE  ChunksOf(f, S) = ChunksOf(g, S)
BY DEF ChunksOf

\* A document without chunks adds none.
LEMMA CountNone ==
  ASSUME NEW f, NEW S, NEW d, f[d] = 0
  PROVE  ChunksOf(f, S \cup {d}) = ChunksOf(f, S)
BY DEF ChunksOf

-----------------------------------------------------------------------------
(* The invariant.                                                            *)

\* A transaction of the API, or a job, is about the document.
Editing(e, d) == edit[e] # Nothing /\ edit[e].doc = d
Indexing(i, d) == indexing[i] # Nothing /\ indexing[i].doc = d

\* A document has the chunks of one indexing at most, none if it is empty, and counts all of
\* them or none; one that does not exist has nothing.
DocFits(d) ==
  /\ \A x, y \in chunks[d] : x = y
  /\ Length[d] = 0 => chunks[d] = {} /\ \A i \in Indexers : Indexing(i, d) => ~ At(i, "writing")
  /\ counted[d] \in {0, Length[d]}
  /\ docStatus[d] = "absent" =>
       /\ counted[d] = 0 /\ chunks[d] = {}
       /\ \A e \in Edits : ~ Editing(e, d)
       /\ \A i \in Indexers : ~ Indexing(i, d)

\* While no two writers of a document overlapped it has one at most, which has seen what it
\* is about to delete; a deleted document has neither writers nor chunks, and one that is
\* READY is indexed.
Undisturbed(d) ==
  d \notin overlaps =>
    /\ \A i, j \in Indexers : Indexing(i, d) /\ Indexing(j, d) => i = j
    /\ \A e, f \in Edits : Editing(e, d) /\ Editing(f, d) => e = f
    /\ \A i \in Indexers, e \in Edits : ~ (Indexing(i, d) /\ Editing(e, d))
    /\ d \in deleted =>
         /\ chunks[d] = {}
         /\ \A i \in Indexers : ~ Indexing(i, d)
         /\ \A e \in Edits : ~ Editing(e, d)
    /\ d \notin deleted /\ docStatus[d] = "READY" =>
         counted[d] = Length[d] /\ (Length[d] # 0 => chunks[d] # {})
    /\ \A e \in Edits : Editing(e, d) => edit[e].took = chunks[d]
    /\ \A i \in Indexers : Indexing(i, d) /\ At(i, "writing") => indexing[i].took = chunks[d]

\* The documents of the base are counted right until writers of one overlap.
DocsCounted == overlaps = {} => baseDocs = Cardinality(Live)

\* While no two transactions overlapped and no sum was over no document, one writes at most,
\* of a document it has seen as it is, and the sum it has taken still holds.
OneWrites ==
  /\ \A i, j \in Indexers : At(i, "writing") /\ At(j, "writing") => i = j
  /\ \A e, f \in Edits : edit[e] # Nothing /\ edit[f] # Nothing => e = f
  /\ \A i \in Indexers, e \in Edits : ~ (At(i, "writing") /\ edit[e] # Nothing)
WritersSee ==
  /\ \A e \in Edits : \A d \in Documents : Editing(e, d) => d \in Live /\ edit[e].took = chunks[d]
  /\ \A i \in Indexers : \A d \in Documents : Indexing(i, d) /\ At(i, "writing") =>
       indexing[i].took = chunks[d] /\ Live # {} /\ indexing[i].sum = SumWith(d)
ChunksCounted ==
  ~ miscounted =>
    /\ OneWrites
    /\ WritersSee
    /\ \A d \in Live : counted[d] = IF chunks[d] = {} THEN 0 ELSE Length[d]
    /\ baseChunks = CountOf(Live)

DocsFit == \A d \in Documents : DocFits(d)
DocsUndisturbed == \A d \in Documents : Undisturbed(d)
KnowledgeInv == KnowledgeTypeOK /\ DocsFit /\ DocsUndisturbed /\ DocsCounted /\ ChunksCounted

-----------------------------------------------------------------------------
(* Types.                                                                    *)

\* Chunks, their sum and the sum a job takes are natural numbers.
LEMMA SumTyped ==
  ASSUME KnowledgeTypeOK, NEW d \in Documents
  PROVE  CountOf(Live) \in Nat /\ SumWith(d) \in Nat
<1>1. \A S \in SUBSET Documents : CountOf(S) \in Nat
  BY CountAdds DEF CountOf, Numbered, ChunksOf, KnowledgeTypeOK
<1>2. Live \subseteq Documents /\ Length[d] \in Nat
  BY KnowledgeAssumption DEF Live, KnowledgeAssumption
<1>3. CountOf(Live) \in Nat /\ CountOf(Live \ {d}) \in Nat
  BY <1>1, <1>2
<1> QED
  BY <1>2, <1>3 DEF SumWith

\* At most one chunk set and one run: what is removed is a number of chunks.
LEMMA RemovedTyped ==
  ASSUME KnowledgeTypeOK, NEW e \in Edits, edit[e] # Nothing,
         \A x, y \in chunks[edit[e].doc] : x = y
  PROVE  /\ Removed(e) \in Nat
         /\ Removed(e) = IF edit[e].took \cap chunks[edit[e].doc] = {} THEN 0
                         ELSE Length[edit[e].doc]
<1> DEFINE d == edit[e].doc
           T == edit[e].took \cap chunks[d]
<1>1. Length[d] \in Nat
  BY KnowledgeAssumption DEF KnowledgeAssumption, KnowledgeTypeOK, KnowledgeEdit
<1>2. CASE T = {}
  BY <1>1, <1>2, FS_EmptySet DEF Removed
<1>3. CASE T # {}
  <2>1. PICK x : T = {x}
    BY <1>3
  <2>2. Cardinality(T) = 1
    BY <2>1, FS_Singleton
  <2> HIDE DEF T
  <2> QED
    BY <1>1, <1>3, <2>2 DEF Removed, T
<1> QED
  BY <1>2, <1>3

\* The variables keep their types.
LEMMA KnowledgeTypeNext ==
  ASSUME KnowledgeTypeOK, [KnowledgeNext]_knowledgeVars,
         \A d \in Documents : DocFits(d)
  PROVE  KnowledgeTypeOK'
<1> USE DEF KnowledgeTypeOK
<1>1. CASE UNCHANGED knowledgeVars
  BY <1>1 DEF knowledgeVars, docRows, baseRow, jobVars, causes
<1>2. ASSUME NEW d \in Documents, AddDocument(d) PROVE KnowledgeTypeOK'
  BY <1>2, KnowledgeAssumption DEF AddDocument, KnowledgeAssumption, DocStatus, causes
<1>3. ASSUME NEW d \in Documents, EnqueueIndex(d) PROVE KnowledgeTypeOK'
  BY <1>3, KnowledgeAssumption DEF EnqueueIndex, KnowledgeAssumption, docRows, baseRow,
     IndexTrouble, Drop
<1>4. ASSUME NEW e \in Edits, CommitReprocess(e) PROVE KnowledgeTypeOK'
  <2>1. edit[e] \in KnowledgeEdit /\ edit[e].doc \in Documents
    BY <1>4 DEF CommitReprocess, KnowledgeEdit
  <2>2. baseChunks' \in Int
    BY <1>4, <2>1, RemovedTyped DEF CommitReprocess, DocFits
  <2> QED
    BY <1>4, <2>1, <2>2 DEF CommitReprocess, DocStatus, causes
<1>5. ASSUME NEW e \in Edits, CommitDelete(e) PROVE KnowledgeTypeOK'
  <2>1. edit[e] \in KnowledgeEdit /\ edit[e].doc \in Documents
    BY <1>5 DEF CommitDelete, KnowledgeEdit
  <2>3. docStatus[edit[e].doc] # "absent"
    BY <1>5, <2>1 DEF CommitDelete, DocFits, Editing
  <2>2. baseChunks' \in Int
    BY <1>5, <2>1, RemovedTyped DEF CommitDelete, DocFits
  <2> QED
    BY <1>5, <2>1, <2>2, <2>3 DEF CommitDelete, jobVars, causes
<1>6. ASSUME NEW e \in Edits, NEW d \in Documents, BeginEdit(e, d) PROVE KnowledgeTypeOK'
  <2>1. \A op \in {"reprocess", "delete"} :
          [op |-> op, doc |-> d, took |-> chunks[d]] \in KnowledgeEdit
    BY DEF KnowledgeEdit
  <2> QED
    BY <1>6, <2>1, KnowledgeAssumption
    DEF BeginEdit, KnowledgeAssumption, docRows, baseRow, jobVars, Joins
<1>7. ASSUME NEW i \in Indexers, NEW d \in Documents, Load(i, d) PROVE KnowledgeTypeOK'
  <2>1. [doc |-> d, step |-> "loaded", run |-> runs, took |-> {}, sum |-> 0] \in IndexJob
    BY DEF IndexJob
  <2>2. /\ docStatus' \in [Documents -> DocStatus] /\ queued' \in [Documents -> Nat]
        /\ \A x \in Documents : docStatus[x] # "absent" => docStatus'[x] # "absent"
    BY <1>7 DEF Load, DocStatus
  <2>3. indexing' \in [Indexers -> IndexJob \cup {Nothing}] /\ runs' \in Nat
    <3>1. \/ indexing' = indexing /\ runs' = runs
          \/ \E w \in IndexJob : indexing' = [indexing EXCEPT ![i] = w] /\ runs' = runs + 1
      BY <1>7, <2>1 DEF Load
    <3> QED
      BY <2>1, <3>1
  <2>4. overlaps' \cup lost' \subseteq Documents /\ indexFaults' \in 0..MaxIndexFaults
    BY <1>7, KnowledgeAssumption DEF Load, KnowledgeAssumption, Joins, Drop, IndexTrouble
  <2> QED
    BY <1>7, <2>2, <2>3, <2>4 DEF Load, baseRow
<1>8. ASSUME NEW i \in Indexers, Refuse(i) \/ Refused(i) \/ RollBack(i) PROVE KnowledgeTypeOK'
  <2>1. indexing[i] \in IndexJob
    BY <1>8 DEF Refuse, Refused, RollBack, At
  <2>2. [indexing[i] EXCEPT !.step = "failing"] \in IndexJob
    BY <2>1 DEF IndexJob
  <2> QED
    BY <1>8, <2>2, KnowledgeAssumption
    DEF Refuse, Refused, RollBack, Goes, KnowledgeAssumption, docRows, baseRow, jobVars, causes,
        IndexTrouble
<1>9. ASSUME NEW i \in Indexers, ReadyEmpty(i) \/ CommitWrite(i) PROVE KnowledgeTypeOK'
  <2>1. indexing[i] \in IndexJob
    BY <1>9 DEF ReadyEmpty, CommitWrite, At
  <2> QED
    BY <1>9, <2>1, KnowledgeAssumption
    DEF ReadyEmpty, CommitWrite, KnowledgeAssumption, IndexJob, DocStatus, baseRow, jobVars,
        causes
<1>10. ASSUME NEW i \in Indexers, BeginWrite(i) PROVE KnowledgeTypeOK'
  <2>1. indexing[i] \in IndexJob
    BY <1>10 DEF BeginWrite, At
  <2>2. SumWith(indexing[i].doc) \in Nat
    BY <2>1, SumTyped DEF IndexJob
  <2>3. [indexing[i] EXCEPT !.step = "writing", !.took = chunks[indexing[i].doc],
                            !.sum = SumWith(indexing[i].doc)] \in IndexJob
    BY <2>1, <2>2 DEF IndexJob
  <2> QED
    BY <1>10, <2>3 DEF BeginWrite, docRows, baseRow, jobVars
<1>11. ASSUME NEW i \in Indexers, Fail(i) \/ IndexCrash(i) PROVE KnowledgeTypeOK'
  <2>1. indexing[i] \in IndexJob
    BY <1>11 DEF Fail, IndexCrash, At
  <2> QED
    BY <1>11, <2>1, KnowledgeAssumption
    DEF Fail, IndexCrash, KnowledgeAssumption, docRows, baseRow, jobVars, causes, IndexJob,
        IndexTrouble, Drop, DocStatus
<1> QED
  BY <1>1, <1>2, <1>3, <1>4, <1>5, <1>6, <1>7, <1>8, <1>9, <1>10, <1>11
  DEF KnowledgeNext, Commit, IndexStep

-----------------------------------------------------------------------------
(* Jobs and transactions.                                                    *)

\* A job or a transaction after a step: it is the one before, or begins.
LEMMA WritersNext ==
  ASSUME KnowledgeTypeOK, KnowledgeNext, NEW d \in Documents
  PROVE  /\ \A i \in Indexers : Indexing(i, d)' =>
              \/ Indexing(i, d) /\ (At(i, "writing")' => At(i, "writing") \/ BeginWrite(i))
              \/ Load(i, d) /\ indexing[i] = Nothing /\ ~ At(i, "writing")' /\ d \in Live
         /\ \A e \in Edits : Editing(e, d)' =>
              \/ Editing(e, d) /\ edit'[e] = edit[e]
              \/ BeginEdit(e, d) /\ edit[e] = Nothing /\ edit'[e].took = chunks[d] /\ d \in Live
<1> USE DEF KnowledgeTypeOK, Indexing, Editing
<1>1. CASE \E x \in Documents : AddDocument(x) \/ EnqueueIndex(x)
  BY <1>1 DEF AddDocument, EnqueueIndex, At
<1>2. CASE \E e \in Edits : Commit(e)
  BY <1>2 DEF Commit, CommitReprocess, CommitDelete, At
<1>3. ASSUME NEW e \in Edits, NEW x \in Documents, BeginEdit(e, x)
      PROVE  /\ \A i \in Indexers : Indexing(i, d)' =>
                   Indexing(i, d) /\ (At(i, "writing")' => At(i, "writing"))
             /\ \A f \in Edits : Editing(f, d)' =>
                  \/ Editing(f, d) /\ edit'[f] = edit[f]
                  \/ /\ BeginEdit(f, d) /\ edit[f] = Nothing /\ edit'[f].took = chunks[d]
                     /\ d \in Live
  <2>1. UNCHANGED indexing
    BY <1>3 DEF BeginEdit
  <2>2. \A f \in Edits \ {e} : edit'[f] = edit[f]
    BY <1>3 DEF BeginEdit
  <2>3. edit'[e].doc = x /\ edit'[e].took = chunks[x] /\ edit[e] = Nothing /\ x \in Live
    BY <1>3 DEF BeginEdit
  <2> QED
    BY <1>3, <2>1, <2>2, <2>3 DEF At
<1>4. ASSUME NEW i \in Indexers, NEW x \in Documents, Load(i, x)
      PROVE  /\ UNCHANGED edit
             /\ \A j \in Indexers : Indexing(j, d)' =>
                  \/ Indexing(j, d) /\ (At(j, "writing")' => At(j, "writing"))
                  \/ Load(j, d) /\ indexing[j] = Nothing /\ ~ At(j, "writing")' /\ d \in Live
  <2>1. UNCHANGED edit /\ indexing[i] = Nothing
    BY <1>4 DEF Load
  <2>2. CASE UNCHANGED indexing
    BY <2>1, <2>2 DEF At
  <2>3. CASE x \in Live /\ indexing' = [indexing EXCEPT ![i] =
               [doc |-> x, step |-> "loaded", run |-> runs, took |-> {}, sum |-> 0]]
    BY <1>4, <2>1, <2>3 DEF At
  <2> QED
    BY <1>4, <2>1, <2>2, <2>3 DEF Load
<1>5. ASSUME NEW i \in Indexers,
             Refuse(i) \/ Refused(i) \/ RollBack(i) \/ ReadyEmpty(i) \/ CommitWrite(i) \/ Fail(i)
               \/ IndexCrash(i)
      PROVE  /\ UNCHANGED edit
             /\ \A j \in Indexers : Indexing(j, d)' =>
                  Indexing(j, d) /\ (At(j, "writing")' => At(j, "writing"))
  <2>1. UNCHANGED edit /\ indexing[i] \in IndexJob /\ indexing[i] # Nothing
    BY <1>5 DEF Refuse, Refused, RollBack, ReadyEmpty, CommitWrite, Fail, IndexCrash, At
  <2>2. \/ indexing' = [indexing EXCEPT ![i] = Nothing]
        \/ indexing' = [indexing EXCEPT ![i] = [indexing[i] EXCEPT !.step = "failing"]]
    BY <1>5 DEF Refuse, Refused, RollBack, ReadyEmpty, CommitWrite, Fail, IndexCrash, Goes
  <2> QED
    BY <2>1, <2>2 DEF At, IndexJob
<1>6. ASSUME NEW i \in Indexers, BeginWrite(i)
      PROVE  /\ UNCHANGED edit
             /\ \A j \in Indexers : Indexing(j, d)' =>
                  Indexing(j, d) /\ (At(j, "writing")' => At(j, "writing") \/ j = i)
  <2>1. UNCHANGED edit /\ indexing[i] \in IndexJob /\ indexing[i] # Nothing
    BY <1>6 DEF BeginWrite, At
  <2> QED
    BY <1>6, <2>1 DEF BeginWrite, At, IndexJob
<1> QED
  BY <1>1, <1>2, <1>3, <1>4, <1>5, <1>6 DEF KnowledgeNext, IndexStep

\* The rows stay, but for the status of some document that exists: what the index holds is
\* as it was.
Quiet ==
  /\ UNCHANGED <<deleted, counted, chunks, baseRow>>
  /\ Live' = Live
  /\ \A d \in Documents :
       /\ docStatus'[d] = "absent" <=> docStatus[d] = "absent"
       /\ \/ docStatus'[d] = docStatus[d] \/ docStatus'[d] \in {"PROCESSING", "FAILED"}
          \/ docStatus'[d] = "READY" /\ Length[d] = 0

\* Statuses of documents there are leave the others alone.
LEMMA QuietStatus ==
  ASSUME KnowledgeTypeOK, UNCHANGED <<deleted, counted, chunks, baseRow>>,
         NEW d \in Documents, docStatus[d] # "absent",
         NEW s \in {"PROCESSING", "FAILED", "READY"}, s = "READY" => Length[d] = 0,
         docStatus' = [docStatus EXCEPT ![d] = s]
  PROVE  Quiet
<1>1. \A x \in Documents : docStatus'[x] = IF x = d THEN s ELSE docStatus[x]
  BY DEF KnowledgeTypeOK
<1>2. Live' = Live
  BY <1>1 DEF Live
<1> QED
  BY <1>1, <1>2 DEF Quiet

\* Which rows a step changes.
LEMMA RowsNext ==
  ASSUME KnowledgeTypeOK, DocsFit, [KnowledgeNext]_knowledgeVars
  PROVE  \/ Quiet
         \/ \E d \in Documents : AddDocument(d)
         \/ \E e \in Edits : CommitReprocess(e) \/ CommitDelete(e)
         \/ \E i \in Indexers : CommitWrite(i)
<1>1. ASSUME UNCHANGED <<docRows, baseRow>> PROVE Quiet
  BY <1>1 DEF Quiet, docRows, baseRow, Live
<1>2. ASSUME NEW i \in Indexers, NEW d \in Documents, Load(i, d) PROVE Quiet
  <2>1. CASE docStatus' = docStatus
    BY <1>1, <1>2, <2>1 DEF Load, docRows, baseRow
  <2>2. CASE d \in Live /\ docStatus' = [docStatus EXCEPT ![d] = "PROCESSING"]
    BY <1>2, <2>2, QuietStatus DEF Load, Live
  <2> QED
    BY <1>2, <2>1, <2>2 DEF Load
<1>3. ASSUME NEW i \in Indexers, Fail(i) \/ ReadyEmpty(i) PROVE Quiet
  <2> DEFINE d == indexing[i].doc
  <2>1. d \in Documents /\ Indexing(i, d)
    BY <1>3 DEF Fail, ReadyEmpty, At, Indexing, KnowledgeTypeOK, IndexJob
  <2>2. docStatus[d] # "absent" /\ counted[d] \in {0, Length[d]}
    BY <2>1 DEF DocsFit, DocFits
  <2>3. UNCHANGED <<deleted, counted, chunks, baseRow>>
    BY <1>3, <2>2 DEF Fail, ReadyEmpty, KnowledgeTypeOK
  <2>4. CASE docStatus' = docStatus
    BY <1>1, <2>3, <2>4 DEF docRows
  <2>5. CASE Fail(i) /\ docStatus' = [docStatus EXCEPT ![d] = "FAILED"]
    BY <2>1, <2>2, <2>3, <2>5, QuietStatus
  <2>6. CASE ReadyEmpty(i)
    BY <2>1, <2>2, <2>3, <2>6, QuietStatus DEF ReadyEmpty
  <2> QED
    BY <1>3, <2>4, <2>5, <2>6 DEF Fail
<1>4. CASE UNCHANGED knowledgeVars \/ \E d \in Documents : EnqueueIndex(d)
             \/ \E e \in Edits : BeginEdit(e, d)
  BY <1>1, <1>4 DEF knowledgeVars, EnqueueIndex, BeginEdit
<1>5. CASE \E i \in Indexers :
             Refuse(i) \/ BeginWrite(i) \/ Refused(i) \/ RollBack(i) \/ IndexCrash(i)
  BY <1>1, <1>5 DEF Refuse, BeginWrite, Refused, RollBack, IndexCrash
<1> QED
  BY <1>2, <1>3, <1>4, <1>5 DEF KnowledgeNext, IndexStep, Commit

\* A job that begins is alone, or the document is one whose writers overlapped.
LEMMA JobBegins ==
  ASSUME KnowledgeTypeOK, NEW i \in Indexers, NEW d \in Documents, Load(i, d), Indexing(i, d)'
  PROVE  /\ indexing[i] = Nothing /\ d \in Live
         /\ \A j \in Indexers \ {i} : indexing'[j] = indexing[j]
         /\ UNCHANGED edit
         /\ overlaps \subseteq overlaps'
         /\ d \notin overlaps' => /\ \A j \in Indexers : ~ Indexing(j, d)
                                 /\ \A e \in Edits : ~ Editing(e, d)
         /\ ~ At(i, "writing")'
<1>1. indexing[i] = Nothing /\ UNCHANGED edit /\ indexing' # indexing
  BY DEF Load, Indexing
<1>2. d \in Live /\ Joins(d) /\ indexing' = [indexing EXCEPT ![i] =
               [doc |-> d, step |-> "loaded", run |-> runs, took |-> {}, sum |-> 0]]
  BY <1>1 DEF Load
<1> QED
  BY <1>1, <1>2 DEF Joins, Writers, Indexing, Editing, KnowledgeTypeOK, At

\* So is a transaction of the API.
LEMMA EditBegins ==
  ASSUME KnowledgeTypeOK, NEW e \in Edits, NEW d \in Documents, BeginEdit(e, d)
  PROVE  /\ edit[e] = Nothing /\ d \in Live
         /\ \A f \in Edits \ {e} : edit'[f] = edit[f]
         /\ edit'[e].doc = d /\ edit'[e].took = chunks[d]
         /\ UNCHANGED indexing
         /\ overlaps \subseteq overlaps'
         /\ d \notin overlaps' => /\ \A i \in Indexers : ~ Indexing(i, d)
                                 /\ \A f \in Edits : ~ Editing(f, d)
         /\ ~ miscounted' => /\ ~ miscounted
                             /\ \A f \in Edits : edit[f] = Nothing
                             /\ \A i \in Indexers : ~ At(i, "writing")
<1>1. PICK op : edit' = [edit EXCEPT ![e] = [op |-> op, doc |-> d, took |-> chunks[d]]]
  BY DEF BeginEdit
<1>2. edit[e] = Nothing /\ d \in Live /\ UNCHANGED indexing
  BY DEF BeginEdit
<1>3. /\ overlaps \subseteq overlaps'
      /\ d \notin overlaps' => Writers(d) = {}
  BY DEF BeginEdit, Joins
<1>4. ~ miscounted' => ~ miscounted /\ Writing = {}
  BY DEF BeginEdit, KnowledgeTypeOK
<1> QED
  BY <1>1, <1>2, <1>3, <1>4 DEF Writers, Writing, Indexing, Editing, KnowledgeTypeOK, At

-----------------------------------------------------------------------------
(* Documents.                                                                *)

\* A job that writes has a document with text.
LEMMA WritesText ==
  ASSUME KnowledgeTypeOK, DocsFit, NEW i \in Indexers, At(i, "writing")
  PROVE  /\ indexing[i].doc \in Documents
         /\ Indexing(i, indexing[i].doc)
         /\ Length[indexing[i].doc] # 0
<1>1. indexing[i].doc \in Documents
  BY DEF At, KnowledgeTypeOK, IndexJob
<1> QED
  BY <1>1 DEF DocsFit, DocFits, Indexing, At

\* What a step does to the chunks and the count of a document.
LEMMA ChunksNext ==
  ASSUME KnowledgeTypeOK, DocsFit, [KnowledgeNext]_knowledgeVars, NEW d \in Documents
  PROVE  \/ chunks'[d] = chunks[d] /\ counted'[d] = counted[d]
         \/ \E e \in Edits :
              /\ CommitReprocess(e) /\ Editing(e, d)
              /\ chunks'[d] = chunks[d] \ edit[e].took /\ counted'[d] = 0
              /\ docStatus'[d] = "QUEUED"
         \/ \E e \in Edits :
              /\ CommitDelete(e) /\ Editing(e, d)
              /\ chunks'[d] = chunks[d] \ edit[e].took /\ counted'[d] = counted[d]
              /\ d \in deleted'
         \/ \E i \in Indexers :
              /\ CommitWrite(i) /\ Indexing(i, d) /\ At(i, "writing")
              /\ chunks'[d] = {indexing[i].run} /\ counted'[d] = Length[d]
              /\ docStatus'[d] = "READY" /\ Length[d] # 0
<1> USE DEF KnowledgeTypeOK
<1>1. CASE Quiet
  BY <1>1 DEF Quiet
<1>2. CASE \E x \in Documents : AddDocument(x)
  BY <1>2 DEF AddDocument
<1>3. ASSUME NEW e \in Edits, CommitReprocess(e)
      PROVE  \/ chunks'[d] = chunks[d] /\ counted'[d] = counted[d]
             \/ /\ CommitReprocess(e) /\ Editing(e, d)
                /\ chunks'[d] = chunks[d] \ edit[e].took /\ counted'[d] = 0
                /\ docStatus'[d] = "QUEUED"
  BY <1>3 DEF CommitReprocess, Editing
<1>4. ASSUME NEW e \in Edits, CommitDelete(e)
      PROVE  \/ chunks'[d] = chunks[d] /\ counted'[d] = counted[d]
             \/ /\ CommitDelete(e) /\ Editing(e, d)
                /\ chunks'[d] = chunks[d] \ edit[e].took /\ counted'[d] = counted[d]
                /\ d \in deleted'
  BY <1>4 DEF CommitDelete, Editing
<1>5. ASSUME NEW i \in Indexers, CommitWrite(i)
      PROVE  \/ chunks'[d] = chunks[d] /\ counted'[d] = counted[d]
             \/ /\ CommitWrite(i) /\ Indexing(i, d) /\ At(i, "writing")
                /\ chunks'[d] = {indexing[i].run} /\ counted'[d] = Length[d]
                /\ docStatus'[d] = "READY" /\ Length[d] # 0
  <2>1. At(i, "writing") /\ chunks[indexing[i].doc] \subseteq indexing[i].took
    BY <1>5 DEF CommitWrite, Collides
  <2> QED
    BY <1>5, <2>1, WritesText DEF CommitWrite, Indexing
<1> QED
  BY <1>1, <1>2, <1>3, <1>4, <1>5, RowsNext

\* What becomes of statuses and deletions.
LEMMA StatusNext ==
  ASSUME KnowledgeTypeOK, DocsFit, [KnowledgeNext]_knowledgeVars, NEW d \in Documents
  PROVE  /\ docStatus'[d] = "absent" => docStatus[d] = "absent"
         /\ d \in deleted => d \in deleted'
         /\ d \in deleted' => d \in deleted \/ \E e \in Edits : CommitDelete(e) /\ Editing(e, d)
         /\ docStatus'[d] = "READY" =>
              \/ docStatus[d] = "READY" \/ Length[d] = 0
              \/ \E i \in Indexers : CommitWrite(i) /\ Indexing(i, d)
<1> USE DEF KnowledgeTypeOK
<1>1. CASE Quiet
  BY <1>1 DEF Quiet
<1>2. CASE \E x \in Documents : AddDocument(x)
  BY <1>2 DEF AddDocument
<1>3. CASE \E e \in Edits : CommitReprocess(e)
  BY <1>3 DEF CommitReprocess
<1>4. CASE \E e \in Edits : CommitDelete(e)
  BY <1>4 DEF CommitDelete, Editing
<1>5. CASE \E i \in Indexers : CommitWrite(i)
  BY <1>5 DEF CommitWrite, Indexing, At
<1> QED
  BY <1>1, <1>2, <1>3, <1>4, <1>5, RowsNext

\* Every step keeps documents fit.
LEMMA DocsFitNext ==
  ASSUME KnowledgeTypeOK, DocsFit, [KnowledgeNext]_knowledgeVars
  PROVE  DocsFit'
<1> SUFFICES ASSUME NEW d \in Documents PROVE DocFits(d)'
  BY DEF DocsFit
<1>1. DocFits(d)
  BY DEF DocsFit
<1>2. \A x, y \in chunks'[d] : x = y
  BY <1>1, ChunksNext DEF DocFits
<1>3. counted'[d] \in {0, Length[d]}
  BY <1>1, ChunksNext DEF DocFits
<1>4. CASE UNCHANGED knowledgeVars
  BY <1>1, <1>4 DEF DocFits, knowledgeVars, docRows, Indexing, Editing, At
<1>5. CASE KnowledgeNext
  <2>1. Length[d] = 0 => chunks'[d] = {}
    BY <1>1, ChunksNext DEF DocFits
  <2>2. ASSUME Length[d] = 0, NEW i \in Indexers, Indexing(i, d)' PROVE ~ At(i, "writing")'
    <3>1. BeginWrite(i) => ~ Indexing(i, d)
      BY <2>2 DEF BeginWrite, Indexing
    <3> QED
      BY <1>1, <1>5, <2>2, <3>1, WritersNext DEF DocFits
  <2>3. ASSUME docStatus'[d] = "absent"
        PROVE  /\ counted'[d] = 0 /\ chunks'[d] = {}
               /\ \A e \in Edits : ~ Editing(e, d)'
               /\ \A i \in Indexers : ~ Indexing(i, d)'
    <3>1. docStatus[d] = "absent" /\ d \notin Live
      BY <2>3, StatusNext DEF Live
    <3>2. (\A e \in Edits : ~ Editing(e, d)') /\ (\A i \in Indexers : ~ Indexing(i, d)')
      BY <1>1, <1>5, <3>1, WritersNext DEF DocFits
    <3> QED
      BY <1>1, <3>1, <3>2, ChunksNext DEF DocFits
  <2> QED
    BY <1>2, <1>3, <2>1, <2>2, <2>3 DEF DocFits
<1> QED
  BY <1>4, <1>5

\* A job that goes on writing is as it was.
LEMMA WritingStays ==
  ASSUME KnowledgeTypeOK, KnowledgeNext, NEW i \in Indexers,
         At(i, "writing"), At(i, "writing")', ~ BeginWrite(i)
  PROVE  indexing'[i] = indexing[i]
<1> USE DEF KnowledgeTypeOK
<1>1. ASSUME NEW j \in Indexers, NEW d \in Documents, Load(j, d) PROVE indexing'[i] = indexing[i]
  BY <1>1 DEF Load, At
<1>2. ASSUME NEW j \in Indexers, Refuse(j) \/ Refused(j) \/ RollBack(j)
      PROVE  indexing'[i] = indexing[i]
  <2>1. indexing[j] \in IndexJob
    BY <1>2 DEF Refuse, Refused, RollBack, At
  <2> QED
    BY <1>2, <2>1 DEF Refuse, Refused, RollBack, Goes, At, IndexJob
<1>3. ASSUME NEW j \in Indexers,
             ReadyEmpty(j) \/ BeginWrite(j) \/ CommitWrite(j) \/ Fail(j) \/ IndexCrash(j)
      PROVE  indexing'[i] = indexing[i]
  BY <1>3 DEF ReadyEmpty, BeginWrite, CommitWrite, Fail, IndexCrash, At
<1>4. CASE (\E d \in Documents : AddDocument(d) \/ EnqueueIndex(d))
           \/ \E e \in Edits : Commit(e) \/ \E d \in Documents : BeginEdit(e, d)
  BY <1>4 DEF AddDocument, EnqueueIndex, Commit, CommitReprocess, CommitDelete, BeginEdit
<1> QED
  BY <1>1, <1>2, <1>3, <1>4 DEF KnowledgeNext, IndexStep

\* What a job writes of its document.
LEMMA WritesChunks ==
  ASSUME KnowledgeTypeOK, DocsFit, NEW i \in Indexers, NEW d \in Documents,
         CommitWrite(i), Indexing(i, d)
  PROVE  /\ chunks'[d] = {indexing[i].run} /\ counted'[d] = Length[d]
         /\ docStatus'[d] = "READY" /\ Length[d] # 0
<1>1. At(i, "writing") /\ chunks[d] \subseteq indexing[i].took
  BY DEF CommitWrite, Collides, Indexing
<1> QED
  BY <1>1, WritesText DEF CommitWrite, Indexing, KnowledgeTypeOK

\* Every step keeps documents undisturbed whose writers have not overlapped.
LEMMA DocsUndisturbedNext ==
  ASSUME KnowledgeTypeOK, DocsFit, DocsUndisturbed, KnowledgeNext
  PROVE  DocsUndisturbed'
<1> SUFFICES ASSUME NEW d \in Documents, d \notin overlaps' PROVE Undisturbed(d)'
  BY DEF DocsUndisturbed, Undisturbed
<1>1. d \notin overlaps
  BY DEF KnowledgeNext, AddDocument, EnqueueIndex, Commit, CommitReprocess, CommitDelete, BeginEdit,
     IndexStep, Load, Refuse, ReadyEmpty, BeginWrite, CommitWrite, Refused, Fail, RollBack,
     IndexCrash, Joins, causes
<1>2. DocFits(d) /\ Undisturbed(d)
  BY DEF DocsFit, DocsUndisturbed
<1>3. \A i \in Indexers : Load(i, d) /\ Indexing(i, d)' =>
        /\ \A j \in Indexers \ {i} : ~ Indexing(j, d)'
        /\ \A e \in Edits : ~ Editing(e, d)'
  BY JobBegins DEF Indexing, Editing
<1>4. \A e \in Edits : BeginEdit(e, d) =>
        /\ \A f \in Edits \ {e} : ~ Editing(f, d)'
        /\ \A i \in Indexers : ~ Indexing(i, d)'
  BY EditBegins DEF Indexing, Editing
<1>5. \A i, j \in Indexers : Indexing(i, d)' /\ Indexing(j, d)' => i = j
  BY <1>1, <1>2, <1>3, WritersNext DEF Undisturbed
<1>6. \A e, f \in Edits : Editing(e, d)' /\ Editing(f, d)' => e = f
  BY <1>1, <1>2, <1>4, WritersNext DEF Undisturbed
<1>7. \A i \in Indexers, e \in Edits : ~ (Indexing(i, d)' /\ Editing(e, d)')
  BY <1>1, <1>2, <1>3, <1>4, WritersNext DEF Undisturbed
\* Who writes is gone then, and was alone.
<1>8. ASSUME NEW e \in Edits, Commit(e), Editing(e, d)
      PROVE  /\ \A i \in Indexers : ~ Indexing(i, d)'
             /\ \A f \in Edits : ~ Editing(f, d)'
             /\ chunks[d] \ edit[e].took = {}
  <2>1. /\ UNCHANGED indexing /\ edit'[e] = Nothing
        /\ \A f \in Edits \ {e} : edit'[f] = edit[f]
    BY <1>8 DEF Commit, CommitReprocess, CommitDelete, KnowledgeTypeOK
  <2>2. /\ \A i \in Indexers : ~ Indexing(i, d)
        /\ \A f \in Edits \ {e} : ~ Editing(f, d)
        /\ edit[e].took = chunks[d]
    BY <1>1, <1>2, <1>8 DEF Undisturbed
  <2> QED
    BY <2>1, <2>2 DEF Indexing, Editing
<1>9. ASSUME NEW i \in Indexers, CommitWrite(i), Indexing(i, d)
      PROVE  /\ \A j \in Indexers : ~ Indexing(j, d)'
             /\ \A e \in Edits : ~ Editing(e, d)'
             /\ d \notin deleted'
  <2>1. /\ UNCHANGED <<edit, deleted>> /\ indexing'[i] = Nothing
        /\ \A j \in Indexers \ {i} : indexing'[j] = indexing[j]
    BY <1>9 DEF CommitWrite, KnowledgeTypeOK
  <2>2. /\ \A j \in Indexers \ {i} : ~ Indexing(j, d)
        /\ \A e \in Edits : ~ Editing(e, d)
        /\ d \notin deleted
    BY <1>1, <1>2, <1>9 DEF Undisturbed
  <2> QED
    BY <2>1, <2>2 DEF Indexing, Editing
<1>10. CASE chunks'[d] = chunks[d] /\ counted'[d] = counted[d]
            /\ ~ \E e \in Edits : Commit(e) /\ Editing(e, d)
  <2>1. ASSUME d \in deleted'
        PROVE  /\ chunks'[d] = {}
               /\ \A i \in Indexers : ~ Indexing(i, d)'
               /\ \A e \in Edits : ~ Editing(e, d)'
    <3>1. d \in deleted /\ d \notin Live
      BY <1>10, <2>1, StatusNext DEF Commit, Live
    <3> QED
      BY <1>1, <1>2, <1>10, <3>1, WritersNext DEF Undisturbed
  <2>2. ASSUME d \notin deleted', docStatus'[d] = "READY"
        PROVE  counted'[d] = Length[d] /\ (Length[d] # 0 => chunks'[d] # {})
    <3>1. d \notin deleted
      BY <2>2, StatusNext
    <3>2. CASE docStatus[d] = "READY"
      BY <1>1, <1>2, <1>10, <2>2, <3>1, <3>2 DEF Undisturbed
    <3>3. CASE Length[d] = 0
      BY <1>2, <1>10, <3>3 DEF DocFits
    <3>4. CASE \E i \in Indexers : CommitWrite(i) /\ Indexing(i, d)
      BY <3>4, WritesChunks
    <3> QED
      BY <2>2, <3>2, <3>3, <3>4, StatusNext
  <2>3. ASSUME NEW e \in Edits, Editing(e, d)' PROVE edit'[e].took = chunks'[d]
    BY <1>1, <1>2, <1>10, <2>3, WritersNext DEF Undisturbed
  <2>4. ASSUME NEW i \in Indexers, Indexing(i, d)', At(i, "writing")'
        PROVE  indexing'[i].took = chunks'[d]
    <3>1. CASE BeginWrite(i)
      BY <1>10, <2>4, <3>1 DEF BeginWrite, Indexing, KnowledgeTypeOK, IndexJob, At
    <3>2. CASE Indexing(i, d) /\ At(i, "writing") /\ ~ BeginWrite(i)
      <4>1. indexing'[i] = indexing[i]
        BY <2>4, <3>2, WritingStays
      <4> QED
        BY <1>1, <1>2, <1>10, <3>2, <4>1 DEF Undisturbed
    <3> QED
      BY <2>4, <3>1, <3>2, WritersNext
  <2> QED
    BY <1>5, <1>6, <1>7, <2>1, <2>2, <2>3, <2>4 DEF Undisturbed
<1>11. CASE \E e \in Edits : Commit(e) /\ Editing(e, d)
  <2>1. PICK e \in Edits : Commit(e) /\ Editing(e, d)
    BY <1>11
  <2>2. docStatus'[d] # "READY" \/ d \in deleted'
    BY <2>1 DEF Commit, CommitReprocess, CommitDelete, Editing, KnowledgeTypeOK
  <2>3. chunks'[d] = {}
    BY <1>8, <2>1 DEF Commit, CommitReprocess, CommitDelete, Editing, KnowledgeTypeOK
  <2> QED
    BY <1>8, <2>1, <2>2, <2>3 DEF Undisturbed
<1>12. CASE \E i \in Indexers : CommitWrite(i) /\ Indexing(i, d)
  BY <1>9, <1>12, WritesChunks DEF Undisturbed
<1> QED
  BY <1>10, <1>11, <1>12, ChunksNext DEF Commit
-----------------------------------------------------------------------------
(* The counts of the base.                                                   *)

\* What a step does to the documents that are live and to the base's counts of them.
LEMMA LiveNext ==
  ASSUME KnowledgeTypeOK, DocsFit, [KnowledgeNext]_knowledgeVars
  PROVE  \/ Quiet
         \/ \E d \in Documents :
              /\ AddDocument(d)
              /\ d \notin Live /\ Live' = Live \cup {d} /\ docStatus[d] = "absent"
              /\ UNCHANGED <<counted, chunks, baseChunks>> /\ baseDocs' = baseDocs + 1
         \/ \E e \in Edits, d \in Documents :
              /\ CommitReprocess(e) /\ Editing(e, d)
              /\ Live' = Live
              /\ chunks' = [chunks EXCEPT ![d] = @ \ edit[e].took]
              /\ counted' = [counted EXCEPT ![d] = 0]
              /\ baseChunks' = baseChunks - Removed(e) /\ baseDocs' = baseDocs
         \/ \E e \in Edits, d \in Documents :
              /\ CommitDelete(e) /\ Editing(e, d)
              /\ Live' = Live \ {d} /\ counted' = counted
              /\ chunks' = [chunks EXCEPT ![d] = @ \ edit[e].took]
              /\ baseChunks' = baseChunks - Removed(e) /\ baseDocs' = baseDocs - 1
         \/ \E i \in Indexers, d \in Documents :
              /\ CommitWrite(i) /\ Indexing(i, d) /\ At(i, "writing")
              /\ Live' = Live
              /\ chunks' = [chunks EXCEPT ![d] = {indexing[i].run}]
              /\ counted' = [counted EXCEPT ![d] = Length[d]]
              /\ baseChunks' = indexing[i].sum /\ baseDocs' = baseDocs
<1> USE DEF KnowledgeTypeOK
<1>1. ASSUME NEW d \in Documents, AddDocument(d)
      PROVE  /\ d \notin Live /\ Live' = Live \cup {d} /\ docStatus[d] = "absent"
             /\ UNCHANGED <<counted, chunks, baseChunks>> /\ baseDocs' = baseDocs + 1
  <2>1. docStatus[d] = "absent" /\ d \notin deleted /\ deleted' = deleted
    BY <1>1 DEF AddDocument
  <2>2. \A x \in Documents : docStatus'[x] = IF x = d THEN "QUEUED" ELSE docStatus[x]
    BY <1>1 DEF AddDocument
  <2> QED
    BY <1>1, <2>1, <2>2 DEF AddDocument, Live
<1>2. ASSUME NEW e \in Edits, CommitReprocess(e)
      PROVE  \E d \in Documents :
               /\ Editing(e, d) /\ Live' = Live
               /\ chunks' = [chunks EXCEPT ![d] = @ \ edit[e].took]
               /\ counted' = [counted EXCEPT ![d] = 0]
               /\ baseChunks' = baseChunks - Removed(e) /\ baseDocs' = baseDocs
  <2> DEFINE d == edit[e].doc
  <2>1. d \in Documents /\ Editing(e, d)
    BY <1>2 DEF CommitReprocess, Editing, KnowledgeEdit
  <2>2. docStatus[d] # "absent" /\ deleted' = deleted
    BY <1>2, <2>1 DEF CommitReprocess, DocsFit, DocFits
  <2>3. \A x \in Documents : docStatus'[x] = IF x = d THEN "QUEUED" ELSE docStatus[x]
    BY <1>2 DEF CommitReprocess
  <2>4. Live' = Live
    BY <2>2, <2>3 DEF Live
  <2> QED
    BY <1>2, <2>1, <2>4 DEF CommitReprocess
<1>3. ASSUME NEW e \in Edits, CommitDelete(e)
      PROVE  \E d \in Documents :
               /\ Editing(e, d) /\ Live' = Live \ {d} /\ counted' = counted
               /\ chunks' = [chunks EXCEPT ![d] = @ \ edit[e].took]
               /\ baseChunks' = baseChunks - Removed(e) /\ baseDocs' = baseDocs - 1
  <2> DEFINE d == edit[e].doc
  <2>1. d \in Documents /\ Editing(e, d)
    BY <1>3 DEF CommitDelete, Editing, KnowledgeEdit
  <2>2. Live' = Live \ {d}
    BY <1>3 DEF CommitDelete, Live
  <2> QED
    BY <1>3, <2>1, <2>2 DEF CommitDelete
<1>4. ASSUME NEW i \in Indexers, CommitWrite(i)
      PROVE  \E d \in Documents :
               /\ Indexing(i, d) /\ At(i, "writing") /\ Live' = Live
               /\ chunks' = [chunks EXCEPT ![d] = {indexing[i].run}]
               /\ counted' = [counted EXCEPT ![d] = Length[d]]
               /\ baseChunks' = indexing[i].sum /\ baseDocs' = baseDocs
  <2> DEFINE d == indexing[i].doc
  <2>1. At(i, "writing") /\ chunks[d] \subseteq indexing[i].took
    BY <1>4 DEF CommitWrite, Collides
  <2>2. d \in Documents /\ Indexing(i, d) /\ docStatus[d] # "absent"
    BY <2>1, WritesText DEF DocsFit, DocFits
  <2>3. \A x \in Documents : docStatus'[x] = IF x = d THEN "READY" ELSE docStatus[x]
    BY <1>4 DEF CommitWrite
  <2>4. Live' = Live
    BY <1>4, <2>2, <2>3 DEF CommitWrite, Live
  <2> QED
    BY <1>4, <2>1, <2>2, <2>4 DEF CommitWrite
<1>5. \/ Quiet
      \/ \E d \in Documents : AddDocument(d)
      \/ \E e \in Edits : CommitReprocess(e) \/ CommitDelete(e)
      \/ \E i \in Indexers : CommitWrite(i)
  BY RowsNext
<1> QED
  BY <1>1, <1>2, <1>3, <1>4, <1>5

\* Every step keeps the documents counted right while no two writers of one overlapped.
LEMMA DocsCountedNext ==
  ASSUME KnowledgeTypeOK, DocsFit, DocsUndisturbed, DocsCounted, [KnowledgeNext]_knowledgeVars
  PROVE  DocsCounted'
<1> SUFFICES ASSUME overlaps' = {} PROVE baseDocs' = Cardinality(Live')
  BY DEF DocsCounted
<1>1. overlaps = {}
  BY DEF KnowledgeNext, AddDocument, EnqueueIndex, Commit, CommitReprocess, CommitDelete, BeginEdit,
     IndexStep, Load, Refuse, ReadyEmpty, BeginWrite, CommitWrite, Refused, Fail, RollBack,
     IndexCrash, Joins, causes, knowledgeVars
<1>2. baseDocs = Cardinality(Live)
  BY <1>1 DEF DocsCounted
<1>3. IsFiniteSet(Live) /\ Cardinality(Live) \in Nat
  BY KnowledgeAssumption, FS_Subset, FS_CardinalityType DEF KnowledgeAssumption, Live
<1>4. CASE Quiet
  BY <1>2, <1>4 DEF Quiet, baseRow
<1>5. ASSUME NEW d \in Documents, d \notin Live, Live' = Live \cup {d}, baseDocs' = baseDocs + 1
      PROVE  baseDocs' = Cardinality(Live')
  <2>1. Cardinality(Live \cup {d}) = Cardinality(Live) + 1
    BY <1>3, <1>5, FS_AddElement
  <2> QED
    BY <1>2, <1>5, <2>1
<1>6. ASSUME NEW e \in Edits, NEW d \in Documents, Editing(e, d), Live' = Live \ {d},
             baseDocs' = baseDocs - 1
      PROVE  baseDocs' = Cardinality(Live')
  <2>1. d \in Live
    BY <1>1, <1>6 DEF DocsFit, DocFits, DocsUndisturbed, Undisturbed, Live
  <2>2. Cardinality(Live \ {d}) = Cardinality(Live) - 1
    BY <1>3, <2>1, FS_RemoveElement
  <2> QED
    BY <1>2, <1>6, <2>2
<1>7. CASE Live' = Live /\ baseDocs' = baseDocs
  BY <1>2, <1>7
<1> QED
  BY <1>4, <1>5, <1>6, <1>7, LiveNext

\* A job that begins to write is the only one that does, and takes the sum over what is there.
LEMMA WriteBegins ==
  ASSUME KnowledgeTypeOK, NEW i \in Indexers, BeginWrite(i), ~ miscounted'
  PROVE  /\ \A e \in Edits : edit[e] = Nothing
         /\ \A j \in Indexers : ~ At(j, "writing")
         /\ UNCHANGED edit /\ \A j \in Indexers \ {i} : indexing'[j] = indexing[j]
         /\ \A d \in Documents : Indexing(i, d)' =>
              /\ indexing'[i].took = chunks[d] /\ Live # {}
              /\ indexing'[i].sum = SumWith(d)
<1>1. Writing = {} /\ Live # {} /\ UNCHANGED edit
  BY DEF BeginWrite, KnowledgeTypeOK
<1>2. indexing[i] \in IndexJob
  BY DEF BeginWrite, At, KnowledgeTypeOK
<1>3. /\ indexing'[i] = [indexing[i] EXCEPT !.step = "writing",
                           !.took = chunks[indexing[i].doc], !.sum = SumWith(indexing[i].doc)]
      /\ \A j \in Indexers \ {i} : indexing'[j] = indexing[j]
  BY DEF BeginWrite, KnowledgeTypeOK
<1>4. /\ indexing'[i].doc = indexing[i].doc
      /\ indexing'[i].took = chunks[indexing[i].doc]
      /\ indexing'[i].sum = SumWith(indexing[i].doc)
  BY <1>2, <1>3 DEF IndexJob
<1> QED
  BY <1>1, <1>3, <1>4 DEF Writing, At, Indexing

\* Nobody writes, and the only writer is gone once it committed.
NoneWrites ==
  /\ \A i \in Indexers : ~ At(i, "writing")
  /\ \A e \in Edits : edit[e] = Nothing
LEMMA CommitsAlone ==
  ASSUME KnowledgeTypeOK, OneWrites,
         (\E e \in Edits : Commit(e)) \/ \E i \in Indexers : CommitWrite(i)
  PROVE  NoneWrites'
<1>1. ASSUME NEW e \in Edits, Commit(e) PROVE NoneWrites'
  <2>1. /\ edit[e] # Nothing /\ edit'[e] = Nothing /\ UNCHANGED indexing
        /\ \A f \in Edits \ {e} : edit'[f] = edit[f]
    BY <1>1 DEF Commit, CommitReprocess, CommitDelete, KnowledgeTypeOK
  <2> QED
    BY <2>1 DEF OneWrites, NoneWrites, At
<1>2. ASSUME NEW i \in Indexers, CommitWrite(i) PROVE NoneWrites'
  <2>1. /\ At(i, "writing") /\ indexing'[i] = Nothing /\ UNCHANGED edit
        /\ \A j \in Indexers \ {i} : indexing'[j] = indexing[j]
    BY <1>2 DEF CommitWrite, KnowledgeTypeOK
  <2> QED
    BY <2>1 DEF OneWrites, NoneWrites, At
<1> QED
  BY <1>1, <1>2

\* Two transactions that overlap are remembered.
LEMMA MiscountedStays ==
  ASSUME KnowledgeTypeOK, [KnowledgeNext]_knowledgeVars, ~ miscounted'
  PROVE  ~ miscounted
BY DEF KnowledgeTypeOK, KnowledgeNext, AddDocument, EnqueueIndex, Commit, CommitReprocess,
   CommitDelete, BeginEdit, IndexStep, Load, Refuse, ReadyEmpty, BeginWrite, CommitWrite, Refused,
   Fail, RollBack, IndexCrash, causes, knowledgeVars

\* A job that writes after a step wrote before it, or begins to.
LEMMA WritingNext ==
  ASSUME KnowledgeTypeOK, KnowledgeNext, NEW i \in Indexers, At(i, "writing")'
  PROVE  At(i, "writing") \/ BeginWrite(i)
<1>1. ASSUME UNCHANGED indexing PROVE At(i, "writing")
  BY <1>1 DEF At
<1>2. ASSUME NEW j \in Indexers, NEW x \in Documents, Load(j, x) PROVE At(i, "writing")
  <2>1. CASE indexing' = [indexing EXCEPT ![j] =
               [doc |-> x, step |-> "loaded", run |-> runs, took |-> {}, sum |-> 0]]
    BY <2>1 DEF At, KnowledgeTypeOK
  <2> QED
    BY <1>1, <1>2, <2>1 DEF Load
<1>3. ASSUME NEW j \in Indexers,
             Refuse(j) \/ Refused(j) \/ RollBack(j) \/ ReadyEmpty(j) \/ CommitWrite(j) \/ Fail(j)
               \/ IndexCrash(j)
      PROVE  At(i, "writing")
  <2>1. indexing[j] \in IndexJob /\ indexing[j] # Nothing
    BY <1>3 DEF Refuse, Refused, RollBack, ReadyEmpty, CommitWrite, Fail, IndexCrash, At,
       KnowledgeTypeOK
  <2>2. \/ indexing' = [indexing EXCEPT ![j] = Nothing]
        \/ indexing' = [indexing EXCEPT ![j] = [indexing[j] EXCEPT !.step = "failing"]]
    BY <1>3 DEF Refuse, Refused, RollBack, ReadyEmpty, CommitWrite, Fail, IndexCrash, Goes
  <2> QED
    BY <2>1, <2>2 DEF At, IndexJob, KnowledgeTypeOK
<1>4. ASSUME NEW j \in Indexers, BeginWrite(j) PROVE At(i, "writing") \/ BeginWrite(i)
  BY <1>4 DEF BeginWrite, At, KnowledgeTypeOK
<1>5. CASE (\E x \in Documents : AddDocument(x) \/ EnqueueIndex(x))
           \/ \E e \in Edits : Commit(e) \/ \E x \in Documents : BeginEdit(e, x)
  BY <1>1, <1>5 DEF AddDocument, EnqueueIndex, Commit, CommitReprocess, CommitDelete, BeginEdit
<1> QED
  BY <1>2, <1>3, <1>4, <1>5 DEF KnowledgeNext, IndexStep

\* A transaction after a step is the one before it, or begins.
LEMMA EditsNext ==
  ASSUME KnowledgeTypeOK, KnowledgeNext, NEW e \in Edits, edit'[e] # Nothing
  PROVE  edit[e] # Nothing \/ \E d \in Documents : BeginEdit(e, d)
<1>1. CASE \E f \in Edits : Commit(f)
  BY <1>1 DEF Commit, CommitReprocess, CommitDelete, KnowledgeTypeOK
<1>2. CASE \E f \in Edits, d \in Documents : BeginEdit(f, d)
  BY <1>2 DEF BeginEdit, KnowledgeTypeOK
<1>3. CASE (\E d \in Documents : AddDocument(d) \/ EnqueueIndex(d))
           \/ \E i \in Indexers : IndexStep(i) \/ RollBack(i) \/ IndexCrash(i)
  BY <1>3 DEF AddDocument, EnqueueIndex, IndexStep, Load, Refuse, ReadyEmpty, BeginWrite,
     CommitWrite, Refused, Fail, RollBack, IndexCrash
<1> QED
  BY <1>1, <1>2, <1>3 DEF KnowledgeNext

\* One transaction writes at most while none overlapped.
LEMMA OneWritesNext ==
  ASSUME KnowledgeTypeOK, OneWrites, KnowledgeNext, ~ miscounted'
  PROVE  OneWrites'
<1>1. ASSUME NEW i \in Indexers, BeginWrite(i) PROVE OneWrites'
  <2>1. \A j \in Indexers : At(j, "writing")' => j = i
    BY <1>1, WriteBegins DEF At
  <2>2. \A e \in Edits : edit'[e] = Nothing
    BY <1>1, WriteBegins
  <2> QED
    BY <2>1, <2>2 DEF OneWrites
<1>2. ASSUME NEW e \in Edits, NEW d \in Documents, BeginEdit(e, d) PROVE OneWrites'
  <2>1. \A f \in Edits : edit'[f] # Nothing => f = e
    BY <1>2, EditBegins
  <2>2. \A i \in Indexers : ~ At(i, "writing")'
    BY <1>2, EditBegins DEF At
  <2> QED
    BY <2>1, <2>2 DEF OneWrites
<1>3. CASE /\ ~ \E i \in Indexers : BeginWrite(i)
           /\ ~ \E e \in Edits, d \in Documents : BeginEdit(e, d)
  <2>1. \A i \in Indexers : At(i, "writing")' => At(i, "writing")
    BY <1>3, WritingNext
  <2>2. \A e \in Edits : edit'[e] # Nothing => edit[e] # Nothing
    BY <1>3, EditsNext
  <2> QED
    BY <2>1, <2>2 DEF OneWrites
<1> QED
  BY <1>1, <1>2, <1>3

\* What a sum is over: it stays when a document without chunks is added.
LEMMA SumStays ==
  ASSUME KnowledgeTypeOK, DocsFit, NEW d \in Documents, docStatus[d] # "absent",
         \/ Quiet
         \/ \E x \in Documents :
              /\ x \notin Live /\ Live' = Live \cup {x} /\ docStatus[x] = "absent"
              /\ UNCHANGED <<counted, chunks, baseChunks>>
  PROVE  Live # {} => Live' # {} /\ SumWith(d)' = SumWith(d)
<1>1. CASE Quiet
  <2>1. Live' = Live /\ counted' = counted
    BY <1>1 DEF Quiet
  <2> QED
    BY <2>1 DEF SumWith, CountOf, Numbered
<1>2. ASSUME NEW x \in Documents, x \notin Live, Live' = Live \cup {x}, docStatus[x] = "absent",
             counted' = counted, Live # {}
      PROVE  Live' # {} /\ SumWith(d)' = SumWith(d)
  <2>1. counted[x] = 0 /\ x # d
    BY <1>2 DEF DocsFit, DocFits
  <2>2. Live' \ {d} = (Live \ {d}) \cup {x}
    BY <1>2, <2>1
  <2>3. ChunksOf(counted, Live' \ {d}) = ChunksOf(counted, Live \ {d})
    BY <2>1, <2>2, CountNone
  <2>4. CountOf(Live \ {d})' = CountOf(Live \ {d})
    BY <1>2, <2>3 DEF CountOf, Numbered, ChunksOf
  <2>5. Live' # {} /\ (d \in Live' <=> d \in Live)
    BY <1>2, <2>1
  <2> QED
    BY <1>2, <2>4, <2>5 DEF SumWith
<1> QED
  BY <1>1, <1>2

\* Each writer has seen its document as it is, and the sum it took holds.
LEMMA WritersSeeNext ==
  ASSUME KnowledgeTypeOK, DocsFit, OneWrites, WritersSee, KnowledgeNext, ~ miscounted'
  PROVE  WritersSee'
<1>1. CASE NoneWrites'
  BY <1>1 DEF NoneWrites, WritersSee, Editing
<1>2. ASSUME ~ NoneWrites'
      PROVE  \/ Quiet
             \/ \E d \in Documents :
                  /\ d \notin Live /\ Live' = Live \cup {d} /\ docStatus[d] = "absent"
                  /\ UNCHANGED <<counted, chunks, baseChunks>>
  BY <1>2, CommitsAlone, LiveNext DEF Commit
<1>3. ASSUME ~ NoneWrites' PROVE chunks' = chunks /\ Live \subseteq Live'
  BY <1>2, <1>3 DEF Quiet
<1>4. ASSUME ~ NoneWrites', NEW e \in Edits, NEW d \in Documents, Editing(e, d)'
      PROVE  d \in Live' /\ edit'[e].took = chunks'[d]
  <2>1. CASE Editing(e, d) /\ edit'[e] = edit[e]
    BY <1>3, <1>4, <2>1 DEF WritersSee
  <2>2. CASE edit'[e].took = chunks[d] /\ d \in Live
    BY <1>3, <1>4, <2>2
  <2> QED
    BY <1>4, <2>1, <2>2, WritersNext
<1>5. ASSUME ~ NoneWrites', NEW i \in Indexers, NEW d \in Documents, Indexing(i, d)',
             At(i, "writing")'
      PROVE  indexing'[i].took = chunks'[d] /\ Live' # {} /\ indexing'[i].sum = SumWith(d)'
  <2>1. indexing'[i].took = chunks[d] /\ Live # {} /\ indexing'[i].sum = SumWith(d)
    <3>1. CASE BeginWrite(i)
      BY <1>5, <3>1, WriteBegins
    <3>2. CASE ~ BeginWrite(i)
      <4>1. Indexing(i, d) /\ At(i, "writing") /\ indexing'[i] = indexing[i]
        BY <1>5, <3>2, WritingNext, WritingStays DEF Indexing
      <4> QED
        BY <4>1 DEF WritersSee
    <3> QED
      BY <3>1, <3>2
  <2>2. Indexing(i, d) \/ d \in Live
    BY <1>5, WritersNext
  <2>3. docStatus[d] # "absent"
    BY <2>2 DEF DocsFit, DocFits, Live
  <2>4. Live' # {} /\ SumWith(d)' = SumWith(d)
    BY <1>2, <1>5, <2>1, <2>3, SumStays
  <2> QED
    BY <1>3, <1>5, <2>1, <2>4
<1> QED
  BY <1>1, <1>4, <1>5 DEF WritersSee

\* Every step keeps the chunks counted right while no two transactions overlapped.
LEMMA ChunksCountedNext ==
  ASSUME KnowledgeTypeOK, DocsFit, ChunksCounted, KnowledgeNext
  PROVE  ChunksCounted'
<1> SUFFICES ASSUME ~ miscounted'
             PROVE  /\ OneWrites' /\ WritersSee'
                    /\ \A d \in Live' : counted'[d] = IF chunks'[d] = {} THEN 0 ELSE Length[d]
                    /\ baseChunks' = CountOf(Live)'
  BY DEF ChunksCounted
<1>1. /\ OneWrites /\ WritersSee
      /\ \A d \in Live : counted[d] = IF chunks[d] = {} THEN 0 ELSE Length[d]
      /\ baseChunks = CountOf(Live)
  BY MiscountedStays DEF ChunksCounted
<1>2. OneWrites' /\ WritersSee'
  BY <1>1, OneWritesNext, WritersSeeNext
<1>3. CountOf(Live) = Cardinality(ChunksOf(counted, Live))
      /\ CountOf(Live)' = Cardinality(ChunksOf(counted', Live'))
  BY DEF CountOf, Numbered, ChunksOf
<1>4. Live \subseteq Documents /\ counted \in [Documents -> Nat] /\ counted' \in [Documents -> Nat]
  BY KnowledgeTypeNext DEF KnowledgeTypeOK, DocsFit, Live
<1>5. ASSUME Quiet
      PROVE  /\ \A x \in Live' : counted'[x] = IF chunks'[x] = {} THEN 0 ELSE Length[x]
             /\ baseChunks' = CountOf(Live)'
  <2>1. UNCHANGED <<counted, chunks, baseChunks>> /\ Live' = Live
    BY <1>5 DEF Quiet, baseRow
  <2> QED
    BY <1>1, <1>3, <2>1
<1>6. ASSUME NEW d \in Documents, d \notin Live, Live' = Live \cup {d}, docStatus[d] = "absent",
             UNCHANGED <<counted, chunks, baseChunks>>
      PROVE  /\ \A x \in Live' : counted'[x] = IF chunks'[x] = {} THEN 0 ELSE Length[x]
             /\ baseChunks' = CountOf(Live)'
  <2>1. counted[d] = 0 /\ chunks[d] = {}
    BY <1>6 DEF DocsFit, DocFits
  <2>2. ChunksOf(counted, Live \cup {d}) = ChunksOf(counted, Live)
    BY <2>1, CountNone
  <2> QED
    BY <1>1, <1>3, <1>6, <2>1, <2>2
\* A transaction removes what its document counted.
<1>7. ASSUME NEW e \in Edits, NEW d \in Documents, Editing(e, d)
      PROVE  /\ d \in Live /\ edit[e].took = chunks[d]
             /\ Cardinality(ChunksOf(counted, Live \ {d})) = CountOf(Live) - Removed(e)
  <2>1. d \in Live /\ edit[e].took = chunks[d]
    BY <1>1, <1>7 DEF WritersSee
  <2>2. Removed(e) = counted[d]
    BY <1>1, <1>7, <2>1, RemovedTyped DEF Editing, DocsFit, DocFits
  <2>3. /\ CountOf(Live) = Cardinality(ChunksOf(counted, Live \ {d})) + counted[d]
        /\ Cardinality(ChunksOf(counted, Live \ {d})) \in Nat
    BY <1>3, <1>4, <2>1, CountAdds
  <2> QED
    BY <1>4, <2>1, <2>2, <2>3
<1>8. ASSUME NEW e \in Edits, NEW d \in Documents, Editing(e, d), Live' = Live,
             chunks' = [chunks EXCEPT ![d] = @ \ edit[e].took],
             counted' = [counted EXCEPT ![d] = 0], baseChunks' = baseChunks - Removed(e)
      PROVE  /\ \A x \in Live' : counted'[x] = IF chunks'[x] = {} THEN 0 ELSE Length[x]
             /\ baseChunks' = CountOf(Live)'
  <2>1. chunks'[d] = {} /\ counted'[d] = 0
    BY <1>7, <1>8 DEF KnowledgeTypeOK
  <2>2. \A x \in Live \ {d} : counted'[x] = counted[x] /\ chunks'[x] = chunks[x]
    BY <1>8 DEF KnowledgeTypeOK, Live
  <2>3. ChunksOf(counted', Live \ {d}) = ChunksOf(counted, Live \ {d})
    BY <2>2, CountStays
  <2>4. CountOf(Live)' = Cardinality(ChunksOf(counted', Live \ {d})) + 0
    BY <1>3, <1>4, <1>7, <1>8, <2>1, CountAdds
  <2>5. Cardinality(ChunksOf(counted, Live \ {d})) \in Nat
    BY <1>4, CountAdds
  <2> QED
    BY <1>1, <1>7, <1>8, <2>1, <2>2, <2>3, <2>4, <2>5
<1>9. ASSUME NEW e \in Edits, NEW d \in Documents, Editing(e, d), Live' = Live \ {d},
             chunks' = [chunks EXCEPT ![d] = @ \ edit[e].took],
             counted' = counted, baseChunks' = baseChunks - Removed(e)
      PROVE  /\ \A x \in Live' : counted'[x] = IF chunks'[x] = {} THEN 0 ELSE Length[x]
             /\ baseChunks' = CountOf(Live)'
  <2>1. \A x \in Live \ {d} : chunks'[x] = chunks[x]
    BY <1>9 DEF KnowledgeTypeOK, Live
  <2> QED
    BY <1>1, <1>3, <1>7, <1>9, <2>1
<1>10. ASSUME NEW i \in Indexers, NEW d \in Documents, Indexing(i, d), At(i, "writing"),
              Live' = Live, chunks' = [chunks EXCEPT ![d] = {indexing[i].run}],
              counted' = [counted EXCEPT ![d] = Length[d]], baseChunks' = indexing[i].sum
      PROVE  /\ \A x \in Live' : counted'[x] = IF chunks'[x] = {} THEN 0 ELSE Length[x]
             /\ baseChunks' = CountOf(Live)'
  <2>1. chunks'[d] = {indexing[i].run} /\ counted'[d] = Length[d]
    BY <1>10 DEF KnowledgeTypeOK
  <2>2. \A x \in Live \ {d} : counted'[x] = counted[x] /\ chunks'[x] = chunks[x]
    BY <1>10 DEF KnowledgeTypeOK, Live
  <2>3. ChunksOf(counted', Live \ {d}) = ChunksOf(counted, Live \ {d})
    BY <2>2, CountStays
  <2>4. indexing[i].sum = Cardinality(ChunksOf(counted, Live \ {d})) +
                            IF d \in Live THEN Length[d] ELSE 0
    BY <1>1, <1>10 DEF WritersSee, SumWith, CountOf, Numbered, ChunksOf
  <2>5. CountOf(Live)' = Cardinality(ChunksOf(counted', Live)) /\ baseChunks' = indexing[i].sum
    BY <1>3, <1>10
  <2>6. ASSUME d \in Live PROVE baseChunks' = CountOf(Live)'
    <3>1. Cardinality(ChunksOf(counted', Live)) =
            Cardinality(ChunksOf(counted', Live \ {d})) + counted'[d]
      BY <1>4, <2>6, CountAdds
    <3>2. indexing[i].sum = Cardinality(ChunksOf(counted, Live \ {d})) + Length[d]
      BY <2>4, <2>6
    <3> QED
      BY <2>1, <2>3, <2>5, <3>1, <3>2
  <2>7. ASSUME d \notin Live PROVE baseChunks' = CountOf(Live)'
    <3>1. Live \ {d} = Live /\ Cardinality(ChunksOf(counted, Live)) \in Nat
      BY <1>4, <2>7, CountAdds
    <3>2. indexing[i].sum = Cardinality(ChunksOf(counted, Live \ {d})) + 0
      BY <2>4, <2>7
    <3> QED
      BY <2>3, <2>5, <3>1, <3>2
  <2>8. \A x \in Live : counted'[x] = IF chunks'[x] = {} THEN 0 ELSE Length[x]
    BY <1>1, <2>1, <2>2
  <2> QED
    BY <1>10, <2>6, <2>7, <2>8
<1> QED
  BY <1>2, <1>5, <1>6, <1>8, <1>9, <1>10, LiveNext

-----------------------------------------------------------------------------
(* The theorems.                                                             *)

\* An empty base satisfies the invariant.
LEMMA KnowledgeInvInit ==
  KnowledgeInit => KnowledgeInv
<1> SUFFICES ASSUME KnowledgeInit PROVE KnowledgeInv
  OBVIOUS
<1>1. KnowledgeTypeOK
  <2>1. /\ docStatus \in [Documents -> DocStatus] /\ counted \in [Documents -> Nat]
        /\ chunks \in [Documents -> SUBSET Nat]
        /\ owed \in [Documents -> Nat] /\ queued \in [Documents -> Nat]
    BY DEF KnowledgeInit, DocStatus
  <2>2. edit \in [Edits -> KnowledgeEdit \cup {Nothing}]
    BY DEF KnowledgeInit
  <2>3. indexing \in [Indexers -> IndexJob \cup {Nothing}]
    BY DEF KnowledgeInit
  <2>4. edits \in 0..MaxEdits /\ indexFaults \in 0..MaxIndexFaults
    BY KnowledgeAssumption DEF KnowledgeInit, KnowledgeAssumption
  <2>5. keyed \in BOOLEAN /\ miscounted \in BOOLEAN
    BY DEF KnowledgeInit
  <2>6. /\ deleted \subseteq {d \in Documents : docStatus[d] # "absent"}
        /\ overlaps \cup lost \subseteq Documents
        /\ baseChunks \in Int /\ baseDocs \in Int /\ runs \in Nat
    BY DEF KnowledgeInit
  <2> QED
    BY <2>1, <2>2, <2>3, <2>4, <2>5, <2>6 DEF KnowledgeTypeOK
<1>2. Live = {} /\ CountOf(Live) = 0 /\ Cardinality(Live) = 0
  BY FS_EmptySet DEF KnowledgeInit, Live, CountOf, Numbered
<1>3. DocsFit /\ DocsUndisturbed
  BY DEF KnowledgeInit, DocsFit, DocFits, DocsUndisturbed, Undisturbed, Indexing, Editing
<1>4. DocsCounted /\ ChunksCounted
  BY <1>2 DEF KnowledgeInit, DocsCounted, ChunksCounted, OneWrites, WritersSee, Indexing, Editing,
     At
<1> QED
  BY <1>1, <1>3, <1>4 DEF KnowledgeInv

\* The invariant holds of every reachable state.
LEMMA KnowledgeInvAlways ==
  KnowledgeSpec => []KnowledgeInv
<1>1. KnowledgeInv /\ [KnowledgeNext]_knowledgeVars => KnowledgeInv'
  <2> SUFFICES ASSUME KnowledgeInv, [KnowledgeNext]_knowledgeVars PROVE KnowledgeInv'
    OBVIOUS
  <2>1. KnowledgeTypeOK' /\ DocsFit' /\ DocsCounted'
    BY KnowledgeTypeNext, DocsFitNext, DocsCountedNext DEF KnowledgeInv, DocsFit
  <2>2. CASE KnowledgeNext
    BY <2>1, <2>2, DocsUndisturbedNext, ChunksCountedNext DEF KnowledgeInv
  <2>3. CASE UNCHANGED knowledgeVars
    BY <2>1, <2>3 DEF KnowledgeInv, DocsUndisturbed, Undisturbed, ChunksCounted, OneWrites,
       WritersSee, SumWith, CountOf, Numbered, Live, Indexing, Editing, At, knowledgeVars, docRows,
       baseRow, jobVars, causes
  <2> QED
    BY <2>2, <2>3
<1> QED
  BY <1>1, KnowledgeInvInit, PTL DEF KnowledgeSpec

\* Rows, jobs and transactions of a knowledge base keep their types.
THEOREM KnowledgeTypeCorrect ==
  KnowledgeSpec => []KnowledgeTypeOK
<1>1. KnowledgeInv => KnowledgeTypeOK
  BY DEF KnowledgeInv
<1> QED
  BY <1>1, KnowledgeInvAlways, PTL

\* What search() finds is what was stored, and both counts of the base are right, unless
\* writers overlapped (knowledge.controller.ts and the embeddings worker).
THEOREM IndexesAreSound ==
  KnowledgeSpec => []IndexSound
<1>1. KnowledgeInv => IndexSound
  <2> SUFFICES ASSUME KnowledgeInv PROVE IndexSound
    OBVIOUS
  <2>1. ASSUME NEW d \in Documents \ overlaps
        PROVE  /\ docStatus[d] = "READY" /\ d \in Live =>
                    /\ counted[d] = Length[d]
                    /\ Cardinality(chunks[d]) = (IF Length[d] = 0 THEN 0 ELSE 1)
               /\ d \in deleted => chunks[d] = {}
    <3>1. DocFits(d) /\ Undisturbed(d)
      BY DEF KnowledgeInv, DocsFit, DocsUndisturbed
    <3>2. chunks[d] = {} \/ \E x : chunks[d] = {x}
      BY <3>1 DEF DocFits
    <3>3. chunks[d] # {} => Cardinality(chunks[d]) = 1
      BY <3>2, FS_Singleton
    <3>4. chunks[d] = {} => Cardinality(chunks[d]) = 0
      BY FS_EmptySet
    <3> QED
      BY <3>1, <3>3, <3>4 DEF DocFits, Undisturbed, Live
  <2>2. SearchedAsStored
    BY <2>1 DEF SearchedAsStored
  <2>3. CountsStayHonest
    BY DEF KnowledgeInv, DocsCounted, ChunksCounted, CountsStayHonest
  <2> QED
    BY <2>2, <2>3 DEF IndexSound
<1> QED
  BY <1>1, KnowledgeInvAlways, PTL
=============================================================================
