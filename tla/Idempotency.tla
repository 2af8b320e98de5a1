----------------------------- MODULE Idempotency -----------------------------
(***************************************************************************)
(* The Idempotency-Key interceptor                                         *)
(* (apps/api/src/common/interceptors/idempotency.interceptor.ts): requests *)
(* of one organization with one key to one route, which is one possible    *)
(* row of idempotency_key.                                                 *)
(***************************************************************************)
EXTENDS Naturals, FiniteSets

CONSTANTS
  Requests,   \* the requests that carry the key
  Bodies,     \* the request bodies
  RowSecurity, \* whether row-level security binds the connection's role
  HasBody,    \* whether the route's handler returns a body
  Faults,     \* the kinds of fault that happen
  MaxFaults   \* bound: how many faults happen in one behaviour

FaultKinds == {"crash", "store", "release"}

ASSUME IdempotencyAssumption ==
  /\ RowSecurity \in BOOLEAN
  /\ HasBody \in BOOLEAN
  /\ Faults \subseteq FaultKinds
  /\ MaxFaults \in Nat

VARIABLES
  row,      \* {} or {[hash, stored]}: the row, and whether it holds a replayable response
  pc,       \* [Requests -> Step]: where run() is
  body,     \* [Requests -> Bodies]: what the request carries
  answer,   \* [Requests -> Answer]: what the client was told
  ran,      \* history: <<request, body>> of every operation that took effect
  claims,   \* history: the requests that ever held the key
  faults    \* history: faults so far

keyVars == <<row, pc, body, answer, ran, claims, faults>>

Step == {"new", "claiming", "executing", "storing", "releasing", "over"}
Answer == {"none", "ok", "replayed", "reused", "busy", "error"}

KeyTypeOK ==
  /\ row \in SUBSET [hash : Bodies, stored : BOOLEAN]
  /\ Cardinality(row) <= 1
  /\ pc \in [Requests -> Step]
  /\ body \in [Requests -> Bodies]
  /\ answer \in [Requests -> Answer]
  /\ \A r \in Requests : pc[r] # "over" => answer[r] = "none"
  /\ ran \subseteq Requests \X Bodies
  /\ claims \subseteq Requests
  /\ faults \in 0..MaxFaults

KeyInit ==
  /\ row = {}
  /\ pc = [r \in Requests |-> "new"]
  /\ body \in [Requests -> Bodies]
  /\ answer = [r \in Requests |-> "none"]
  /\ ran = {}
  /\ claims = {}
  /\ faults = 0

Fault(kind) ==
  /\ kind \in Faults
  /\ faults < MaxFaults
  /\ faults' = faults + 1

Goto(r, step) == pc' = [pc EXCEPT ![r] = step] /\ UNCHANGED answer

Reply(r, what) ==
  /\ pc' = [pc EXCEPT ![r] = "over"]
  /\ answer' = [answer EXCEPT ![r] = what]

\* The interceptor's statements run outside withTenantTransaction, so nothing sets
\* app.organization_id for them: to a role that row-level security binds there is no row.
VisibleRow == IF RowSecurity THEN {} ELSE row

\* Seeded fault: the stored response is replayed whatever the request's body.
LookUpAnyBody(r) ==
  /\ pc[r] = "new"
  /\ \/ VisibleRow = {} /\ Goto(r, "claiming")
     \/ \E k \in VisibleRow : Reply(r, IF k.stored THEN "replayed" ELSE "busy")
  /\ UNCHANGED <<row, body, ran, claims, faults>>

\* findFirst and what follows from its answer.
LookUp(r) ==
  /\ pc[r] = "new"
  /\ \/ VisibleRow = {} /\ Goto(r, "claiming")
     \/ \E k \in VisibleRow :
          Reply(r, IF k.hash # body[r] THEN "reused" ELSE IF k.stored THEN "replayed" ELSE "busy")
  /\ UNCHANGED <<row, body, ran, claims, faults>>

\* Seeded fault: no unique constraint on (organization, scope, key).
CreateBeside(r) ==
  /\ row' = row \cup {[hash |-> body[r], stored |-> FALSE]}
  /\ claims' = claims \cup {r}
  /\ Goto(r, "executing")

\* create: refused by the unique constraint, or by the policy's WITH CHECK, and any
\* refusal is taken for a lost race.
Create(r) ==
  IF row # {} \/ RowSecurity
    THEN Reply(r, "busy") /\ UNCHANGED <<row, claims>>
    ELSE /\ row' = {[hash |-> body[r], stored |-> FALSE]}
         /\ claims' = claims \cup {r}
         /\ Goto(r, "executing")

Claim(r) ==
  /\ pc[r] = "claiming"
  /\ Create(r)
  /\ UNCHANGED <<body, ran, faults>>

\* The handler commits its operation, or throws without an effect.
Execute(r) ==
  /\ pc[r] = "executing"
  /\ \/ Goto(r, "storing") /\ ran' = ran \cup {<<r, body[r]>>}
     \/ Goto(r, "releasing") /\ UNCHANGED ran
  /\ UNCHANGED <<row, body, claims, faults>>

\* updateMany of the row, if there is one; a handler without a body leaves it as it is.
Complete == row' = {[k EXCEPT !.stored = HasBody] : k \in row}

Store(r) ==
  /\ pc[r] = "storing"
  /\ Complete
  /\ Reply(r, "ok")
  /\ UNCHANGED <<body, ran, claims, faults>>

\* That write throws, committed or not: the catch block releases the key although the
\* operation has run.
StoreFails(r) ==
  /\ pc[r] = "storing"
  /\ Fault("store")
  /\ Complete \/ UNCHANGED row
  /\ Goto(r, "releasing")
  /\ UNCHANGED <<body, ran, claims>>

\* The catch block: deleteMany, or the attempt at it.
Release(r) ==
  /\ pc[r] = "releasing"
  /\ \/ row' = {} /\ UNCHANGED faults
     \/ Fault("release") /\ UNCHANGED row
  /\ Reply(r, "error")
  /\ UNCHANGED <<body, ran, claims>>

\* The API process dies with the request in hand; its row stays. Nothing in the
\* repository reads expires_at or removes a row by it.
Crash(r) ==
  /\ pc[r] \notin {"new", "over"}
  /\ Fault("crash")
  /\ Reply(r, "error")
  /\ UNCHANGED <<row, body, ran, claims>>

Steps(r) == LookUp(r) \/ Claim(r) \/ Execute(r) \/ Store(r) \/ Release(r)

KeyNext == \E r \in Requests : Steps(r) \/ StoreFails(r) \/ Crash(r)

KeySpec == KeyInit /\ [][KeyNext]_keyVars

-----------------------------------------------------------------------------
(* Properties.                                                             *)

\* idempotency.interceptor.ts:136 "Lost the race. The winner is executing": a request that
\* is told another one is in progress has another one to thank for it.
LoserHasWinner == \A r \in Requests : answer[r] = "busy" => claims \ {r} # {}

\* Two requests with the key never run their operation at the same time, whatever failed
\* before.
OneAtATime == Cardinality({r \in Requests : pc[r] \in {"executing", "storing"}}) <= 1

\* The operation is run again only if something failed in between.
RerunsNeedFaults == Cardinality(ran) <= 1 + faults

\* A replayed response answers the very request: an operation with this body ran, and
\* was answered.
ReplayIsFaithful ==
  \A r \in Requests : answer[r] = "replayed" => \E q \in Requests : <<q, body[r]>> \in ran

\* A failed request is retryable with the same key (idempotency.interceptor.ts:162):
\* unless something else failed, the key is held only for a request that is still under
\* way, or for an operation that has run.
KeyNotBurnt ==
  faults = 0 /\ row # {} =>
    (\E r \in Requests : pc[r] \in {"executing", "storing", "releasing"}) \/ ran # {}
=============================================================================
