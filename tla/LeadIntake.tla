------------------------------ MODULE LeadIntake ------------------------------
(***************************************************************************)
(* Lead-ad submissions: the webhook that records one event per submission  *)
(* (apps/api/src/modules/meta/meta-webhooks.controller.ts) and the Meta    *)
(* pollers, one per worker process, that turn events into contacts and     *)
(* leads (apps/worker/src/meta/poller.ts).                                 *)
(***************************************************************************)
EXTENDS Naturals, FiniteSets

CONSTANTS
  Workers,       \* the worker processes
  Leads,         \* the submissions, each with a leadgen id of its own
  NoLead,        \* no submission
  People,        \* the e-mail addresses of the people who submit
  NoEmail,       \* no e-mail address
  Batch,         \* EVENT_BATCH
  LeadFaults,    \* the kinds of fault that happen
  MaxLeadFaults  \* bound: how many faults happen in one behaviour

LeadFaultKinds == {"crash", "graph", "write"}

ASSUME LeadAssumption ==
  /\ IsFiniteSet(Workers)
  /\ NoLead \notin Leads
  /\ NoEmail \notin People
  /\ Batch \in Nat \ {0}
  /\ LeadFaults \subseteq LeadFaultKinds
  /\ MaxLeadFaults \in Nat

VARIABLES
  event,      \* [Leads -> EventStatus]: meta_webhook_event.status
  receivedAt, \* [Leads -> Nat]: when the event was recorded
  unknown,    \* submissions whose ad, form and page no organisation has
  person,     \* [Leads -> address or NoEmail]: what the form carries
  contacts,   \* addresses with a contact row: unique on (organisation, e-mail)
  saved,      \* [Leads -> Nat]: lead rows with this meta_lead_id
  replied,    \* [Leads -> Nat]: WhatsApp auto-replies sent
  leadStep,   \* [Workers -> LeadStep]: where processLeadgenEvents() is
  todo,       \* [Workers -> SUBSET Leads]: events of the batch still to process
  at,         \* [Workers -> Leads or NoLead]: the event the loop is at
  shared,     \* history: submissions two workers processed at the same time
  leadFaults  \* history: faults so far

loopVars == <<leadStep, todo, at>>
leadVars == <<event, receivedAt, unknown, person, contacts, saved, replied, loopVars, shared,
              leadFaults>>

EventStatus == {"absent", "RECEIVED", "PROCESSED", "FAILED"}
LeadStep == {"down", "idle", "loop", "looking", "fetching", "finding", "inserting", "creating",
             "replying", "done", "failing"}

LeadTypeOK ==
  /\ event \in [Leads -> EventStatus]
  /\ receivedAt \in [Leads -> Nat]
  /\ unknown \subseteq Leads
  /\ person \in [Leads -> People \cup {NoEmail}]
  /\ contacts \subseteq People
  /\ saved \in [Leads -> Nat]
  /\ replied \in [Leads -> Nat]
  /\ leadStep \in [Workers -> LeadStep]
  /\ todo \in [Workers -> SUBSET Leads]
  /\ at \in [Workers -> Leads \cup {NoLead}]
  /\ \A w \in Workers : leadStep[w] \in {"down", "idle", "loop"} <=> at[w] = NoLead
  /\ shared \subseteq Leads
  /\ leadFaults \in 0..MaxLeadFaults

LeadInit ==
  /\ event = [l \in Leads |-> "absent"]
  /\ receivedAt = [l \in Leads |-> 0]
  /\ unknown = {}
  /\ person \in [Leads -> People \cup {NoEmail}]
  /\ contacts = {}
  /\ saved = [l \in Leads |-> 0]
  /\ replied = [l \in Leads |-> 0]
  /\ leadStep = [w \in Workers |-> "idle"]
  /\ todo = [w \in Workers |-> {}]
  /\ at = [w \in Workers |-> NoLead]
  /\ shared = {}
  /\ leadFaults = 0

LeadFault(kind) == kind \in LeadFaults /\ leadFaults < MaxLeadFaults /\ leadFaults' = leadFaults + 1

LeadGoto(w, step) == leadStep' = [leadStep EXCEPT ![w] = step]

-----------------------------------------------------------------------------
\* The submissions recorded so far.
Recorded == {l \in Leads : event[l] # "absent"}

\* record(): Meta delivers a submission, once or repeatedly. The event's key is the
\* leadgen id and is unique, so a repeated delivery inserts nothing; nor does one whose
\* insert fails, which is logged and answered like any other.
Record(l) ==
  /\ event[l] = "absent"
  /\ event' = [event EXCEPT ![l] = "RECEIVED"]
  /\ receivedAt' = [receivedAt EXCEPT ![l] = Cardinality(Recorded)]
  /\ unknown' \in {unknown, unknown \cup {l}}
  /\ UNCHANGED <<person, contacts, saved, replied, loopVars, shared, leadFaults>>

-----------------------------------------------------------------------------
(* processLeadgenEvents() and processOne() of one worker.                  *)

\* The oldest RECEIVED events, at most Batch of them.
Oldest ==
  LET received == {l \in Leads : event[l] = "RECEIVED"}
  IN {l \in received : Cardinality({k \in received : receivedAt[k] < receivedAt[l]}) < Batch}

Poll(w) ==
  /\ leadStep[w] = "idle"
  /\ Oldest # {}
  /\ todo' = [todo EXCEPT ![w] = Oldest]
  /\ LeadGoto(w, "loop")
  /\ UNCHANGED <<event, receivedAt, unknown, person, contacts, saved, replied, at, shared,
                 leadFaults>>

Begin(w) ==
  /\ leadStep[w] = "loop"
  /\ \/ /\ todo[w] = {}
        /\ LeadGoto(w, "idle")
        /\ UNCHANGED <<todo, at, shared>>
     \/ \E l \in todo[w] :
          /\ \A k \in todo[w] : receivedAt[l] <= receivedAt[k]
          /\ todo' = [todo EXCEPT ![w] = @ \ {l}]
          /\ at' = [at EXCEPT ![w] = l]
          /\ shared' = IF \E v \in Workers : at[v] = l THEN shared \cup {l} ELSE shared
          /\ LeadGoto(w, "looking")
  /\ UNCHANGED <<event, receivedAt, unknown, person, contacts, saved, replied, leadFaults>>

\* Seeded fault: the lead is looked for under something it never has.
CapturedNever(l) == FALSE

\* A lead of this submission is there.
Captured(l) == saved[l] > 0

\* The organisation is resolved by ad, form or page, and a lead captured before
\* ends the event's processing.
Look(w) ==
  /\ leadStep[w] = "looking"
  /\ LeadGoto(w, IF at[w] \in unknown THEN "failing"
                 ELSE IF Captured(at[w]) THEN "done" ELSE "fetching")
  /\ UNCHANGED <<event, receivedAt, unknown, person, contacts, saved, replied, todo, at, shared,
                 leadFaults>>

\* The submission's fields from the Graph API; no usable token, or no answer, throws.
Fetch(w) ==
  /\ leadStep[w] = "fetching"
  /\ \/ LeadGoto(w, "finding") /\ UNCHANGED leadFaults
     \/ LeadGoto(w, "failing") /\ LeadFault("graph")
  /\ UNCHANGED <<event, receivedAt, unknown, person, contacts, saved, replied, todo, at, shared>>

FindContact(w) ==
  /\ leadStep[w] = "finding"
  /\ LeadGoto(w, IF person[at[w]] \in contacts THEN "creating" ELSE "inserting")
  /\ UNCHANGED <<event, receivedAt, unknown, person, contacts, saved, replied, todo, at, shared,
                 leadFaults>>

\* contact.create: a contact another worker has inserted since violates the unique
\* key, which throws. A contact without an address never collides.
CreateContact(w) ==
  /\ leadStep[w] = "inserting"
  /\ LET who == person[at[w]]
     IN IF who \in contacts
          THEN LeadGoto(w, "failing") /\ UNCHANGED contacts
          ELSE LeadGoto(w, "creating") /\ contacts' = contacts \cup ({who} \ {NoEmail})
  /\ UNCHANGED <<event, receivedAt, unknown, person, saved, replied, todo, at, shared, leadFaults>>

\* lead.create: nothing makes meta_lead_id unique. It may fail, and the contact stays.
CreateLead(w) ==
  /\ leadStep[w] = "creating"
  /\ \/ /\ saved' = [saved EXCEPT ![at[w]] = @ + 1]
        /\ LeadGoto(w, "replying")
        /\ UNCHANGED leadFaults
     \/ LeadFault("write") /\ LeadGoto(w, "failing") /\ UNCHANGED saved
  /\ UNCHANGED <<event, receivedAt, unknown, person, contacts, replied, todo, at, shared>>

\* autoReply: skipped when the organisation or the phone number does not allow it,
\* and unable to throw.
AutoReply(w) ==
  /\ leadStep[w] = "replying"
  /\ \/ replied' = [replied EXCEPT ![at[w]] = @ + 1]
     \/ UNCHANGED replied
  /\ LeadGoto(w, "done")
  /\ UNCHANGED <<event, receivedAt, unknown, person, contacts, saved, todo, at, shared, leadFaults>>

SetEvent(l, s) == event' = [event EXCEPT ![l] = s]

Continue(w) == LeadGoto(w, "loop") /\ at' = [at EXCEPT ![w] = NoLead]

\* The event is marked PROCESSED if it is still RECEIVED; the mark failing is an
\* exception like any other.
MarkProcessed(w) ==
  /\ leadStep[w] = "done"
  /\ \/ /\ IF event[at[w]] = "RECEIVED" THEN SetEvent(at[w], "PROCESSED") ELSE UNCHANGED event
        /\ Continue(w)
        /\ UNCHANGED leadFaults
     \/ /\ LeadFault("write")
        /\ LeadGoto(w, "failing")
        /\ UNCHANGED <<event, at>>
  /\ UNCHANGED <<receivedAt, unknown, person, contacts, saved, replied, todo, shared>>

\* The catch block: FAILED whatever the status is by now; its own failure is swallowed.
MarkFailed(w) ==
  /\ leadStep[w] = "failing"
  /\ \/ SetEvent(at[w], "FAILED") /\ UNCHANGED leadFaults
     \/ UNCHANGED event /\ LeadFault("write")
  /\ Continue(w)
  /\ UNCHANGED <<receivedAt, unknown, person, contacts, saved, replied, todo, shared>>

\* The process dies between any two steps; a shutdown whose tick outlives its
\* deadline looks the same.
LeadCrash(w) ==
  /\ leadStep[w] # "down"
  /\ LeadFault("crash")
  /\ LeadGoto(w, "down")
  /\ todo' = [todo EXCEPT ![w] = {}]
  /\ at' = [at EXCEPT ![w] = NoLead]
  /\ UNCHANGED <<event, receivedAt, unknown, person, contacts, saved, replied, shared>>

Restart(w) ==
  /\ leadStep[w] = "down"
  /\ LeadGoto(w, "idle")
  /\ UNCHANGED <<event, receivedAt, unknown, person, contacts, saved, replied, todo, at, shared,
                 leadFaults>>

Process(w) ==
  \/ Poll(w) \/ Begin(w) \/ Look(w) \/ Fetch(w) \/ FindContact(w) \/ CreateContact(w)
  \/ CreateLead(w) \/ AutoReply(w) \/ MarkProcessed(w) \/ MarkFailed(w) \/ Restart(w)

LeadNext ==
  \/ \E l \in Leads : Record(l)
  \/ \E w \in Workers : Process(w) \/ LeadCrash(w)

LeadSafe == LeadInit /\ [][LeadNext]_leadVars

\* A running process reaches the next step of its tick, its timer fires again, and
\* a process that died is started again.
LeadFairness == \A w \in Workers : WF_leadVars(Process(w))

LeadSpec == LeadSafe /\ LeadFairness

-----------------------------------------------------------------------------
\* A submission becomes two leads, and its sender is messaged twice, only when two
\* workers were processing it at once: one worker alone, however it crashes and
\* starts again between the lead and the mark, never does
\* (poller.ts:155 "Already captured? The webhook can arrive more than once.").
DuplicatesNeedOverlap ==
  \A l \in Leads : /\ replied[l] <= saved[l]
                   /\ saved[l] > 1 => l \in shared

\* Every recorded event is settled, also behind a batch of events that cannot be
\* attributed to any organisation (poller.ts:96, EVENT_BATCH oldest first).
EventsDone == \A l \in Leads : event[l] # "RECEIVED"
EventsHandled == []<>EventsDone
=============================================================================
