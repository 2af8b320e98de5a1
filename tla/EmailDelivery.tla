---------------------------- MODULE EmailDelivery ----------------------------
(***************************************************************************)
(* Campaign emails: the rows EmailCampaignsController.send() queues, and   *)
(* the schedule pollers, one per worker process, that deliver them         *)
(* (apps/worker/src/schedule-poller.ts, apps/worker/src/mailer.ts).        *)
(* All rows belong to one campaign.                                        *)
(***************************************************************************)
EXTENDS Naturals, FiniteSets

CONSTANTS
  Workers,      \* the worker processes
  Sends,        \* the EmailSend rows, one per recipient
  NoSend,       \* no row
  Configurations,  \* which sets of workers may have RESEND_API_KEY set
  EmailBatch,   \* SchedulePollerOptions.emailBatch
  MaxAttempts,  \* MAX_EMAIL_ATTEMPTS
  Faults,       \* the kinds of fault that happen
  MaxFaults     \* bound: how many faults happen in one behaviour

FaultKinds == {"crash", "ceiling", "read", "answer", "write", "slow"}

ASSUME EmailAssumption ==
  /\ IsFiniteSet(Workers)
  /\ IsFiniteSet(Sends)
  /\ NoSend \notin Sends
  /\ Configurations \subseteq SUBSET Workers
  /\ EmailBatch \in Nat \ {0}
  /\ MaxAttempts \in Nat \ {0}
  /\ Faults \subseteq FaultKinds
  /\ MaxFaults \in Nat

VARIABLES
  status,    \* [Sends -> SendStatus]: email_send.status, "absent" before the insert
  attempts,  \* [Sends -> Nat]: email_send.attempts
  stale,     \* [Sends -> BOOLEAN]: updated_at is more than five minutes ago
  sent,      \* email_campaign.sent_count (and delivered_count)
  bounced,   \* email_campaign.bounce_count
  configured,  \* the workers started with an API key: fixed by their environment
  mode,      \* [Workers -> Mode]: the process and its poller's `stopped` flag
  pc,        \* [Workers -> Step]: where runOnce() is
  todo,      \* [Workers -> SUBSET Sends]: candidates the loop has yet to reach
  at,        \* [Workers -> Sends or NoSend]: the row the loop is at
  seen,      \* [Workers -> Nat]: send.attempts as the loop read it
  accepted,  \* [Sends -> Nat]: history, how often the provider took the message
  faults     \* history: faults so far

rowVars == <<status, attempts, stale>>
loopVars == <<pc, todo, at, seen>>
emailVars == <<rowVars, loopVars, sent, bounced, configured, mode, accepted, faults>>

SendStatus == {"absent", "QUEUED", "SENDING", "SENT", "FAILED"}
Mode == {"up", "stopping", "down"}
Step == {"idle", "polling", "loop", "claimed", "sending", "accepted", "counting",
         "undelivered", "catch", "bouncing"}

EmailTypeOK ==
  /\ status \in [Sends -> SendStatus]
  /\ attempts \in [Sends -> Nat]
  /\ \A s \in Sends : attempts[s] <= MaxAttempts + faults
  /\ stale \in [Sends -> BOOLEAN]
  /\ sent \in Nat
  /\ bounced \in Nat
  /\ configured \in Configurations
  /\ mode \in [Workers -> Mode]
  /\ pc \in [Workers -> Step]
  /\ todo \in [Workers -> SUBSET Sends]
  /\ at \in [Workers -> Sends \cup {NoSend}]
  /\ seen \in [Workers -> Nat]
  /\ accepted \in [Sends -> Nat]
  /\ faults \in 0..MaxFaults

EmailInit ==
  /\ status = [s \in Sends |-> "absent"]
  /\ attempts = [s \in Sends |-> 0]
  /\ stale = [s \in Sends |-> FALSE]
  /\ sent = 0
  /\ bounced = 0
  /\ configured \in Configurations
  /\ mode = [w \in Workers |-> "up"]
  /\ pc = [w \in Workers |-> "idle"]
  /\ todo = [w \in Workers |-> {}]
  /\ at = [w \in Workers |-> NoSend]
  /\ seen = [w \in Workers |-> 0]
  /\ accepted = [s \in Sends |-> 0]
  /\ faults = 0

Fault(kind) ==
  /\ kind \in Faults
  /\ faults < MaxFaults
  /\ faults' = faults + 1

-----------------------------------------------------------------------------
(* Rows.                                                                   *)

\* Any write to a row also renews updated_at.
SetRow(s, to) ==
  /\ status' = [status EXCEPT ![s] = to]
  /\ stale' = [stale EXCEPT ![s] = FALSE]

\* send() inserts one QUEUED row per recipient, all in one transaction. Nothing
\* keeps a second click on a campaign from inserting more.
Launch(S) ==
  /\ S # {}
  /\ \A s \in S : status[s] = "absent"
  /\ status' = [s \in Sends |-> IF s \in S THEN "QUEUED" ELSE status[s]]
  /\ UNCHANGED <<attempts, stale, loopVars, sent, bounced, mode, accepted, faults>>

\* Five minutes pass without a write. While a worker is still delivering the row
\* that is a fault: the request to the provider has no timeout of its own.
Ages(s) ==
  /\ status[s] = "SENDING"
  /\ ~ stale[s]
  /\ IF \E w \in Workers : at[w] = s THEN Fault("slow") ELSE UNCHANGED faults
  /\ stale' = [stale EXCEPT ![s] = TRUE]
  /\ UNCHANGED <<status, attempts, loopVars, sent, bounced, mode, accepted>>

-----------------------------------------------------------------------------
(* One tick of a poller: runOnce().                                        *)

Goto(w, step) == pc' = [pc EXCEPT ![w] = step] /\ UNCHANGED <<todo, at, seen>>

\* The loop moves on to its next candidate, or the tick is over.
Continue(w) ==
  /\ pc' = [pc EXCEPT ![w] = IF todo[w] = {} THEN "idle" ELSE "loop"]
  /\ at' = [at EXCEPT ![w] = NoSend]
  /\ seen' = [seen EXCEPT ![w] = 0]
  /\ UNCHANGED todo

\* Seeded fault: abandoned claims are never returned.
ReclaimNothing(w) ==
  /\ mode[w] = "up"
  /\ pc[w] = "idle"
  /\ Goto(w, "polling")
  /\ UNCHANGED <<rowVars, sent, bounced, mode, accepted, faults>>

\* reclaimStaleClaims: the first thing a tick does.
Reclaim(w) ==
  /\ mode[w] = "up"
  /\ pc[w] = "idle"
  /\ Goto(w, "polling")
  /\ LET abandoned == {s \in Sends : status[s] = "SENDING" /\ stale[s]}
     IN /\ status' = [s \in Sends |-> IF s \in abandoned THEN "QUEUED" ELSE status[s]]
        /\ stale' = [s \in Sends |-> IF s \in abandoned THEN FALSE ELSE stale[s]]
  /\ UNCHANGED <<attempts, sent, bounced, mode, accepted, faults>>

\* The candidates: at most EmailBatch QUEUED rows. Rows of one launch share their
\* createdAt, so which of them come first is open.
Poll(w) ==
  /\ pc[w] = "polling"
  /\ LET queued == {s \in Sends : status[s] = "QUEUED"}
     IN \E S \in SUBSET queued :
          /\ Cardinality(S) <= EmailBatch
          /\ S = queued \/ Cardinality(S) = EmailBatch
          /\ todo' = [todo EXCEPT ![w] = S]
          /\ pc' = [pc EXCEPT ![w] = IF S = {} THEN "idle" ELSE "loop"]
  /\ UNCHANGED <<at, seen, rowVars, sent, bounced, mode, accepted, faults>>

\* updateMany where status = QUEUED: one row claimed, or a candidate that another
\* worker has taken meanwhile.
Claim(w, s) ==
  /\ pc[w] = "loop"
  /\ s \in todo[w]
  /\ todo' = [todo EXCEPT ![w] = @ \ {s}]
  /\ \/ /\ status[s] = "QUEUED"
        /\ SetRow(s, "SENDING")
        /\ attempts' = [attempts EXCEPT ![s] = @ + 1]
        /\ at' = [at EXCEPT ![w] = s]
        /\ pc' = [pc EXCEPT ![w] = "claimed"]
     \/ /\ status[s] # "QUEUED"
        /\ pc' = [pc EXCEPT ![w] = IF todo'[w] = {} THEN "idle" ELSE "loop"]
        /\ UNCHANGED <<rowVars, at>>
  /\ UNCHANGED <<seen, sent, bounced, mode, accepted, faults>>

\* findUnique, and the attempts it returns.
Read(w) ==
  /\ pc[w] = "claimed"
  /\ pc' = [pc EXCEPT ![w] = "sending"]
  /\ seen' = [seen EXCEPT ![w] = attempts[at[w]]]
  /\ UNCHANGED <<todo, at, rowVars, sent, bounced, mode, accepted, faults>>

\* The claim's answer is lost or the read fails: the tick ends, its row stays SENDING.
ReadFails(w) ==
  /\ pc[w] = "claimed"
  /\ Fault("read")
  /\ pc' = [pc EXCEPT ![w] = "idle"]
  /\ at' = [at EXCEPT ![w] = NoSend]
  /\ todo' = [todo EXCEPT ![w] = {}]
  /\ UNCHANGED <<seen, rowVars, sent, bounced, mode, accepted>>

Accepted(w) == accepted' = [accepted EXCEPT ![at[w]] = @ + 1]

\* Seeded fault: a response that is not ok counts as delivered.
SendUnchecked(w) ==
  /\ pc[w] = "sending"
  /\ w \in configured
  /\ Goto(w, "accepted")
  /\ Accepted(w) \/ UNCHANGED accepted
  /\ UNCHANGED <<rowVars, sent, bounced, mode, faults>>

\* sendEmail: the provider takes the message, refuses it or cannot be reached, or,
\* without an API key, is not even called.
Send(w) ==
  /\ pc[w] = "sending"
  /\ \/ w \in configured /\ Goto(w, "accepted") /\ Accepted(w)
     \/ w \in configured /\ Goto(w, "catch") /\ UNCHANGED accepted
     \/ w \notin configured /\ Goto(w, "undelivered") /\ UNCHANGED accepted
  /\ UNCHANGED <<rowVars, sent, bounced, mode, faults>>

\* The provider takes the message and its answer is lost.
AnswerLost(w) ==
  /\ pc[w] = "sending"
  /\ w \in configured
  /\ Fault("answer")
  /\ Goto(w, "catch")
  /\ Accepted(w)
  /\ UNCHANGED <<rowVars, sent, bounced, mode>>

MarkSent(w) ==
  /\ pc[w] = "accepted"
  /\ SetRow(at[w], "SENT")
  /\ Goto(w, "counting")
  /\ UNCHANGED <<attempts, sent, bounced, mode, accepted, faults>>

CountSent(w) ==
  /\ pc[w] = "counting"
  /\ sent' = sent + 1
  /\ Continue(w)
  /\ UNCHANGED <<rowVars, bounced, mode, accepted, faults>>

\* Without a provider the row fails at once, not to be tried again.
MarkUndelivered(w) ==
  /\ pc[w] = "undelivered"
  /\ SetRow(at[w], "FAILED")
  /\ Continue(w)
  /\ UNCHANGED <<attempts, sent, bounced, mode, accepted, faults>>

\* One of the three writes above throws, committed or not, inside the try that
\* wraps them together with the send.
WriteFails(w) ==
  /\ Fault("write")
  /\ Goto(w, "catch")
  /\ \/ pc[w] = "accepted" /\ (SetRow(at[w], "SENT") \/ UNCHANGED <<status, stale>>) /\ UNCHANGED sent
     \/ pc[w] = "counting" /\ (sent' = sent + 1 \/ UNCHANGED sent) /\ UNCHANGED <<status, stale>>
     \/ pc[w] = "undelivered" /\ (SetRow(at[w], "FAILED") \/ UNCHANGED <<status, stale>>) /\ UNCHANGED sent
  /\ UNCHANGED <<attempts, bounced, mode, accepted>>

\* Seeded fault: `>` instead of `>=`.
GiveUpLate(w) == seen[w] > MaxAttempts

GiveUp(w) == seen[w] >= MaxAttempts

\* The catch block: back to the queue, or FAILED after the last attempt.
Catch(w) ==
  /\ pc[w] = "catch"
  /\ IF GiveUp(w) THEN SetRow(at[w], "FAILED") /\ Goto(w, "bouncing")
                  ELSE SetRow(at[w], "QUEUED") /\ Continue(w)
  /\ UNCHANGED <<attempts, sent, bounced, mode, accepted, faults>>

CountBounce(w) ==
  /\ pc[w] = "bouncing"
  /\ bounced' = bounced + 1
  /\ Continue(w)
  /\ UNCHANGED <<rowVars, sent, mode, accepted, faults>>

\* The catch block's own writes fail, which it ignores.
CatchWriteFails(w) ==
  /\ Fault("write")
  /\ \/ /\ pc[w] = "catch"
        /\ IF GiveUp(w) THEN Goto(w, "bouncing") ELSE Continue(w)
     \/ pc[w] = "bouncing" /\ Continue(w)
  /\ UNCHANGED <<rowVars, sent, bounced, mode, accepted>>

-----------------------------------------------------------------------------
(* The process around it.                                                  *)

\* stop(): no new tick; the tick in flight, its whole batch, runs to its end.
Stop(w) ==
  /\ mode[w] = "up"
  /\ mode' = [mode EXCEPT ![w] = "stopping"]
  /\ UNCHANGED <<rowVars, loopVars, sent, bounced, accepted, faults>>

Dies(w) ==
  /\ mode' = [mode EXCEPT ![w] = "down"]
  /\ pc' = [pc EXCEPT ![w] = "idle"]
  /\ todo' = [todo EXCEPT ![w] = {}]
  /\ at' = [at EXCEPT ![w] = NoSend]
  /\ seen' = [seen EXCEPT ![w] = 0]
  /\ UNCHANGED <<rowVars, sent, bounced, accepted>>

\* stop() returns when the tick is over, or after a ceiling of sixty seconds.
Exit(w) ==
  /\ mode[w] = "stopping"
  /\ Dies(w)
  /\ IF pc[w] = "idle" THEN UNCHANGED faults ELSE Fault("ceiling")

Crash(w) ==
  /\ mode[w] # "down"
  /\ Fault("crash")
  /\ Dies(w)

Restart(w) ==
  /\ mode[w] = "down"
  /\ mode' = [mode EXCEPT ![w] = "up"]
  /\ UNCHANGED <<rowVars, loopVars, sent, bounced, accepted, faults>>

-----------------------------------------------------------------------------
Ticks(w) ==
  \/ Reclaim(w) \/ Poll(w) \/ \E s \in Sends : Claim(w, s)
  \/ Read(w) \/ Send(w) \/ MarkSent(w) \/ CountSent(w) \/ MarkUndelivered(w)
  \/ Catch(w) \/ CountBounce(w)

Fails(w) ==
  ReadFails(w) \/ AnswerLost(w) \/ WriteFails(w) \/ CatchWriteFails(w) \/ Crash(w)

EmailNext ==
  /\ \/ \E S \in SUBSET Sends : Launch(S)
     \/ \E s \in Sends : Ages(s)
     \/ \E w \in Workers : Ticks(w) \/ Fails(w) \/ Stop(w) \/ Exit(w) \/ Restart(w)
  /\ UNCHANGED configured

Fixed(A) == A /\ UNCHANGED configured

\* A timer drives every live poller, and deployments do not stop a process before each
\* of its ticks for ever; an unwritten row ages; a stopped process exits and is started
\* again. The provider owes us nothing.
EmailFairness ==
  /\ \A s \in Sends : WF_emailVars(Fixed(Ages(s)))
  /\ \A w \in Workers :
       /\ SF_emailVars(Fixed(Ticks(w)))
       /\ WF_emailVars(Fixed(Restart(w)))
       /\ WF_emailVars(Fixed(Exit(w)))

EmailSafe == EmailInit /\ [][EmailNext]_emailVars
EmailSpec == EmailSafe /\ EmailFairness

-----------------------------------------------------------------------------
(* Properties.                                                             *)

\* A recipient gets a message twice only if something failed: one extra copy per fault
\* at most, however many pollers run and however often they are stopped and started.
ExtraCopiesNeedFaults == \A s \in Sends : accepted[s] <= 1 + faults

\* What a row says is what happened to its message, up to the faults on the way: SENT
\* was accepted by the provider, FAILED was not.
HonestOutcome ==
  \A s \in Sends :
    /\ status[s] = "SENT" => accepted[s] > 0
    /\ status[s] = "FAILED" => accepted[s] <= faults

\* Rows whose counter is still to be incremented by a live worker.
Uncounted == Cardinality({w \in Workers : pc[w] = "counting"})

\* The campaign's sent_count follows its SENT rows, never more than one off per fault.
CountersFollow ==
  LET rows == Cardinality({s \in Sends : status[s] = "SENT"})
  IN /\ sent + Uncounted <= rows + faults
     /\ rows <= sent + Uncounted + faults

\* Extra copies of a message need faults, and what the rows and the counters of the campaign
\* say of a message is what became of it, up to the faults on the way.
EmailsSound == ExtraCopiesNeedFaults /\ HonestOutcome /\ CountersFollow

\* Every queued message comes to an end, whatever crashes and restarts on the way: no
\* abandoned claim strands a row, no bad address loops for ever.
EmailsDone == \A s \in Sends : status[s] \in {"absent", "SENT", "FAILED"}
EmailsSettle == []<>EmailsDone
=============================================================================
