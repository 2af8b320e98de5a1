--------------------------- MODULE CreativePipeline ---------------------------
(***************************************************************************)
(* Posters: the requests that create a batch of them, edit, re-render,     *)
(* review and publish them (creatives.controller.ts and                    *)
(* creative-review.controller.ts under apps/api/src/modules/creatives) and *)
(* the queue handler that renders them                                     *)
(* (apps/worker/src/creative/render.handler.ts).                           *)
(*                                                                         *)
(* What is rendered of a poster is its look: the words of its content, the *)
(* template with its version, and the aspect ratio. Artwork is the look it  *)
(* was rendered from, as its hash is. Nothing in the repository gives a     *)
(* creative the status PUBLISHED, so the guards on it never bind and are    *)
(* not here.                                                                *)
(***************************************************************************)
EXTENDS JobQueue, Functions

CONSTANTS
  Creatives,   \* the creatives a batch may have
  Reviewed,    \* bound: the creatives that requests are about
  ReviewSize,  \* bound: only a batch of at most so many creatives is reviewed and published
  Requests,    \* the requests about one creative that may be in progress at the same time
  None,        \* no request, no creative, no artwork
  Again,       \* bound: how many edits and re-renders reach the queue
  Words,       \* what the content of a creative may say
  Templates,   \* the templates, in the versions that shipped
  Ratios,      \* the aspect ratios
  Faults,      \* the kinds of fault that happen
  MaxTrouble   \* bound: how many of those requests and of faults happen in one behaviour

FaultKinds == {"crash", "enqueue", "template", "write"}

ASSUME CreativeAssumption ==
  /\ Jobs \subseteq Nat
  /\ Creatives # {}
  /\ IsFiniteSet(Creatives)
  /\ Reviewed \subseteq Creatives
  /\ None \notin Creatives
  /\ Faults \subseteq FaultKinds
  /\ MaxTrouble \in Nat

VARIABLES
  status,     \* [Creatives -> CreativeStatus]
  deleted,    \* the creatives with deleted_at set
  look,       \* [Creatives -> Look]: content, template and ratio, as stored; None for no row
  art,        \* [Creatives -> Look]: the look that rendered_url shows, or None
  posted,     \* the creatives with social_post_id set
  batch,      \* the BatchJob row: its state and its counters
  queued,     \* batch() has answered, with its jobs in the queue or without
  request,    \* [Requests -> what the request found, or None]
  about,      \* [Jobs -> Creatives or None]: job.data.creativeId
  pc,         \* [Jobs -> Step]: where the handler is
  got,        \* [Jobs -> View]: the creative as the handler loaded it, or None
  posts,      \* [Creatives -> SUBSET Rendered]: history, what was handed to the publisher
  count,      \* [Creatives -> Nat]: history, how often it was
  approved,   \* [Creatives -> SUBSET Rendered]: history, what an approval was given to
  raced,      \* history: creatives that two publish requests raced on, or an approval and a change
  settled,    \* [Jobs -> Nat]: history, how often the job advanced the batch
  trouble     \* history: requests and faults so far

rowVars == <<status, deleted, look, art, posted>>
batchVars == <<batch, queued>>
handlerVars == <<about, pc, got>>
historyVars == <<posts, count, approved, raced>>
creativeVars ==
  <<queueVars, rowVars, batchVars, request, handlerVars, historyVars, settled, trouble>>

CreativeStatus == {"absent", "DRAFT", "RENDERING", "READY", "APPROVED", "REJECTED", "SCHEDULED",
                   "FAILED"}
Step == {"idle", "loading", "marking", "saving", "settling", "returning",
         "failing", "rejecting", "settlingFailed", "settlingRejected", "throwing"}
Op == {"edit", "rerender", "approve", "reject", "remove", "publish"}
Look == [words : Words, template : Templates, ratio : Ratios]
View == [look : Look, art : Look \cup {None}]
Rendered == [look : Look, art : Look]
Open == [state |-> "RUNNING", completed |-> 0, failed |-> 0]

CreativeTypeOK ==
  /\ QueueTypeOK
  /\ status \in [Creatives -> CreativeStatus]
  /\ deleted \subseteq Creatives
  /\ look \in [Creatives -> Look \cup {None}]
  /\ art \in [Creatives -> Look \cup {None}]
  /\ posted \subseteq Creatives
  /\ batch \in [state : {"none", "RUNNING", "COMPLETED", "FAILED"}, completed : Nat, failed : Nat]
  /\ queued \in BOOLEAN
  /\ request \in [Requests ->
                    [op : Op \cup {"enqueue"}, on : Creatives, view : View] \cup {None}]
  /\ about \in [Jobs -> Creatives \cup {None}]
  /\ pc \in [Jobs -> Step]
  /\ \A j \in Jobs : pc[j] # "idle" <=> job[j] = "active"
  /\ got \in [Jobs -> View \cup {None}]
  /\ posts \in [Creatives -> SUBSET Rendered]
  /\ count \in [Creatives -> Nat]
  /\ approved \in [Creatives -> SUBSET Rendered]
  /\ raced \subseteq Creatives
  /\ settled \in [Jobs -> Nat]
  /\ trouble \in 0..MaxTrouble

CreativeInit ==
  /\ QueueInit
  /\ status = [c \in Creatives |-> "absent"]
  /\ deleted = {}
  /\ look = [c \in Creatives |-> None]
  /\ art = [c \in Creatives |-> None]
  /\ posted = {}
  /\ batch = [Open EXCEPT !.state = "none"]
  /\ queued = FALSE
  /\ request = [r \in Requests |-> None]
  /\ about = [j \in Jobs |-> None]
  /\ pc = [j \in Jobs |-> "idle"]
  /\ got = [j \in Jobs |-> None]
  /\ posts = [c \in Creatives |-> {}]
  /\ count = [c \in Creatives |-> 0]
  /\ approved = [c \in Creatives |-> {}]
  /\ raced = {}
  /\ settled = [j \in Jobs |-> 0]
  /\ trouble = 0

Spend == trouble < MaxTrouble /\ trouble' = trouble + 1
Fault(kind) == kind \in Faults /\ Spend

-----------------------------------------------------------------------------
(* The batch.                                                              *)

Members == {c \in Creatives : status[c] # "absent"}

\* batch(): the rows and the batch are one transaction; what each says is its own.
CreateBatch ==
  /\ batch.state = "none"
  /\ batch' = Open
  /\ \E S \in (SUBSET Creatives) \ {{}} :
       /\ status' = [c \in Creatives |-> IF c \in S THEN "DRAFT" ELSE "absent"]
       /\ \E words \in [S -> Words], template \in Templates, ratio \in Ratios :
            look' = [c \in Creatives |->
                       IF c \in S
                         THEN [words |-> words[c], template |-> template, ratio |-> ratio]
                         ELSE None]
  /\ UNCHANGED <<queueVars, deleted, art, posted, queued, request, handlerVars, historyVars,
                 settled, trouble>>

\* The request in progress is of kind op; what it does is left to the action.
Doing(r, op) == request[r] # None /\ request[r].op = op

\* The ids BullMQ would give next are those no job has had.
Fresh == {j \in Jobs : about[j] = None}

CanQueue ==
  Cardinality(Jobs \ Fresh) + Cardinality({r \in Requests : Doing(r, "enqueue")})
    < Cardinality(Members) + Again

\* After the commit: one job per creative, in one call, which may fail. Requests about
\* the batch are modelled from then on.
QueueBatch ==
  /\ batch.state = "RUNNING"
  /\ ~ queued
  /\ queued' = TRUE
  /\ \/ /\ \E order \in Bijection(1..Cardinality(Members), Members) :
             about' = [j \in Jobs |-> IF j \in DOMAIN order THEN order[j] ELSE None]
        /\ job' = [j \in Jobs |-> IF about'[j] = None THEN "none" ELSE "waiting"]
        /\ UNCHANGED trouble
     \/ Fault("enqueue") /\ UNCHANGED <<job, about>>
  /\ UNCHANGED <<made, stalls, starts, dlq, logged, rowVars, batch, request, pc, got,
                 historyVars, settled>>

Creating == {j \in Jobs : about[j] # None /\ \A i \in Jobs : about[i] = about[j] => j <= i}

-----------------------------------------------------------------------------
(* Requests: each reads the row, and writes it in a later statement of a   *)
(* transaction that locks nothing in between.                              *)

Visible(c) == c \in Members \ deleted

\* What a statement that reads the row sees of it.
Seen(c) == [look |-> look[c], art |-> art[c]]

UnderReview(c) == c \in Reviewed /\ Cardinality(Members) <= ReviewSize

Approvable(c) == status[c] \in {"READY", "DRAFT", "REJECTED"}

\* Seeded fault: that there is artwork is not looked at.
CanApproveUnrendered(c) == Approvable(c)

CanApprove(c) == Approvable(c) /\ art[c] # None

CanPublish(c) == status[c] = "APPROVED" /\ art[c] # None /\ c \notin posted

Allowed(op, c) ==
  CASE op = "approve" -> CanApprove(c)
    [] op = "publish" -> CanPublish(c)
    [] op \in {"edit", "rerender"} -> CanQueue
    [] OTHER -> TRUE

Find(r, op, c) ==
  /\ request[r] = None
  /\ queued
  /\ Visible(c)
  /\ op \in {"approve", "reject", "publish"} => UnderReview(c)
  /\ Allowed(op, c)
  /\ Spend
  /\ request' = [request EXCEPT ![r] = [op |-> op, on |-> c, view |-> Seen(c)]]
  /\ raced' = IF op = "publish" /\ \E q \in Requests :
                   request[q] # None /\ request[q].op = "publish" /\ request[q].on = c
                THEN raced \cup {c} ELSE raced
  /\ UNCHANGED <<queueVars, rowVars, batchVars, handlerVars, posts, count, approved, settled>>

Answer(r) == request' = [request EXCEPT ![r] = None]

SetStatus(c, s) == status' = [status EXCEPT ![c] = s]

Approve(r) ==
  /\ Doing(r, "approve")
  /\ LET c == request[r].on
     IN /\ SetStatus(c, "APPROVED")
        /\ approved' = [approved EXCEPT ![c] = @ \cup {request[r].view}]
        /\ raced' = IF request[r].view # Seen(c) THEN raced \cup {c} ELSE raced
  /\ Answer(r)
  /\ UNCHANGED <<queueVars, deleted, look, art, posted, batchVars, handlerVars, posts, count,
                 settled, trouble>>

Reject(r) ==
  /\ Doing(r, "reject")
  /\ SetStatus(request[r].on, "REJECTED")
  /\ Answer(r)
  /\ UNCHANGED <<queueVars, deleted, look, art, posted, batchVars, handlerVars, historyVars,
                 settled, trouble>>

Remove(r) ==
  /\ Doing(r, "remove")
  /\ deleted' = deleted \cup {request[r].on}
  /\ Answer(r)
  /\ UNCHANGED <<queueVars, status, look, art, posted, batchVars, handlerVars, historyVars,
                 settled, trouble>>

\* bulk(): guard and write are one statement.
BulkApprove(c) ==
  /\ Visible(c)
  /\ UnderReview(c)
  /\ CanApprove(c)
  /\ SetStatus(c, "APPROVED")
  /\ approved' = [approved EXCEPT ![c] = @ \cup {Seen(c)}]
  /\ UNCHANGED <<queueVars, deleted, look, art, posted, batchVars, request, handlerVars,
                 posts, count, raced, settled, trouble>>

BulkReject(c) ==
  /\ Visible(c)
  /\ UnderReview(c)
  /\ SetStatus(c, "REJECTED")
  /\ UNCHANGED <<queueVars, deleted, look, art, posted, batchVars, request, handlerVars,
                 historyVars, settled, trouble>>

\* Seeded fault: an edit leaves the approval it found.
StatusEditedApproved(s) == IF s = "APPROVED" THEN s ELSE "DRAFT"

\* Approval does not survive an edit.
StatusEdited(s) == "DRAFT"

\* An edit is merged into the content as it was read, and that is written whole. A
\* re-render writes the template it asks for or, if it asks for none, the one it has read,
\* whichever the row has by now: any template; and a ratio if it asks for one.
NewLooks(r) ==
  LET now == look[request[r].on]
  IN {new \in Look :
        \/ Doing(r, "edit") /\ new.template = now.template /\ new.ratio = now.ratio
        \/ Doing(r, "rerender") /\ new.words = now.words}

Rewrite(r) ==
  /\ Doing(r, "edit") \/ Doing(r, "rerender")
  /\ CanQueue
  /\ LET c == request[r].on
     IN /\ SetStatus(c, StatusEdited(status[c]))
        /\ \E new \in NewLooks(r) : look' = [look EXCEPT ![c] = new]
  /\ request' = [request EXCEPT ![r].op = "enqueue"]
  /\ UNCHANGED <<queueVars, deleted, art, posted, batchVars, handlerVars, historyVars, settled,
                 trouble>>

\* queue.add after the commit; its failure is an error of the request, and the row stays.
Enqueue(r) ==
  /\ Doing(r, "enqueue")
  /\ \/ \E j \in Fresh :
          /\ \A i \in Fresh : j <= i
          /\ Add(j)
          /\ about' = [about EXCEPT ![j] = request[r].on]
          /\ UNCHANGED trouble
     \/ /\ Fault("enqueue")
        /\ UNCHANGED <<job, about>>
  /\ Answer(r)
  /\ UNCHANGED <<made, stalls, starts, dlq, logged, rowVars, batchVars, pc, got, historyVars,
                 settled>>

\* publish(): a post with the words and the artwork as they were read.
Publish(r) ==
  /\ Doing(r, "publish")
  /\ LET c == request[r].on
     IN /\ SetStatus(c, "SCHEDULED")
        /\ posted' = posted \cup {c}
        /\ posts' = [posts EXCEPT ![c] = @ \cup {request[r].view}]
        /\ count' = [count EXCEPT ![c] = @ + 1]
  /\ Answer(r)
  /\ UNCHANGED <<queueVars, deleted, look, art, batchVars, handlerVars, approved, raced,
                 settled, trouble>>

Review(r) ==
  \/ \E op \in Op, c \in Reviewed : Find(r, op, c)
  \/ Approve(r) \/ Reject(r) \/ Remove(r) \/ Rewrite(r) \/ Enqueue(r) \/ Publish(r)

-----------------------------------------------------------------------------
(* The render handler.                                                     *)

Goto(j, step) == pc' = [pc EXCEPT ![j] = step]

Start(j) ==
  /\ Take(j)
  /\ Goto(j, "loading")
  /\ UNCHANGED <<rowVars, batchVars, request, about, got, historyVars, settled, trouble>>

\* A creative deleted meanwhile ends the job with settle(null), which advances no
\* batch; a template that no longer ships fails the creative.
Load(j) ==
  /\ pc[j] = "loading"
  /\ LET c == about[j]
     IN IF c \in deleted
          THEN Goto(j, "returning") /\ UNCHANGED <<got, trouble>>
          ELSE \/ /\ got' = [got EXCEPT ![j] = Seen(c)]
                  /\ Goto(j, "marking")
                  /\ UNCHANGED trouble
               \/ /\ Fault("template")
                  /\ Goto(j, "rejecting")
                  /\ UNCHANGED got
  /\ UNCHANGED <<queueVars, rowVars, batchVars, request, about, historyVars, settled>>

\* The writes of the handler name the row by its id only: whatever its status is, and
\* deleted or not.
Mark(j) ==
  /\ pc[j] = "marking"
  /\ \/ SetStatus(about[j], "RENDERING") /\ Goto(j, "saving") /\ UNCHANGED trouble
     \/ Fault("write") /\ Goto(j, "failing") /\ UNCHANGED status
  /\ UNCHANGED <<queueVars, deleted, look, art, posted, batchVars, request, about, got,
                 historyVars, settled>>

\* The images are fetched, the poster composed and stored under its hash; then READY,
\* with the new artwork unless the loaded row showed this look already. Whatever
\* fails on the way is one exception.
Save(j) ==
  /\ pc[j] = "saving"
  /\ \/ /\ SetStatus(about[j], "READY")
        /\ IF got[j].art = got[j].look
             THEN UNCHANGED art
             ELSE art' = [art EXCEPT ![about[j]] = got[j].look]
        /\ Goto(j, "settling")
        /\ UNCHANGED trouble
     \/ Fault("write") /\ Goto(j, "failing") /\ UNCHANGED <<status, art>>
  /\ UNCHANGED <<queueVars, deleted, look, posted, batchVars, request, about, got,
                 historyVars, settled>>

\* markFailed: its own failure is swallowed.
MarkFailed(j) ==
  /\ pc[j] \in {"failing", "rejecting"}
  /\ \/ SetStatus(about[j], "FAILED") /\ UNCHANGED trouble
     \/ Fault("write") /\ UNCHANGED status
  /\ Goto(j, IF pc[j] = "failing" THEN "settlingFailed" ELSE "settlingRejected")
  /\ UNCHANGED <<queueVars, deleted, look, art, posted, batchVars, request, about, got,
                 historyVars, settled>>

\* Seeded fault: only successes are counted towards the total.
LandedCompleted(b) == b.completed

\* What has landed of the batch, well or not.
Landed(b) == b.completed + b.failed

Total == Cardinality(Members)

Advance(b, outcome) ==
  LET counted == IF outcome = "completed" THEN [b EXCEPT !.completed = @ + 1]
                                          ELSE [b EXCEPT !.failed = @ + 1]
  IN IF Landed(counted) < Total
       THEN counted
       ELSE [counted EXCEPT !.state = IF counted.completed > 0 THEN "COMPLETED" ELSE "FAILED"]

\* settle(): increment, read back and close in one transaction that holds the row;
\* its failure is swallowed.
Settle(j) ==
  /\ pc[j] \in {"settling", "settlingFailed", "settlingRejected"}
  /\ \/ /\ batch' = Advance(batch, IF pc[j] = "settling" THEN "completed" ELSE "failed")
        /\ settled' = [settled EXCEPT ![j] = @ + 1]
        /\ UNCHANGED trouble
     \/ Fault("write") /\ UNCHANGED <<batch, settled>>
  /\ Goto(j, IF pc[j] = "settlingFailed" THEN "throwing" ELSE "returning")
  /\ UNCHANGED <<queueVars, rowVars, queued, request, about, got, historyVars>>

Finish(j) ==
  /\ \/ pc[j] = "returning" /\ Succeed(j)
     \/ pc[j] = "throwing" /\ Fail(j)
  /\ Goto(j, "idle")
  /\ got' = [got EXCEPT ![j] = None]
  /\ UNCHANGED <<rowVars, batchVars, request, about, historyVars, settled, trouble>>

Crash(j) ==
  /\ Fault("crash")
  /\ WorkerDies(j)
  /\ Goto(j, "idle")
  /\ got' = [got EXCEPT ![j] = None]
  /\ UNCHANGED <<rowVars, batchVars, request, about, historyVars, settled>>

\* The stalled-job check gives the job to another worker.
Resume(j) ==
  /\ Reclaim(j)
  /\ UNCHANGED <<rowVars, batchVars, request, handlerVars, historyVars, settled, trouble>>

Handle(j) ==
  \/ Start(j) \/ Load(j) \/ Mark(j) \/ Save(j) \/ MarkFailed(j) \/ Settle(j)
  \/ Finish(j) \/ Resume(j)

CreativeNext ==
  \/ CreateBatch \/ QueueBatch
  \/ \E r \in Requests : Review(r)
  \/ \E c \in Reviewed : BulkApprove(c) \/ BulkReject(c)
  \/ \E j \in Jobs : Handle(j) \/ Crash(j)

CreativeSpec == CreativeInit /\ [][CreativeNext]_creativeVars

-----------------------------------------------------------------------------
\* A batch is closed as soon as every creative in it has landed, well or not, and
\* before that only if some render was settled again: after an edit, a re-render or
\* the death of a worker (render.handler.ts:183 "close it once everything has landed").
BatchEndsWithItsRenders ==
  LET landed == \A c \in Members : \E j \in Jobs : about[j] = c /\ settled[j] > 0
      again == \E j \in Jobs : settled[j] > (IF j \in Creating THEN 1 ELSE 0)
  IN /\ Members # {} /\ landed => batch.state \in {"COMPLETED", "FAILED"}
     /\ batch.state \in {"COMPLETED", "FAILED"} => landed \/ again

\* A creative is handed to the publisher twice only when two requests to publish it
\* raced; no sequence of edits, re-renders, reviews and renders in between leads there
\* (creative-review.controller.ts:219 "Publishing twice is not idempotent").
OnePostUnlessRaced == \A c \in Creatives : count[c] > 1 => c \in raced

\* What is handed to the publisher, its words, template, ratio and artwork, is what an
\* approval was given to as it stood, unless an edit, a re-render or a render came between
\* the two statements of the approval: every change in between of another approval takes
\* that approval away (creatives.controller.ts:467 "Approval does not survive an edit").
PublishedWasApproved ==
  \A c \in Creatives : \A p \in posts[c] : p \in approved[c] \/ c \in raced

\* Nothing goes out twice, and nothing that was not approved.
PublicationsSound == OnePostUnlessRaced /\ PublishedWasApproved

\* The caption is composed of the words its artwork shows
\* (creative-review.controller.ts:194 "composed from the same frozen snapshot the poster
\* was rendered from").
WordsMatchArtwork == \A c \in Creatives : \A p \in posts[c] : p.look.words = p.art.words
=============================================================================
