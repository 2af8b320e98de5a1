# A formal model of the campaign platform

The repository is a multi-tenant marketing platform: a Fastify/Nest API (`apps/api`), a
background worker (`apps/worker`), shared packages (`packages/*`) and a web client
(`apps/web`). This directory models its stateful core in TLA+, checks the models with TLC on
small instances, and proves the most important results with TLAPS for every value of the
constants.

## 1. The system

| part | keeps | does | talks to |
|---|---|---|---|
| API controllers (`apps/api/src/modules/*`) | nothing in memory | one transaction, or a few, per request | Postgres, Redis (`Queue.add`), providers |
| Tenant scope (`packages/database`, `common/interceptors`) | a context per request, a setting per transaction | keeps the rows of organisations apart | every query |
| Idempotency interceptor (`common/interceptors`) | `idempotency_key` rows | claims a key, runs the handler, stores or releases | wraps every controller |
| Outbox (`packages/database/src/outbox.ts`) | `outbox_event` rows | `publishEvent` inside the producer's transaction | written by the API |
| Outbox dispatcher (`apps/worker/src/outbox-dispatcher.ts`) | a claimed batch in memory | polls, claims, routes, requeues | Postgres to BullMQ |
| Worker (`apps/worker/src/main.ts`, `queues.ts`) | BullMQ jobs, dead-letter queues | runs handlers, dead-letters failures, drains on SIGTERM | Redis, handlers |
| Schedule poller (`apps/worker/src/schedule-poller.ts`) | `email_send`, `social_post(_target)` rows; a batch in memory | every five seconds: return stale claims, deliver e-mails, publish posts | Postgres, e-mail and social providers |
| Workflow engine (`modules/automation`, `worker/src/workflow`) | `workflow_run(_step)` rows | walks a graph, one job per start, retry or delay | BullMQ, action side effects |
| Meta poller (`apps/worker/src/meta`) | leads, spend records, allowance alerts | intake of leads, spend accumulation, threshold alerts | Postgres, Graph API |
| Report poller (`apps/worker/src/reports`) | report campaigns | queues last month's report of each client as an e-mail campaign | Postgres, the e-mail poller |
| Creative rendering (`worker/src/creative`, `modules/creatives`) | `creative`, `batch_job` | renders one poster per job; review and publication | BullMQ, storage, posts |
| Knowledge indexing (`worker/src/embeddings`, `modules/ai`) | document chunks and counters | chunks and embeds one document per job | BullMQ, embedding provider |
| Review queue (`modules/marketing`, `modules/ai`) | `campaign_asset` rows, stored artwork | generation, drawing, approval, publication | AI providers, storage, posts |
| Advertising (`modules/meta`) | `ad_campaign` rows, external ids | approves within a cap, publishes object by object, switches | Graph API |
| Platform plane (`modules/platform`, `common/entitlements`) | plans, feature assignments, a Redis cache | what an organisation may use | every guarded request |
| Accounts (`modules/auth`, `modules/members`) | memberships, invitations, sessions, lockout counters | who may do what, where | Postgres, Redis |
| Lists and inbox (`common/crud`, `modules/comms`, `apps/web`) | rows of every kind, conversations; the state of a page | pages, searches, threads, badges | Postgres, the browser |
| Hosted forms (`modules/marketing`) | forms, submissions | visitors' submissions become contacts and leads | Postgres, workflows |

The parts interact in four ways: rows in Postgres that one part writes and another polls
(outbox, e-mail, posts), BullMQ jobs (workflow, rendering, indexing), direct calls inside a
request, and transactions that must commit together (`publishEvent`).

What is hard about them: several worker processes poll the same tables; every external call
(provider, Redis) can succeed with its answer lost; a claim is a row update and the work behind
it lives in memory, so a crash or a SIGTERM falls between the two; requests read a row in one
transaction and write it by its id in another; retries, reclaims and clicks repeat work; answers
reach the browser in any order; and the row-level security setting is local to a transaction that
not every query is part of. `PROJECT.json` lists each of these at its line under "hazards", with
the properties aimed at it.

## 2. Modules

| module | models | state and actions |
|---|---|---|
| `JobQueue` | a BullMQ queue as `queues.ts` and `main.ts` configure it | `job`, `made`, `stalls` per job, dead-letter queue and log; `Add`, `Take`, `Succeed`, `Fail`, `WorkerDies`, `Reclaim` |
| `EventRelay` | what the outbox promises | the fate of each event: unborn, held, delivered, acknowledged, parked, lost |
| `Outbox` | outbox rows and dispatchers, on `JobQueue` | row status, attempts and due time; each dispatcher's open claim, batch in memory and failing row |
| `EmailDelivery` | the e-mail half of the poller and `send()` | row status, attempts and staleness; each poller's position in its loop |
| `SocialPublish` | the social half of the poller and the requests on posts | post and target status, deletion, due time; each poller's position, remaining targets |
| `ReportDigest` | the monthly pass of the report poller | campaigns per client and month, settings; each poller's position and the month it began in |
| `Workflow` | run, requests and graph walk, on `JobQueue` | run status, persisted and in-memory completed nodes, one program counter per job |
| `Idempotency` | the interceptor | the key's row, one program counter per request |
| `LeadIntake` | `meta-webhooks.controller.ts` (lead ads) and the Meta poller's first job | status of each event, contacts, leads and auto-replies per submission; each poller's batch and position |
| `HostedForms` | `public-forms.controller.ts`, publication of forms | published and removed forms; each submission with who sent it, contacts by organisation and address, counts |
| `Lockout` | `lockout.service.ts` in front of the credential login | the counter and whether it expires; each sign-in between its check and its count |
| `KnowledgeIndex` | `knowledge.controller.ts` and `embeddings/indexer.ts` | status, chunks and counters of documents and of their base; open transactions of edits and jobs |
| `Allowance` | the Meta poller's second job: `allowance-accumulator.ts`, `allowance-alerts.ts` | what Meta reports per month, the running total and the month it names, ledger, alert records; each worker's pass with what it has read |
| `ReviewQueue` | `review-queue.controller.ts`, generation, `keep`, storage | status, words and picture of each asset, the file at each address, the media library; requests between their read and their write, drawings between provider and row |
| `AdCampaigns` | `ad-campaign.service.ts`, `ad-publish.service.ts`, the allowance gate | review, budget, delivery and ids of the row; the chains of objects on Meta; requests at each call |
| `Entitlements` | `platform.controller.ts`, `entitlements.ts`, `entitlement.service.ts` | status, plan, assignments, the cached snapshot; resolutions and changes under way |
| `Accounts` | `identity.service.ts`, `members.controller.ts`, session pinning | roles, departures, invitations, pinned sessions; requests between their read and their write |
| `CreativePipeline` | batches, edits, reviews and publication of posters, and `render.handler.ts`, on `JobQueue` | status, look (words, template, ratio), artwork and post of each creative, the batch row; requests between read and write; one program counter per job |
| `TenantScope` | tenant context, `withTenantTransaction`, the client extension, the policies, the preflight | role and registry of a deployment; context, connection and stage of each task; setting and mode of each connection; the rows the last statement reached |
| `Listing` | `CrudService.list` and its writers, `useList`, the list page | rows, the search, what the page shows, its cursor and flags; requests and answers in flight |
| `Inbox` | `conversations.controller.ts`, the chat page | messages, read marks, counts, row locks; requests at each statement; the open thread |

`JobQueue` is extended by `Outbox`, `Workflow` and `CreativePipeline`, which drive its operations
from their own actions. `Outbox` instantiates `EventRelay` with a refinement mapping (`fate`). `MC*`
modules give the constants their values for TLC. Four of them put components side by side in one
specification:

| module | extends |
|---|---|
| `MCPollers` | `Outbox`, `SocialPublish`, `ReportDigest` |
| `MCDeduplication` | `Idempotency`, `LeadIntake`, `Lockout`, `HostedForms`, `KnowledgeIndex` |
| `MCTenant` | `Allowance`, `ReviewQueue`, `AdCampaigns`, `Entitlements`, `Accounts` |
| `MCWorkspace` | `TenantScope`, `CreativePipeline`, `Listing`, `Inbox` |

The components there share no variable, so their product would only multiply states; the initial
state chooses the one the behaviour is about and the others rest. Components that do share state
are composed for real: the queue under the three modules that extend it, and the requests with the
workers that interleave with them inside each module.

The theorems are in modules of their own (section 4), which extend the modules they are about:
`JobQueueProofs`, `EmailDeliveryProofs` and `WorkflowProofs` those they are named for, and
`PollersProofs`, `DeduplicationProofs`, `WorkspaceProofs` the components of the MC module of that
name; those of `MCTenant` are divided between `MarketingProofs` (`Allowance`, `ReviewQueue`) and
`OrganisationProofs` (`AdCampaigns`, `Entitlements`, `Accounts`). The proofs of the three modules
that extend `JobQueue` extend `JobQueueProofs` too, and use its lemmas for every step in which the
queue moves.

Each operator named for a function models that function; `PROJECT.json` "map" gives its lines. An
action ends where the code awaits something another process can interleave with: a handler with
three awaited statements is three actions and a program counter. A failing await is an action of
its own, allowed while the bound on faults lasts, so that properties can say how much each fault
may cost. Where two requests that overlap may break a promise, a history variable (`crossed`,
`raced`, `overlaps`, `astray`, `clean`) records the overlap, and the property says that nothing
else breaks it: it does not catch the overlap itself, which the code allows. The notes of the
hazards in `PROJECT.json` say where that is so. Operators whose comment begins "Seeded fault" take no part in the specification:
each is the form a definition would have with a plausible bug, kept to show which property notices
it.

### Abstractions

* All queues are one in `Outbox`; priorities, concurrency, rate limits and retention are left out.
* Time is a flag: a row is due or not, stale or not, and becomes so by an action. That a live
  delivery takes more than five minutes is a fault ("slow"), since the code assumes it away.
* Contents of messages, posts, events and node outputs are not modelled; a body is a model value.
* Providers succeed, refuse, or succeed with the answer lost.
* Batches: `Outbox`, `EmailDelivery` and `LeadIntake` keep their LIMIT; posts are fewer than the
  poller's batch.
* Money in `Allowance` and `AdCampaigns` is a small number and a threshold an amount: rounding to
  percentages is left out. A daily budget counts thirty times against the cap, as in the code.
* The words of an asset are a version number; its picture is an address, which is an asset's and a
  variant's, with the number of the drawing stored there. The look of a poster is the words,
  template and ratio it has, its artwork the look it was rendered from; the runs have one ratio.
* The branch of a condition in `Workflow` is chosen once per run, although a walk that meets the
  node again evaluates it again (`executor.ts:128`, `:338`): what the condition reads is taken not
  to change while the run lasts.
* Requests that read and write in one transaction still read first and write by id: nothing locks
  in between at Postgres' default isolation, so they are two actions, except where one statement
  decides.
* A statement in `TenantScope` is told by the organisations whose rows it names, and the worst one
  names all; the policies are taken to be on every table the registry lists.
* A search in `Listing` finds a set of rows, which an update changes.

## 3. What is checked

| run | instance | shows |
|---|---|---|
| `pollers` | two workers: three events (routed, known without a route, unknown name) in batches of two with two attempts; or one post for two channels with requests that expedite and delete it; or the reports of two clients over two months. One fault of any kind each | no row in two hands; loss bounded by batch size times faults; an extra post needs a cause, and what is reported as published was; a removed post is published, and its row written over, only by workers that had it in hand; a second report needs two workers in the check at once; the outbox implements `EventRelay`; events, posts and reports settle |
| `email` | two pollers (both, one or none with an API key), two messages, a batch of two, two attempts, one fault of any kind, any number of stops and restarts | one extra copy per fault at most; rows say what happened; campaign counters follow the rows; every message ends |
| `workflow` | three graphs over two actions, a condition and a delay; pausing; one retry or one fault of any kind | delays hold; no action is repeated without a cause and no verdict more often than it has causes; success means that the actions ran; the run settles unless its job was dropped, and the ways a job can be dropped are listed |
| `deduplication` | three requests with one key and two bodies; two pollers and two submissions from Meta; two submissions to two forms under one slug, by a visitor or a member; three sign-ins against three attempts; two indexers, two edits and three documents | one request at a time under a key, reruns need faults, a replay answers the same body; a lead is doubled only by overlapping workers; a submission to a form is captured whole, that of a member is lost only by a race or a failure; guesses are bounded; search finds what the documents say and counters stay honest; events, locked accounts and documents settle |
| `tenant` | two requests at a time on two assets, on an ad campaign with a cap of forty, on two features of two plans from a trial of the smaller one on, on two members; two workers on the ad allowance of three months, with a fault each (four on assets) | what an audience sees was approved, also where a drawing was kept for another asset, an approval is worth one post, artwork is kept; spend on Meta stays within the cap and chains are accounted for; alerts go out once and months are closed; a stale feature set has a cause; an owner remains, an invitation is used once |
| `workspace` | two tasks of two organisations on two connections, over deployments of any role; a batch of one poster that is edited, reviewed and published, with three requests and faults, or of two of which one is edited, with two; a list of two rows of one time in pages of one, with a search; two conversations, two messages, three requests | no statement reaches another organisation's rows, no view-only session writes; a batch closes when everything in it has landed, one post per poster, as it was approved, unless requests raced; an undisturbed list is in order and misses nothing that was found all along; badges count and threads are of their conversation |
| `outbox_crash`, `job_queue_dlq`, `social_republish`, `creative_words`, `idempotency_rls`, `hosted_form` | the same modules, alone and small | the contradictions described below |

Why the bounds are enough: two processes are what every race in the code needs (a claim is one
conditional update, so a third competitor meets the same two outcomes); three requests with one
key are one more than the two that race, to come after them; one row more than a batch exercises
the LIMIT, and two rows of one time the tie-break of a cursor; two attempts distinguish "again"
from "for the last time"; each kind of fault occurs at every step at which the code can meet it.
Three months let one pass without any reconciliation. Two organisations and two connections are
what it takes to find the setting of another on a connection; the proof covers the rest. Requests
and faults are bounded together where a liveness check over their product, or the product itself,
is too large; the safety properties there are stated with a budget (`1 + faults + clicks`) where
one holds, so that the instance still tells one repetition per cause from more, and the proofs
extend them to any number of causes. The symmetry sets hold requests,
workers, assets, tasks and conversations, which nothing tells apart; no run with a temporal
property other than an action property uses one.

Deadlock checking is off where the system may stop: when every event, message, post, run or
request has settled nothing has to happen.

### Fairness

* A poller or dispatcher that is up keeps ticking: its loop re-arms a timer after every tick,
  failed ones included (`outbox-dispatcher.ts`, `schedule-poller.ts`, `meta/poller.ts`,
  `reports/poller.ts`, each in start()). In `EmailDelivery` and `SocialPublish` this is strong
  fairness, which says that deployments do not stop a process before each of its ticks for ever;
  everything else is weak.
* Time passes: available_at, scheduled_at and the five-minute window elapse, and Redis drops an
  expired key.
* A process that is stopping exits, and one that is down is started again. The restart is the
  deployment's, an assumption: the repository has no such configuration.
* A request or a tick whose process lives reaches its next step: no call of it hangs for ever.
* In `Workflow` and `KnowledgeIndex` a worker that is up takes what waits, goes on with what it
  took, and BullMQ's stalled-job check runs.
* No provider has to answer, no fault has to happen, nobody has to click.

The liveness properties are of the form `[]<>Done`. Requests and faults are bounded and Done then
stays true until the next of them, so this says that whatever was begun comes to its end.

### Contradictions between the code and what it says

Recorded under "findings", each with a run that shows it:

1. `outbox_crash`: the claim commits DISPATCHED before anything is relayed, so a crash (or an
   orderly SIGTERM, which does not wait for the tick) loses the batch. `outbox.ts:121` says such
   rows stay PENDING.
2. `job_queue_dlq`: `QUEUE_POLICIES` declares attempts, no producer passes them, and the
   dead-letter listener compares with the declared number: a failed job of a queue that declares
   more than one attempt is never dead-lettered.
3. `social_republish`: "publish now" resets targets that are already published.
4. `creative_words`: approval asks for some artwork, not for that of the current words; an edited
   poster that is approved before it is rendered again is published with new words and old artwork.
5. `idempotency_rls`: the interceptor queries outside a tenant transaction; under the role the API
   insists on, every request with a key is answered 409.
6. `hosted_form`: `submit` passes the form's organisation to the transaction, but the client's
   extension reads the request's own context, which a visitor does not have: every anonymous
   submission is refused.

Others are visible in the exceptions that properties name, or were met while reading; none has a
run of its own:

* A message or a post may go out once more per fault where comments at `schedule-poller.ts:134`
  and `:226` say never. A workflow action may repeat where `queues.ts:186` says that retries do not
  duplicate actions, and no number per cause bounds it: after one retry of a run that is still
  under way the two executions overwrite each other's completed nodes, and in a graph of two
  actions before a last delay the second action runs three times (retry while the first execution
  waits, let the second persist its first action over the record of both, and let the continuation
  start the graph over). `RepeatsNeedCause` therefore speaks of runs without any cause. A
  stored response that cannot be written releases the key where `idempotency.interceptor.ts:28`
  says exactly once. `send()` checks no status, so that two clicks queue every recipient twice; it
  also queues contacts that have opted out, although its comment at `:167` excludes them.
* Two pollers may capture one submission from Meta twice, and a failed lead event is never tried
  again. Two submissions to a hosted form that race for one contact lose one of them. The slug of
  a form is unique within its organisation only, and forms of two organisations under one slug
  shadow each other.
* An alert whose notification failed stays recorded and is never sent; what Meta restates after a
  month was closed never reaches its ledger. Two workers can both create the report of a month.
* `settle(null)` for a deleted creative does not advance its batch, although `render.handler.ts:77`
  says that it does. Nothing sets a creative PUBLISHED.
* A redraw writes over the file that a post already shows: an audience may see a picture nobody
  approved. A drawing of one asset may be kept as another (`media.controller.ts:147`), which then
  shows the same address: a redraw of the first changes the picture of the second, which is
  approved and was never touched. A choice made beside a drawing can bring back a kept picture that
  has been kept again meanwhile. Activating an ad never activates its ad set (`ad-publish.service.ts:162`).
* An owner who transfers the ownership to himself, or two requests about members that overlap,
  leave an organisation without an owner (`identity.service.ts:197` says never). `setFeatures`
  disables only features that have a row. A crash between INCR and EXPIRE can lock an account for
  good. A process that dies holding an idempotency key leaves it refused for good.
* The condition of a cursor replaces that of the search, since both are written to `OR`: from its
  second page on a search is unfiltered (`crud.service.ts:103`, `:124`). An older answer may
  overwrite a newer one in `useList`, and a list is reloaded after a change with the search of an
  earlier rendering. The chat page shows a sent or an older message in whichever thread is open,
  and marks messages read that it has not shown.
* `publishEvent` without organisation and context throws, though `outbox.ts:39` offers it for
  platform events.

The guarantees of the interceptor in `deduplication` suppose a role that row-level security does
not bind; on the role the API insists on, item 5 comes first.

## 4. What is proved

The proofs hold for any set of jobs and policies, any number of workers, requests and people, of
events, messages, posts, submissions, documents, assets, creatives and rows, any graph, batch, page
and limit, any spend and budget, and any number of faults, retries and races.

| module | about | theorems that state a property of a run | others |
|---|---|---|---|
| `JobQueueProofs` | `JobQueue` | | types, `StartsBounded`, `DeadLettersAreFinal`, `FinishedIsFinal` |
| `PollersProofs` | `Outbox` | `DisjointBatches`, `LossBounded`, `RelaySpec` | types, `ParkedWhenExhausted`, `StartsBounded` |
| | `SocialPublish` | `PostsSound`, `RemovalHolds` | types (in `SocialInv`) |
| | `ReportDigest` | `SecondReportNeedsRace` | types (in `DigestInv`) |
| `EmailDeliveryProofs` | `EmailDelivery` | `EmailTypeOK`, `EmailsSound` | `Budgets` |
| `WorkflowProofs` | `Workflow` | `WorkflowTypeOK`, `VerdictsSound`, `DelayHeld`, `RepeatsNeedCause` | |
| `DeduplicationProofs` | `Idempotency` | `OneAtATime`, `RerunsNeedFaults`, `ReplayIsFaithful` | types, `KeyNotBurnt` |
| | `LeadIntake` | `DuplicatesNeedOverlap` | types (in `LeadInv`) |
| | `Lockout` | `GuessesBounded` | types (in `LockInv`) |
| | `HostedForms` | `FormsSound` | types |
| | `KnowledgeIndex` | `IndexSound` | types |
| `MarketingProofs` | `Allowance` | `AlertsAtMostOnce`, `ShownMonthsAreClosed` | types, `FiguresOfTheirMonth` |
| | `ReviewQueue` | `AssetWasApproved`, `ReviewSound`, `ArtworkKept` | types |
| `OrganisationProofs` | `AdCampaigns` | `AdsSound` | types |
| | `Entitlements` | `FeaturesSound` | types |
| | `Accounts` | `MembersSound` | types |
| `WorkspaceProofs` | `TenantScope` | `Isolated` | types |
| | `CreativePipeline` | `BatchEndsWithItsRenders`, `PublicationsSound` | types |
| | `Inbox` | `InboxSound` | types |
| | `Listing` | `ListingSound` | types |

So every safety property and every action property that a passing run checks is also proved, but for
the type invariants of the four MC modules, which put together those of the components that are.

Hardly any of these properties is inductive. What each proof adds:

* `StartsBounded`: `OpenJobs` ties the number of starts to the number of stalls for jobs that are
  still open and bounds the rest.
* The outbox: `OutboxInv` says that a locked row is PENDING and due, that a row is in one
  dispatcher's hands at most whether locked, in a batch or failing, that what is in hands has been
  claimed between once and `MaxAttempts` times, and that a dispatcher that is down holds nothing.
  `RelaySpec`, the refinement of `EventRelay` under the mapping `fate`, follows step by step from it.
* `LossBounded` is a budget (`LossInv`): the rows that are lost, and a batch for each process that
  was told to stop and may still lose its own, are at most a batch for each fault.
* E-mail: `EmailInv` says where in its loop a poller can be with which row. On it stand three
  budgets. For each message, the copies that went out, one if its row is owed an attempt or was
  spared one, and the workers that carry it to the provider are at most one more than the faults
  (`CopyBudget`); once the attempts are used up, each further one is paid for by a fault
  (`RetryBudget`); and the counter of a campaign, with the workers about to count and those about
  to make a row SENT, is off by one for each fault at most (`CountBudget`). The budgets hold
  together or not at all: a step moves a claim from the queue to a worker, on to the provider or
  back, and only a fault adds one.
* Workflow: `WorkflowInv` says what a handler knows at each of its lines. `TrailInv` says that
  wherever somebody stands or may resume (a handler, a job's payload, a failed step, a request
  before its enqueue), the walk leads there over nodes whose actions took effect: some set of such
  nodes has the start and, with each of its nodes, the next one or this one. It is kept by a step
  along the graph, and at the end of the graph it says that everything on the walk is done, without
  induction over the graph. `BudgetInv` counts verdicts given and jobs or requests that may still
  give one against creation, retries and faults. Without retries and faults it leaves one of these
  at a time, from which `CalmInv` shows that what the one handler has persisted is what has
  happened: no action outside the completed nodes, no delay inside them that is not over, and no
  handler past one that is not.
* Posts: a worker that has seen nothing fail has left no channel out of the round it is in, every
  one of which is still to be tried or has been live (`HonestInv`), so that a success is shown of
  what was published everywhere. `PaidFor` is a budget again, per post and channel: how often it
  went live and may still go live without another fault or request (the post can be claimed, a
  request is about to make it so, or a worker may publish it) is one more than the faults and
  requests at most.
* Reports: where no two polls overlapped in the check of a client and month, one poller at most is
  in it, and there is no campaign while it is about to write one (`AloneInTransaction`).
* The interceptor: `KeyInv` says that one request at most is between its insert and its last
  statement and the row is its own, that a stored response belongs to an operation that ran with
  the row's body, and that every operation that ran has been paid for by a fault, all but one while
  a row stands.
* Leads: every message to a sender is owed to a lead of its own (`RepliesOwed`), and a submission
  that two workers never processed at once has one worker and one lead at most, and none while that
  worker has looked and has yet to save one (`AloneOnce`).
* The lockout: a wrong password is in the counter, on its way there, or was kept out of it; and
  the wrong passwords answered, with the sign-ins that were let in, are below the limit plus those
  that raced or were kept from being counted (`GuessesCounted`).
* Forms: each submission under way fits what it has found and created, and one that is refused has
  a reason (`SubmissionsFit`); two that deal with one contact at a time know it (`RivalsRaced`); the
  count of a form is the number of its submissions that were captured (`SubmitsCounted`).
* The index: a document has the chunks of one indexing at most and counts all of them or none
  (`DocFits`); while its writers did not overlap it has one at most, which has seen the chunks it is
  about to delete (`Undisturbed`); the counter of documents is right while writers of one document
  did not overlap, and that of chunks while no two transactions at all did (`DocsCounted`,
  `ChunksCounted`). The sum over the documents is the size of a set of numbered chunks, which is
  counted one document at a time without induction (`CountAdds`).
* The allowance has a part for each: two workers are never about to announce the same threshold of
  the same month, and nobody has announced what a worker is about to (`AlertsInv`); a sum between
  its read and its write is a figure Meta reported for the month it will be written to
  (`FiguresInv`); and, as long as no passes have overlapped, the month to close is the one the total
  is about, and it has its row before the total moves (`ClosingInv`). That a set of thresholds has a
  lowest one comes from the well-foundedness of < on the naturals.
* The review queue: an invariant per asset, each part under the overlaps it cannot survive. While no
  publications overlapped there is one at most, and one approval more than there are posts while
  the asset is approved or on its way (`Accounted`); while no approval overlapped a new wording,
  what is approved, being published or posted are words an approval had read (`Worded`); while no
  drawings overlapped and none was forced an asset that has a picture is not drawn, and its posts
  show, of its own drawings, those an approval had read (`DrawnOnce`, `Shown`); what it shows of
  another asset's was vetted when it was kept and stays so while that asset is not drawn over, and
  it is in the media library, whose drawings are of assets that have a picture (`Foreign`,
  `Gallery`); a choice brings nothing that the asset has not (`Chosen`, `ChosenAlone`); artwork that
  nobody approved in bulk has a picture from its approval to its posts (`HasArtwork`); and while no
  two keeps of a picture overlapped one asset at most has kept it (`Keeper`, `Kept`).
* Ads: while decisions did not overlap, each finds the status it needed (`ApprovalInv`) and, without
  edits beside it, the budget (`CapInv`); a chain on Meta is the row's, or that of the one
  publication in progress, or was abandoned (`ChainInv`); and only the chain of the row was ever
  switched on (`RunInv`).
* Features: a resolution that nothing has overtaken holds what it has read so far, the organisation
  and then the assignments, as they are (`ReadsAreCurrent`), and a set about to be stored is closed under what its features need
  (`WantedIsClosed`).
* Members: while changes of the membership did not overlap, what they found is so still, somebody
  owns the organisation beside who leaves it, and who takes it over is a member (`OwnerInv`);
  requests about invitations that did not overlap are about pending ones, which let nobody in
  (`InvitationInv`); nobody leaves an organisation while going to it (`SessionInv`).
* Creatives: `CreativeInv` fits jobs, requests and rows together (a job that exists is about a
  member of the batch; every member has a look, a handler that writes has loaded one, and what is
  about to be approved or published has artwork: `LooksFit`). `PublishInv` says
  that, unless two requests raced, one request at most is between its check and its publication and
  then nothing was published; `ApprovalInv` that what is approved, about to be published or posted
  is, in words, template, ratio and artwork, what an approval was given to; `BatchInv` that the counters of the batch are at least the number of
  creatives that have landed, and equal to it until some render settles again.
* Tenant scope: `ScopeInv` adds what the three layers rest on: a process that is up runs under a
  role the policies bind (`RunsEnforced`), a transaction has a connection to itself
  (`OwnConnection`), a connection in the pool is bound to nobody and that of a bound transaction to
  its own organisation (`Bound`), and a view-only transaction is READ ONLY before it is bound
  (`Limited`). The extension of the client is not needed for it: the policies alone suffice, as
  `tenant-scope.ts` says of raw SQL.

* The inbox: what a request has written so far fits its statement and its lock (`CallsFit`,
  `LocksFit`), and no two have written one message (`OwnMessages`), from which a badge counts what is
  unread whenever its row is free. While nothing was sent and no older page asked for across an
  opening, what is sent comes after the thread and what is older before it (`ThreadFits`).
* Lists: a set of rows has its order, without induction, because the number of rows before a row is
  an injection into an interval of its size (`Ranked`). An answer has the rows after its cursor in
  order, and every steady row on the page, after it, or before it began (`FlightsFit`); what is
  shown ends at the cursor, and every steady row is shown or comes after it (`ShownFits`). A request
  that is alone is the only one and for the search that is, so that an answer to it continues what
  is shown, and a first page has what that search found when it was fetched (`Begun`).

Each of these invariants was checked by TLC on the instance of its component's run, or a larger
one, before it was proved. `StartsBounded`, `DeadLettersAreFinal`, `ParkedWhenExhausted`,
`KeyNotBurnt` and `FiguresOfTheirMonth` are proved and not among the properties of a run, which
their proofs make superfluous.

The assumptions are the named ASSUMEs of the modules, which the runs evaluate. They say what the
constants are: sets of identifiers, finite where the code's are and a count is taken of them
(pollers, messages, the nodes of a graph, the creatives of a batch, the rows of a list); numbers of
jobs, times and ids that are natural numbers; values for "nothing" that are none of the others;
bounds that are natural numbers. `Workflow` adds that every payload of its queue names a
tenant (`Tenantless = {}`), which its two producers see to.

Only model-checked are:

* liveness (`PollersSettle`, `EmailsSettle`, `RunSettles`, `DeduplicationSettles`), which with
  ENABLED and fairness is out of the prover's reach;
* the type invariants of `MCPollers`, `MCDeduplication`, `MCTenant` and `MCWorkspace`, as said above.

Nothing is proved by induction over data, and no module that is proved about uses a RECURSIVE
operator.

## 5. What is not modelled

`PROJECT.json` lists every component with its status. Left out, and why:

* The web client apart from lists and the chat page. It is nearly half of the repository's 80
  thousand lines, and is markup, forms and charts around requests that are modelled in the API;
  with seeds, schemas, registries and pixel arithmetic it is why the map names about a tenth of
  the lines. A state machine of a form that waits for an answer would restate the form.
* Agent runs: the controller writes PENDING rows and nothing executes them. The chatbot: its
  engine is called by nobody. WhatsApp events: recorded and never consumed. The realtime gateway:
  it refuses every connection, because it resolves no principal.
* CRM conversions, tickets, notes, products, templates, settings and notifications: single
  transactions over a few rows, whose lists are `Listing`'s.
* The creative engine, contracts, logging, error mapping, health checks, CI: nothing that changes
  state over time.
* Two properties the code may deserve and none of these modules can state: that a recipient gets a
  campaign once however often it is sent (rows of `EmailDelivery` are per click), and that a
  closed month says what the month cost in the end (`Allowance` knows that it does not).

Left to do, in this order:

1. Recipients in `EmailDelivery`, so that two clicks on `send()` are told apart from two messages,
   and the report poller's campaign in the same model.
2. Platform administration beyond features: limits under concurrency, cloning, fees.
3. Proofs that the abstract promises of more components than the outbox are implemented, as
   `RelaySpec` is: an e-mail's life and a run's, each under its budget.
