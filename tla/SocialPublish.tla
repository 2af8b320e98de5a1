---------------------------- MODULE SocialPublish ----------------------------
(***************************************************************************)
(* Scheduled social posts: the requests that create, expedite and delete   *)
(* them (apps/api/src/modules/social/social.controller.ts) and the         *)
(* schedule pollers, one per worker process, that publish them to each of  *)
(* their targets (apps/worker/src/schedule-poller.ts).                     *)
(***************************************************************************)
EXTENDS Naturals, FiniteSets

CONSTANTS
  Workers,          \* the worker processes
  Posts,            \* the SocialPost rows
  Targets,          \* the accounts every post goes to
  NoPost,           \* no post
  SocialFaults,     \* the kinds of fault that happen
  MaxSocialTrouble  \* bound: how many "publish now" requests and faults happen in one behaviour

SocialFaultKinds == {"crash", "ceiling", "read", "answer", "write", "slow"}

ASSUME SocialAssumption ==
  /\ NoPost \notin Posts
  /\ Targets # {}
  /\ IsFiniteSet(Workers)
  /\ SocialFaults \subseteq SocialFaultKinds
  /\ MaxSocialTrouble \in Nat

VARIABLES
  post,         \* [Posts -> PostStatus]: social_post.status, "absent" before the insert
  deleted,      \* [Posts -> BOOLEAN]: deleted_at is set
  dueNow,       \* [Posts -> BOOLEAN]: scheduled_at <= now
  stale,        \* [Posts -> BOOLEAN]: the post's updated_at is more than five minutes ago
  target,       \* [Posts -> [Targets -> TargetStatus]]: social_post_target.status
  notices,      \* [Posts -> SUBSET Level]: levels of the notifications about the post
  clicking,     \* posts that an unfinished publishNow() request has found
  removing,     \* posts that an unfinished removePost() request has found
  socialMode,   \* [Workers -> SocialMode]: the process and its poller's `stopped` flag
  pc,           \* [Workers -> Step]: where publishDueSocialPosts() is
  todo,         \* [Workers -> SUBSET Posts]: candidates the loop has yet to reach
  at,           \* [Workers -> Posts or NoPost]: the post the loop is at
  left,         \* [Workers -> SUBSET Targets]: targets of it still to publish to
  current,      \* [Workers -> SUBSET Targets]: the target whose outcome is to be written
  anyFailed,    \* [Workers -> BOOLEAN]
  published,    \* [Posts -> [Targets -> Nat]]: history, times the post went live there
  clicks,       \* history: publishNow() requests so far
  held,         \* [Posts -> SUBSET Workers]: history, who was at the post when it was removed
  listed,       \* [Posts -> SUBSET Workers]: history, who had yet to reach it then
  revived,      \* history: posts that a publishNow() wrote on after their removal
  socialFaults  \* history: faults so far

postVars == <<post, deleted, dueNow, stale, target>>
removalVars == <<held, listed, revived>>
requestVars == <<clicking, removing, clicks, removalVars>>
loopVars == <<pc, todo, at, left, current, anyFailed>>
socialVars == <<postVars, requestVars, loopVars, notices, socialMode, published, socialFaults>>

PostStatus == {"absent", "SCHEDULED", "PUBLISHING", "PUBLISHED", "FAILED", "DELETED"}
TargetStatus == {"SCHEDULED", "PUBLISHED", "FAILED"}
Level == {"INFO", "ERROR"}
SocialMode == {"up", "stopping", "down"}
Step ==
  {"idle", "polling", "loop", "claimed", "targets", "live", "failed", "unavailable", "notifying"}

PublishTypeOK ==
  /\ post \in [Posts -> PostStatus]
  /\ deleted \in [Posts -> BOOLEAN]
  /\ dueNow \in [Posts -> BOOLEAN]
  /\ stale \in [Posts -> BOOLEAN]
  /\ target \in [Posts -> [Targets -> TargetStatus]]
  /\ notices \in [Posts -> SUBSET Level]
  /\ clicking \subseteq Posts
  /\ removing \subseteq Posts
  /\ socialMode \in [Workers -> SocialMode]
  /\ pc \in [Workers -> Step]
  /\ todo \in [Workers -> SUBSET Posts]
  /\ at \in [Workers -> Posts \cup {NoPost}]
  /\ \A w \in Workers : pc[w] \notin {"idle", "polling", "loop"} <=> at[w] # NoPost
  /\ left \in [Workers -> SUBSET Targets]
  /\ \A w \in Workers : pc[w] = "notifying" => left[w] = {}
  /\ current \in [Workers -> SUBSET Targets]
  /\ anyFailed \in [Workers -> BOOLEAN]
  /\ published \in [Posts -> [Targets -> Nat]]
  /\ clicks \in 0..MaxSocialTrouble
  /\ socialFaults \in 0..MaxSocialTrouble

RemovalTypeOK ==
  /\ held \in [Posts -> SUBSET Workers]
  /\ listed \in [Posts -> SUBSET Workers]
  /\ revived \subseteq Posts

SocialTypeOK == PublishTypeOK /\ RemovalTypeOK

SocialInit ==
  /\ post = [p \in Posts |-> "absent"]
  /\ deleted = [p \in Posts |-> FALSE]
  /\ dueNow = [p \in Posts |-> FALSE]
  /\ stale = [p \in Posts |-> FALSE]
  /\ target = [p \in Posts |-> [t \in Targets |-> "SCHEDULED"]]
  /\ notices = [p \in Posts |-> {}]
  /\ clicking = {}
  /\ removing = {}
  /\ socialMode = [w \in Workers |-> "up"]
  /\ pc = [w \in Workers |-> "idle"]
  /\ todo = [w \in Workers |-> {}]
  /\ at = [w \in Workers |-> NoPost]
  /\ left = [w \in Workers |-> {}]
  /\ current = [w \in Workers |-> {}]
  /\ anyFailed = [w \in Workers |-> FALSE]
  /\ published = [p \in Posts |-> [t \in Targets |-> 0]]
  /\ clicks = 0
  /\ held = [p \in Posts |-> {}]
  /\ listed = [p \in Posts |-> {}]
  /\ revived = {}
  /\ socialFaults = 0

SocialFault(kind) ==
  /\ kind \in SocialFaults
  /\ clicks + socialFaults < MaxSocialTrouble
  /\ socialFaults' = socialFaults + 1

SetPost(p, to) ==
  /\ post' = [post EXCEPT ![p] = to]
  /\ stale' = [stale EXCEPT ![p] = FALSE]

SetTarget(p, t, to) == target' = [target EXCEPT ![p][t] = to]

-----------------------------------------------------------------------------
(* Requests and the clock. A request reads the post and then writes it, in   *)
(* one transaction that locks nothing before the write.                      *)

\* createPost(): a post due now or later, with its targets.
CreatePost(p) ==
  /\ post[p] = "absent"
  /\ SetPost(p, "SCHEDULED")
  /\ \E now \in BOOLEAN : dueNow' = [dueNow EXCEPT ![p] = now]
  /\ UNCHANGED <<deleted, target, requestVars, loopVars, notices, socialMode, published,
                 socialFaults>>

\* scheduled_at passes.
SocialElapse(p) ==
  /\ post[p] # "absent"
  /\ ~ dueNow[p]
  /\ dueNow' = [dueNow EXCEPT ![p] = TRUE]
  /\ UNCHANGED <<post, deleted, stale, target, requestVars, loopVars, notices, socialMode,
                 published, socialFaults>>

\* publishNow() finds the post, whatever its status.
FindToPublish(p) ==
  /\ post[p] # "absent"
  /\ ~ deleted[p]
  /\ clicks + socialFaults < MaxSocialTrouble
  /\ clicks' = clicks + 1
  /\ clicking' = clicking \cup {p}
  /\ UNCHANGED <<postVars, removing, removalVars, loopVars, notices, socialMode, published,
                 socialFaults>>

\* ... and makes it and all its targets SCHEDULED again.
PublishNow(p) ==
  /\ p \in clicking
  /\ clicking' = clicking \ {p}
  /\ SetPost(p, "SCHEDULED")
  /\ dueNow' = [dueNow EXCEPT ![p] = TRUE]
  /\ target' = [target EXCEPT ![p] = [t \in Targets |-> "SCHEDULED"]]
  /\ revived' = IF deleted[p] THEN revived \cup {p} ELSE revived
  /\ UNCHANGED <<deleted, removing, clicks, held, listed, loopVars, notices, socialMode, published,
                 socialFaults>>

\* removePost() finds the post, whatever its status.
FindToRemove(p) ==
  /\ post[p] # "absent"
  /\ ~ deleted[p]
  /\ removing' = removing \cup {p}
  /\ UNCHANGED <<postVars, clicking, clicks, removalVars, loopVars, notices, socialMode, published,
                 socialFaults>>

RemovePost(p) ==
  /\ p \in removing
  /\ removing' = removing \ {p}
  /\ SetPost(p, "DELETED")
  /\ deleted' = [deleted EXCEPT ![p] = TRUE]
  /\ held' = [held EXCEPT ![p] = {w \in Workers : at[w] = p}]
  /\ listed' = [listed EXCEPT ![p] = {w \in Workers : p \in todo[w]}]
  /\ UNCHANGED <<dueNow, target, clicking, clicks, revived, loopVars, notices, socialMode,
                 published, socialFaults>>

\* Five minutes pass without a write to the post; writes to its targets do not count.
\* While a worker is still publishing it that is a fault.
Ages(p) ==
  /\ post[p] = "PUBLISHING"
  /\ ~ stale[p]
  /\ IF \E w \in Workers : at[w] = p THEN SocialFault("slow") ELSE UNCHANGED socialFaults
  /\ stale' = [stale EXCEPT ![p] = TRUE]
  /\ UNCHANGED <<post, deleted, dueNow, target, requestVars, loopVars, notices, socialMode,
                 published>>

-----------------------------------------------------------------------------
(* One tick of a poller.                                                   *)

\* reclaimStaleClaims: the first thing a tick does.
ReclaimPosts(w) ==
  /\ socialMode[w] = "up"
  /\ pc[w] = "idle"
  /\ pc' = [pc EXCEPT ![w] = "polling"]
  /\ LET abandoned == {p \in Posts : post[p] = "PUBLISHING" /\ stale[p]}
     IN /\ post' = [p \in Posts |-> IF p \in abandoned THEN "SCHEDULED" ELSE post[p]]
        /\ stale' = [p \in Posts |-> IF p \in abandoned THEN FALSE ELSE stale[p]]
  /\ UNCHANGED <<todo, at, left, current, anyFailed, deleted, dueNow, target, requestVars,
                 notices, socialMode, published, socialFaults>>

\* The candidates of a tick; the batch is larger than the modelled posts.
Candidates == {p \in Posts : post[p] = "SCHEDULED" /\ dueNow[p] /\ ~ deleted[p]}

Poll(w) ==
  /\ pc[w] = "polling"
  /\ todo' = [todo EXCEPT ![w] = Candidates]
  /\ pc' = [pc EXCEPT ![w] = IF Candidates = {} THEN "idle" ELSE "loop"]
  /\ UNCHANGED <<at, left, current, anyFailed, postVars, requestVars, notices, socialMode,
                 published, socialFaults>>

\* Seeded fault: the claim is not conditional on SCHEDULED.
ClaimAnyway(w, p) ==
  /\ pc[w] = "loop"
  /\ p \in todo[w]
  /\ todo' = [todo EXCEPT ![w] = @ \ {p}]
  /\ SetPost(p, "PUBLISHING")
  /\ at' = [at EXCEPT ![w] = p]
  /\ pc' = [pc EXCEPT ![w] = "claimed"]
  /\ UNCHANGED <<left, current, anyFailed, deleted, dueNow, target, requestVars, notices,
                 socialMode, published, socialFaults>>

\* updateMany where status = SCHEDULED: claimed, or taken or withdrawn meanwhile.
Claim(w, p) ==
  /\ pc[w] = "loop"
  /\ p \in todo[w]
  /\ todo' = [todo EXCEPT ![w] = @ \ {p}]
  /\ \/ /\ post[p] = "SCHEDULED"
        /\ SetPost(p, "PUBLISHING")
        /\ at' = [at EXCEPT ![w] = p]
        /\ pc' = [pc EXCEPT ![w] = "claimed"]
     \/ /\ post[p] # "SCHEDULED"
        /\ pc' = [pc EXCEPT ![w] = IF todo'[w] = {} THEN "idle" ELSE "loop"]
        /\ UNCHANGED <<post, stale, at>>
  /\ UNCHANGED <<left, current, anyFailed, deleted, dueNow, target, requestVars, notices,
                 socialMode, published, socialFaults>>

\* findUnique: the targets to publish to, as they are now.
Read(w) ==
  /\ pc[w] = "claimed"
  /\ pc' = [pc EXCEPT ![w] = "targets"]
  /\ left' = [left EXCEPT ![w] = {t \in Targets : target[at[w]][t] # "PUBLISHED"}]
  /\ anyFailed' = [anyFailed EXCEPT ![w] = FALSE]
  /\ UNCHANGED <<todo, at, current, postVars, requestVars, notices, socialMode, published,
                 socialFaults>>

GoesLive(w, t) == published' = [published EXCEPT ![at[w]][t] = @ + 1]

\* publishToTarget for one target: it goes live, the platform refuses or cannot be
\* reached, or the capability is absent.
PublishTarget(w, t) ==
  /\ pc[w] = "targets"
  /\ t \in left[w]
  /\ left' = [left EXCEPT ![w] = @ \ {t}]
  /\ current' = [current EXCEPT ![w] = {t}]
  /\ \/ pc' = [pc EXCEPT ![w] = "live"] /\ GoesLive(w, t)
     \/ \E outcome \in {"failed", "unavailable"} :
          pc' = [pc EXCEPT ![w] = outcome] /\ UNCHANGED published
  /\ UNCHANGED <<todo, at, anyFailed, postVars, requestVars, notices, socialMode, socialFaults>>

\* The post goes live and the platform's answer is lost.
AnswerLost(w, t) ==
  /\ pc[w] = "targets"
  /\ t \in left[w]
  /\ SocialFault("answer")
  /\ left' = [left EXCEPT ![w] = @ \ {t}]
  /\ current' = [current EXCEPT ![w] = {t}]
  /\ pc' = [pc EXCEPT ![w] = "failed"]
  /\ GoesLive(w, t)
  /\ UNCHANGED <<todo, at, anyFailed, postVars, requestVars, notices, socialMode>>

NextTarget(w) ==
  /\ pc' = [pc EXCEPT ![w] = "targets"]
  /\ current' = [current EXCEPT ![w] = {}]

MarkPublished(w) ==
  \E t \in current[w] :
    /\ pc[w] = "live"
    /\ SetTarget(at[w], t, "PUBLISHED")
    /\ NextTarget(w)
    /\ UNCHANGED <<todo, at, left, anyFailed, post, deleted, dueNow, stale, requestVars, notices,
                   socialMode, published, socialFaults>>

\* That write throws, committed or not: the catch block takes the target for failed.
MarkPublishedFails(w) ==
  \E t \in current[w] :
    /\ pc[w] = "live"
    /\ SocialFault("write")
    /\ SetTarget(at[w], t, "PUBLISHED") \/ UNCHANGED target
    /\ pc' = [pc EXCEPT ![w] = "failed"]
    /\ UNCHANGED <<todo, at, left, current, anyFailed, post, deleted, dueNow, stale, requestVars,
                   notices, socialMode, published>>

\* An exception or an absent capability fails the target.
MarkFailed(w) ==
  \E t \in current[w] :
    /\ pc[w] \in {"failed", "unavailable"}
    /\ SetTarget(at[w], t, "FAILED")
    /\ anyFailed' = [anyFailed EXCEPT ![w] = TRUE]
    /\ NextTarget(w)
    /\ UNCHANGED <<todo, at, left, post, deleted, dueNow, stale, requestVars, notices, socialMode,
                   published, socialFaults>>

\* That write fails, which is ignored.
MarkFailedFails(w) ==
  /\ pc[w] \in {"failed", "unavailable"}
  /\ SocialFault("write")
  /\ anyFailed' = [anyFailed EXCEPT ![w] = TRUE]
  /\ NextTarget(w)
  /\ UNCHANGED <<todo, at, left, postVars, requestVars, notices, socialMode, published>>

\* All targets tried: the outcome of the post, whatever became of its status meanwhile.
Finish(w) ==
  /\ pc[w] = "targets"
  /\ left[w] = {}
  /\ SetPost(at[w], IF anyFailed[w] THEN "FAILED" ELSE "PUBLISHED")
  /\ pc' = [pc EXCEPT ![w] = "notifying"]
  /\ UNCHANGED <<todo, at, left, current, anyFailed, deleted, dueNow, target, requestVars, notices,
                 socialMode, published, socialFaults>>

\* The notification; its failure is ignored.
Notify(w) ==
  /\ pc[w] = "notifying"
  /\ \/ /\ notices' = [notices EXCEPT ![at[w]] = @ \cup {IF anyFailed[w] THEN "ERROR" ELSE "INFO"}]
        /\ UNCHANGED socialFaults
     \/ SocialFault("write") /\ UNCHANGED notices
  /\ pc' = [pc EXCEPT ![w] = IF todo[w] = {} THEN "idle" ELSE "loop"]
  /\ at' = [at EXCEPT ![w] = NoPost]
  /\ anyFailed' = [anyFailed EXCEPT ![w] = FALSE]
  /\ UNCHANGED <<todo, left, current, postVars, requestVars, socialMode, published>>

\* The tick is over before its time; what the loop had read is gone.
Forget(w) ==
  /\ pc' = [pc EXCEPT ![w] = "idle"]
  /\ todo' = [todo EXCEPT ![w] = {}]
  /\ at' = [at EXCEPT ![w] = NoPost]
  /\ left' = [left EXCEPT ![w] = {}]
  /\ current' = [current EXCEPT ![w] = {}]
  /\ anyFailed' = [anyFailed EXCEPT ![w] = FALSE]

\* The claim's answer is lost, or the read or the final write fails: the exception ends
\* the tick, and the post stays PUBLISHING.
TickThrows(w) ==
  /\ \/ pc[w] = "claimed" /\ SocialFault("read") /\ UNCHANGED <<post, stale>>
     \/ /\ pc[w] = "targets"
        /\ left[w] = {}
        /\ SocialFault("write")
        /\ \/ SetPost(at[w], IF anyFailed[w] THEN "FAILED" ELSE "PUBLISHED")
           \/ UNCHANGED <<post, stale>>
  /\ Forget(w)
  /\ UNCHANGED <<deleted, dueNow, target, requestVars, notices, socialMode, published>>

-----------------------------------------------------------------------------
(* The process around it.                                                  *)

\* stop(): no new tick; the tick in flight, its whole batch, runs to its end.
SocialStop(w) ==
  /\ socialMode[w] = "up"
  /\ socialMode' = [socialMode EXCEPT ![w] = "stopping"]
  /\ UNCHANGED <<postVars, requestVars, loopVars, notices, published, socialFaults>>

SocialDies(w) ==
  /\ socialMode' = [socialMode EXCEPT ![w] = "down"]
  /\ Forget(w)
  /\ UNCHANGED <<postVars, requestVars, notices, published>>

\* stop() returns when the tick is over, or after a ceiling of sixty seconds.
SocialExit(w) ==
  /\ socialMode[w] = "stopping"
  /\ SocialDies(w)
  /\ IF pc[w] = "idle" THEN UNCHANGED socialFaults ELSE SocialFault("ceiling")

SocialCrash(w) ==
  /\ socialMode[w] # "down"
  /\ SocialFault("crash")
  /\ SocialDies(w)

SocialRestart(w) ==
  /\ socialMode[w] = "down"
  /\ socialMode' = [socialMode EXCEPT ![w] = "up"]
  /\ UNCHANGED <<postVars, requestVars, loopVars, notices, published, socialFaults>>

-----------------------------------------------------------------------------
Asked(p) ==
  CreatePost(p) \/ FindToPublish(p) \/ PublishNow(p) \/ FindToRemove(p) \/ RemovePost(p)

Ticks(w) ==
  \/ ReclaimPosts(w) \/ Poll(w) \/ \E p \in Posts : Claim(w, p)
  \/ Read(w) \/ \E t \in Targets : PublishTarget(w, t)
  \/ MarkPublished(w) \/ MarkFailed(w) \/ Finish(w) \/ Notify(w)

SocialFails(w) ==
  \/ \E t \in Targets : AnswerLost(w, t)
  \/ MarkPublishedFails(w) \/ MarkFailedFails(w) \/ TickThrows(w) \/ SocialCrash(w)

SocialNext ==
  \/ \E p \in Posts : Asked(p) \/ SocialElapse(p) \/ Ages(p)
  \/ \E w \in Workers :
       Ticks(w) \/ SocialFails(w) \/ SocialStop(w) \/ SocialExit(w) \/ SocialRestart(w)

\* A timer drives every live poller, and deployments do not stop a process before each
\* of its ticks for ever; time passes; requests that were begun end; a stopped process
\* exits and is started again. The platforms owe us nothing.
SocialFairness ==
  /\ \A p \in Posts :
       /\ WF_socialVars(SocialElapse(p)) /\ WF_socialVars(Ages(p))
       /\ WF_socialVars(PublishNow(p)) /\ WF_socialVars(RemovePost(p))
  /\ \A w \in Workers :
       /\ SF_socialVars(Ticks(w))
       /\ WF_socialVars(SocialRestart(w))
       /\ WF_socialVars(SocialExit(w))

SocialSafe == SocialInit /\ [][SocialNext]_socialVars
SocialSpec == SocialSafe /\ SocialFairness

-----------------------------------------------------------------------------
(* Properties.                                                             *)

\* A post goes live twice on a target only if something failed or somebody asked for it:
\* one extra time per fault and per "publish now" at most.
ExtraPostsNeedCause ==
  \A p \in Posts, t \in Targets : published[p][t] <= 1 + socialFaults + clicks

\* social.controller.ts:273 "Targets are reset to SCHEDULED too so a previously failed
\* target is retried": a target that was published is left alone.
OnlyFailedTargetsRetried ==
  [][\A p \in Posts, t \in Targets :
       target[p][t] = "PUBLISHED" => target'[p][t] # "SCHEDULED"]_socialVars

\* No false success (schedule-poller.ts:248): what is shown as published, to the user or
\* in the notification, has been live on every target.
NoFalseSuccess ==
  \A p \in Posts :
    /\ \A t \in Targets : target[p][t] = "PUBLISHED" => published[p][t] > 0
    /\ post[p] = "PUBLISHED" \/ "INFO" \in notices[p] => \A t \in Targets : published[p][t] > 0

\* Both: extra posts have a cause, and no success is false.
PostsSound == ExtraPostsNeedCause /\ NoFalseSuccess

\* The workers that may be at a removed post: those that were publishing it when it was
\* removed and, if a "publish now" that had found it before made it SCHEDULED again after,
\* those that had already read it into their batch.
MayHold(p) == held[p] \cup IF p \in revived THEN listed[p] ELSE {}

\* What a removal leaves to happen (schedule-poller.ts:189-221, :310): a removed post is
\* published by a worker only to the end of what that worker had in hand, although the
\* batch was read before and the claim, the reclaim and the final status never look at
\* deleted_at; its row says DELETED until such a worker writes its outcome over it, and is
\* SCHEDULED or PUBLISHING only after a crossing "publish now".
RemovalHolds ==
  \A p \in Posts : deleted[p] =>
    /\ \A w \in Workers : at[w] = p => w \in MayHold(p)
    /\ post[p] \in {"SCHEDULED", "PUBLISHING"} => p \in revived
    /\ post[p] \in {"PUBLISHED", "FAILED"} => MayHold(p) # {}

\* Every scheduled post comes to an end unless it is deleted, whatever crashes and
\* restarts on the way.
PostsDone ==
  \A p \in Posts : post[p] \in {"absent", "PUBLISHED", "FAILED"} \/ deleted[p]
PostsSettle == []<>PostsDone
=============================================================================
