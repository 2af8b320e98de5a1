----------------------------- MODULE AdCampaigns -----------------------------
(***************************************************************************)
(* One Meta ad campaign of an organisation, from its draft to Meta         *)
(* (apps/api/src/modules/meta): the review that guards its budget           *)
(* (ad-campaign.service.ts, ad-budget.ts), the publication as a chain of    *)
(* objects on Meta and the switch between live and paused                   *)
(* (ad-publish.service.ts, ad-publish.payloads.ts), behind the allowance    *)
(* gate of meta-ads.controller.ts.                                          *)
(*                                                                         *)
(* A request reads the row in one statement and writes it, by its id alone, *)
(* in a later one; publishing and switching talk to Meta between the two,   *)
(* outside any transaction.                                                 *)
(***************************************************************************)
EXTENDS Naturals, Sequences

CONSTANTS
  Daily,          \* the daily budgets that are asked for
  Lifetime,       \* the lifetime budgets that are asked for
  Cap,            \* meta_connection.monthly_spend_cap, 0 for none
  AdHandlers,     \* the requests that may be in progress at the same time
  Idle,           \* no request
  AdFaults,       \* the kinds of fault that happen
  MaxAdRequests,  \* bound: how many requests one behaviour has
  MaxAdTrouble    \* bound: how many faults

AdFaultKinds == {"crash", "graph", "timeout", "write"}

VARIABLES
  review,      \* ad_campaign.review_status, "none" before the campaign exists
  budget,      \* [daily, lifetime], 0 for null
  creative,    \* whether the campaign has a creative
  metaId,      \* ad_campaign.meta_campaign_id: an index of chains, 0 for none
  ads,         \* the chains whose ad has a row in `ad`
  delivery,    \* ad_campaign.delivery_status
  chains,      \* Seq([campaign, set, ad, budget]): what Meta holds, in the order it was created
  adRequest,   \* [AdHandlers -> what a request in progress has found and done, or Idle]
  reached,     \* whether the ad allowance of the month is used up
  adCrossed,   \* history: the kinds of requests that overlapped
  abandoned,   \* history: publications that ended without recording the chain they began
  halfway,     \* history: a switch ended between Meta and its own row
  adRequests,  \* history: requests so far
  adTrouble    \* history: faults so far

adRow == <<review, budget, creative, metaId, ads, delivery>>
adHistory == <<adCrossed, abandoned, halfway>>
adVars == <<adRow, chains, adRequest, reached, adHistory, adRequests, adTrouble>>

Review == {"none", "DRAFT", "PENDING_APPROVAL", "APPROVED", "REJECTED"}
Switch == {"PAUSED", "ACTIVE"}
Budget == [daily : Nat, lifetime : Nat]
AdOp == {"update", "submit", "approve", "reject", "publish", "gated", "activate", "pause"}
AdStep == {"found", "set", "ad", "ads", "persist"}
AdCrossing == {"updates", "reviews", "publishes", "switches"}

\* What a request in progress has found and done.
AdRequest ==
  [op : AdOp, step : AdStep, review : Review, budget : Budget, chain : Nat, ads : SUBSET Nat]

ASSUME AdAssumption ==
  /\ Daily \subseteq Nat \ {0}
  /\ Lifetime \subseteq Nat \ {0}
  /\ Cap \in Nat
  /\ Idle \notin AdRequest
  /\ AdFaults \subseteq AdFaultKinds
  /\ MaxAdRequests \in Nat
  /\ MaxAdTrouble \in Nat

AdTypeOK ==
  /\ review \in Review
  /\ budget \in Budget
  /\ creative \in BOOLEAN
  /\ metaId \in 0..Len(chains)
  /\ ads \subseteq DOMAIN chains
  /\ delivery \in {"PAUSED", "PENDING_META_REVIEW"}
  /\ chains \in Seq([campaign : Switch, set : Switch \cup {"none"}, ad : Switch \cup {"none"},
                     budget : Budget])
  /\ adRequest \in [AdHandlers -> AdRequest \cup {Idle}]
  /\ \A r \in AdHandlers : adRequest[r] # Idle =>
       adRequest[r].chain \in 0..Len(chains) /\ adRequest[r].ads \subseteq DOMAIN chains
  /\ reached \in BOOLEAN
  /\ adCrossed \subseteq AdCrossing
  /\ abandoned \in Nat
  /\ halfway \in BOOLEAN
  /\ adRequests \in 0..MaxAdRequests
  /\ adTrouble \in 0..MaxAdTrouble

AdInit ==
  /\ review = "none"
  /\ budget = [daily |-> 0, lifetime |-> 0]
  /\ creative = FALSE
  /\ metaId = 0
  /\ ads = {}
  /\ delivery = "PAUSED"
  /\ chains = << >>
  /\ adRequest = [r \in AdHandlers |-> Idle]
  /\ reached = FALSE
  /\ adCrossed = {}
  /\ abandoned = 0
  /\ halfway = FALSE
  /\ adRequests = 0
  /\ adTrouble = 0

AdFault(kind) == kind \in AdFaults /\ adTrouble < MaxAdTrouble /\ adTrouble' = adTrouble + 1

-----------------------------------------------------------------------------
(* Budgets.                                                                *)

Budgeted(b) == b.daily > 0 \/ b.lifetime > 0

\* A lifetime budget counts as it is, a daily one for thirty days.
Projected(b) == IF b.lifetime > 0 THEN b.lifetime ELSE 30 * b.daily

\* Seeded fault: the daily budget is held against the cap as it is.
WithinCapDaily(b) ==
  /\ Budgeted(b)
  /\ Cap > 0 => b.lifetime <= Cap /\ b.daily <= Cap

\* assertWithinCap()
WithinCap(b) == Budgeted(b) /\ (Cap > 0 => Projected(b) <= Cap)

Changes(b) ==
  {[b EXCEPT !.daily = d] : d \in Daily} \cup {[b EXCEPT !.lifetime = l] : l \in Lifetime}

-----------------------------------------------------------------------------
(* A request finds the row ...                                             *)

Create ==
  /\ review = "none"
  /\ review' = "DRAFT"
  /\ budget' \in {budget} \cup Changes(budget)
  /\ creative' \in BOOLEAN
  /\ UNCHANGED <<metaId, ads, delivery, chains, adRequest, reached, adHistory, adRequests,
                 adTrouble>>

Editable == review \in {"DRAFT", "REJECTED"}

AdPublishable == review = "APPROVED" /\ metaId = 0 /\ creative

AdAllowed(op) ==
  CASE op = "update"   -> Editable
    [] op = "submit"   -> Editable /\ creative /\ Budgeted(budget)
    [] op = "approve"  -> review = "PENDING_APPROVAL" /\ WithinCap(budget)
    [] op = "reject"   -> review = "PENDING_APPROVAL"
    [] op = "publish"  -> AdPublishable
    [] op = "gated"    -> review # "none" /\ ~ reached
    [] op = "activate" -> metaId # 0
    [] op = "pause"    -> metaId # 0

AdDoing(r, op) == adRequest[r] # Idle /\ adRequest[r].op = op
At(r, step) == adRequest[r] # Idle /\ adRequest[r].step = step

\* How a request of kind op overlaps those in progress.
AdCrossings(op, r) ==
  LET beside == {adRequest[q].op : q \in {q \in AdHandlers \ {r} : adRequest[q] # Idle}}
      deciding == {"submit", "approve", "reject"}
      Meet(S, T) == (op \in S /\ beside \cap T # {}) \/ (op \in T /\ beside \cap S # {})
  IN {x \in AdCrossing :
        \/ x = "updates" /\ Meet({"update"}, deciding)
        \/ x = "reviews" /\ Meet(deciding, deciding)
        \/ x = "publishes" /\ Meet({"publish"}, {"publish"})
        \/ x = "switches" /\ Meet({"activate", "pause"}, {"activate", "pause", "publish"})}

AdFound(op) ==
  [op |-> op, step |-> "found", review |-> review, budget |-> budget,
   chain |-> IF op \in {"activate", "pause"} THEN metaId ELSE 0,
   ads |-> IF op \in {"activate", "pause"} THEN ads ELSE {}]

AdBegin(r, op) ==
  /\ adRequest' = [adRequest EXCEPT ![r] = AdFound(op)]
  /\ adCrossed' = adCrossed \cup AdCrossings(op, r)

\* The route to activate passes the allowance first, and reads the row only then.
FindAd(r, op) ==
  /\ adRequest[r] = Idle
  /\ op # "activate"
  /\ AdAllowed(op)
  /\ adRequests < MaxAdRequests
  /\ adRequests' = adRequests + 1
  /\ AdBegin(r, op)
  /\ UNCHANGED <<adRow, chains, reached, abandoned, halfway, adTrouble>>

PassGate(r) ==
  /\ AdDoing(r, "gated")
  /\ IF AdAllowed("activate") THEN AdBegin(r, "activate")
                            ELSE adRequest' = [adRequest EXCEPT ![r] = Idle] /\ UNCHANGED adCrossed
  /\ UNCHANGED <<adRow, chains, reached, abandoned, halfway, adRequests, adTrouble>>

\* The spend of the month, as the allowance accumulator records it, reaches the
\* allocation, or a new month begins.
AllowanceMoves ==
  /\ reached' = ~ reached
  /\ UNCHANGED <<adRow, chains, adRequest, adHistory, adRequests, adTrouble>>

(* ... and writes it, whatever it is by then.                              *)

AdAnswer(r) == adRequest' = [adRequest EXCEPT ![r] = Idle]

Update(r) ==
  /\ AdDoing(r, "update")
  /\ \/ budget' \in Changes(budget) /\ UNCHANGED creative
     \/ creative' = TRUE /\ UNCHANGED budget
  /\ AdAnswer(r)
  /\ UNCHANGED <<review, metaId, ads, delivery, chains, reached, adHistory, adRequests, adTrouble>>

Decide(r) ==
  /\ \/ AdDoing(r, "submit") /\ review' = "PENDING_APPROVAL"
     \/ AdDoing(r, "approve") /\ review' = "APPROVED"
     \/ AdDoing(r, "reject") /\ review' = "REJECTED"
  /\ AdAnswer(r)
  /\ UNCHANGED <<budget, creative, metaId, ads, delivery, chains, reached, adHistory, adRequests,
                 adTrouble>>

-----------------------------------------------------------------------------
(* Publishing: four objects on Meta, one after the other, all of them      *)
(* paused, then the row.                                                   *)

Advance(r, step) == adRequest' = [adRequest EXCEPT ![r].step = step]

\* The publication ends without its ids in the row.
Abandon(r) == AdAnswer(r) /\ abandoned' = abandoned + 1

NewChain(r) ==
  [campaign |-> "PAUSED", set |-> "none", ad |-> "none", budget |-> adRequest[r].budget]

\* A call that times out may have taken effect.
PostCampaign(r) ==
  /\ AdDoing(r, "publish") /\ At(r, "found")
  /\ \/ /\ chains' = Append(chains, NewChain(r))
        /\ adRequest' = [adRequest EXCEPT ![r].step = "set", ![r].chain = Len(chains) + 1]
        /\ UNCHANGED <<abandoned, adTrouble>>
     \/ AdFault("graph") /\ AdAnswer(r) /\ UNCHANGED <<chains, abandoned>>
     \/ AdFault("timeout") /\ Abandon(r) /\ chains' = Append(chains, NewChain(r))
  /\ UNCHANGED <<adRow, reached, adCrossed, halfway, adRequests>>

PostAdSet(r) ==
  /\ At(r, "set")
  /\ \/ /\ chains' = [chains EXCEPT ![adRequest[r].chain].set = "PAUSED"]
        /\ Advance(r, "ad")
        /\ UNCHANGED <<abandoned, adTrouble>>
     \/ AdFault("graph") /\ Abandon(r) /\ UNCHANGED chains
  /\ UNCHANGED <<adRow, reached, adCrossed, halfway, adRequests>>

\* The creative and the ad that shows it.
PostAd(r) ==
  /\ At(r, "ad")
  /\ \/ /\ chains' = [chains EXCEPT ![adRequest[r].chain].ad = "PAUSED"]
        /\ Advance(r, "persist")
        /\ UNCHANGED <<abandoned, adTrouble>>
     \/ AdFault("graph") /\ Abandon(r) /\ UNCHANGED chains
  /\ UNCHANGED <<adRow, reached, adCrossed, halfway, adRequests>>

Persist(r) ==
  /\ At(r, "persist")
  /\ \/ /\ metaId' = adRequest[r].chain
        /\ ads' = ads \cup {adRequest[r].chain}
        /\ delivery' = "PAUSED"
        /\ AdAnswer(r)
        /\ UNCHANGED <<abandoned, adTrouble>>
     \/ AdFault("write") /\ Abandon(r) /\ UNCHANGED <<metaId, ads, delivery>>
  /\ UNCHANGED <<review, budget, creative, chains, reached, adCrossed, halfway, adRequests>>

-----------------------------------------------------------------------------
(* The switch: the campaign on Meta, its ads, then the row.                *)

Switching(r) == AdDoing(r, "activate") \/ AdDoing(r, "pause")

Wanted(r) == IF AdDoing(r, "activate") THEN "ACTIVE" ELSE "PAUSED"

\* A switch that fails once Meta has been told leaves the row behind.
GiveUp(r) == AdAnswer(r) /\ halfway' = TRUE

SwitchCampaign(r) ==
  /\ Switching(r) /\ At(r, "found")
  /\ LET switched == [chains EXCEPT ![adRequest[r].chain].campaign = Wanted(r)]
     IN \/ chains' = switched /\ Advance(r, "ads") /\ UNCHANGED <<halfway, adTrouble>>
        \/ AdFault("graph") /\ AdAnswer(r) /\ UNCHANGED <<chains, halfway>>
        \/ AdFault("timeout") /\ GiveUp(r) /\ chains' = switched
  /\ UNCHANGED <<adRow, reached, adCrossed, abandoned, adRequests>>

SwitchAd(r) ==
  /\ At(r, "ads")
  /\ adRequest[r].ads # {}
  /\ \E c \in adRequest[r].ads :
       LET switched == [chains EXCEPT ![c].ad = Wanted(r)]
       IN \/ /\ chains' = switched
             /\ adRequest' = [adRequest EXCEPT ![r].ads = @ \ {c}]
             /\ UNCHANGED <<halfway, adTrouble>>
          \/ AdFault("graph") /\ GiveUp(r) /\ UNCHANGED chains
          \/ AdFault("timeout") /\ GiveUp(r) /\ chains' = switched
  /\ UNCHANGED <<adRow, reached, adCrossed, abandoned, adRequests>>

DeliveryFor(wanted) == IF wanted = "ACTIVE" THEN "PENDING_META_REVIEW" ELSE "PAUSED"

SwitchRow(r) ==
  /\ At(r, "ads")
  /\ adRequest[r].ads = {}
  /\ \/ delivery' = DeliveryFor(Wanted(r)) /\ AdAnswer(r) /\ UNCHANGED <<halfway, adTrouble>>
     \/ AdFault("write") /\ GiveUp(r) /\ UNCHANGED delivery
  /\ UNCHANGED <<review, budget, creative, metaId, ads, chains, reached, adCrossed, abandoned,
                 adRequests>>

\* The process dies with the request.
AdCrash(r) ==
  /\ adRequest[r] # Idle
  /\ AdFault("crash")
  /\ AdAnswer(r)
  /\ abandoned' = abandoned + (IF AdDoing(r, "publish") /\ ~ At(r, "found") THEN 1 ELSE 0)
  /\ halfway' = (halfway \/ At(r, "ads"))
  /\ UNCHANGED <<adRow, chains, reached, adCrossed, adRequests>>

AdHandle(r) ==
  \/ \E op \in AdOp : FindAd(r, op)
  \/ PassGate(r) \/ Update(r) \/ Decide(r)
  \/ PostCampaign(r) \/ PostAdSet(r) \/ PostAd(r) \/ Persist(r)
  \/ SwitchCampaign(r) \/ SwitchAd(r) \/ SwitchRow(r) \/ AdCrash(r)

AdNext == Create \/ AllowanceMoves \/ \E r \in AdHandlers : AdHandle(r)

AdSpec == AdInit /\ [][AdNext]_adVars

-----------------------------------------------------------------------------
\* "An admin approves, and only within the client's monthly ceiling"
\* (ad-campaign.service.ts:156): no budget over the cap reaches Meta, unless an edit that
\* found the draft was still in progress when it was submitted or approved, or two
\* decisions overlapped.
SpendWithinCap ==
  \A c \in DOMAIN chains :
    LET b == chains[c].budget
    IN \/ Cap = 0 \/ (IF b.lifetime > 0 THEN b.lifetime <= Cap ELSE 30 * b.daily <= Cap)
       \/ "updates" \in adCrossed \/ "reviews" \in adCrossed

\* "This campaign has already been published" (ad-publish.service.ts:52): Meta holds one
\* campaign more than publications that were broken off, unless two publications
\* overlapped.
ChainsAccountedFor == Len(chains) <= 1 + abandoned \/ "publishes" \in adCrossed

\* A campaign that the row calls paused does not run on Meta, unless a request is in
\* progress, a switch was broken off, or requests that switch or publish it overlapped
\* (ad-publish.service.ts:162).
Runs(c) == chains[c].campaign = "ACTIVE" /\ chains[c].ad = "ACTIVE"

PausedDoesNotRun ==
  (\A r \in AdHandlers : ~ Switching(r)) /\ delivery = "PAUSED" =>
    \/ \A c \in DOMAIN chains : ~ Runs(c)
    \/ halfway \/ "switches" \in adCrossed

\* What is on Meta was approved and still is: no sequence of requests takes the approval
\* of a published campaign away, unless two decisions about it overlapped
\* (ad-campaign.service.ts:252 "can no longer be edited; it is in review or approved").
PublishedStaysApproved == chains # << >> => review = "APPROVED" \/ "reviews" \in adCrossed

\* The four promises of an ad campaign.
AdsSound == SpendWithinCap /\ ChainsAccountedFor /\ PausedDoesNotRun /\ PublishedStaysApproved
=============================================================================
