-------------------------- MODULE OrganisationProofs --------------------------
(* Proofs about what the people of an organisation do at the same time:        *)
(* AdCampaigns, Entitlements and Accounts, with any budgets, features, members *)
(* and invitations, and any number of requests and faults.                     *)
EXTENDS AdCampaigns, Entitlements, Accounts, TLAPS

-----------------------------------------------------------------------------
(* Ad campaigns: any budgets and any cap.                                    *)

\* The steps of a request are those of its kind, and one that has begun a chain, or
\* switches one, knows which.
StagesFit ==
  \A r \in AdHandlers : adRequest[r] # Idle =>
    /\ adRequest[r].step \in {"set", "ad", "persist"} =>
         adRequest[r].op = "publish" /\ adRequest[r].chain # 0
    /\ adRequest[r].step = "ads" => Switching(r)
    /\ Switching(r) => adRequest[r].chain # 0

AdShape == AdTypeOK /\ StagesFit

RequestsTyped ==
  /\ adRequest \in [AdHandlers -> AdRequest \cup {Idle}]
  /\ \A r \in AdHandlers : adRequest[r] # Idle =>
       adRequest[r].chain \in 0..Len(chains) /\ adRequest[r].ads \subseteq DOMAIN chains
  /\ StagesFit

Deciding(r) == AdDoing(r, "submit") \/ AdDoing(r, "approve") \/ AdDoing(r, "reject")

\* Decisions that never overlapped found the status they needed, which is there still; and
\* an approval, once given, stays.
ApprovalInv ==
  "reviews" \notin adCrossed =>
    /\ \A q, r \in AdHandlers : Deciding(q) /\ Deciding(r) => q = r
    /\ \A r \in AdHandlers :
         /\ AdDoing(r, "submit") => Editable
         /\ AdDoing(r, "approve") \/ AdDoing(r, "reject") => review = "PENDING_APPROVAL"
         /\ AdDoing(r, "publish") => review = "APPROVED"
    /\ chains # << >> => review = "APPROVED"

\* Without edits beside them, the budget they found is there still.
CapInv ==
  "reviews" \notin adCrossed /\ "updates" \notin adCrossed =>
    /\ \A q, r \in AdHandlers : ~ (AdDoing(q, "update") /\ Deciding(r))
    /\ \A r \in AdHandlers :
         /\ AdDoing(r, "update") => Editable
         /\ AdDoing(r, "approve") => WithinCap(budget)
         /\ AdDoing(r, "publish") => WithinCap(adRequest[r].budget)
    /\ review = "APPROVED" => WithinCap(budget)
    /\ \A c \in DOMAIN chains : WithinCap(chains[c].budget)

\* The publications that have begun a chain.
Begun == {r \in AdHandlers : AdDoing(r, "publish") /\ ~ At(r, "found")}

\* A chain is the row's, or that of the one publication in progress, or abandoned.
ChainInv ==
  "publishes" \notin adCrossed =>
    /\ \A q, r \in AdHandlers : AdDoing(q, "publish") /\ AdDoing(r, "publish") => q = r
    /\ \A r \in AdHandlers : AdDoing(r, "publish") => metaId = 0
    /\ Len(chains) <= abandoned + 1
    /\ metaId = 0 /\ Begun = {} => Len(chains) <= abandoned

Paused(c) == chains[c].campaign = "PAUSED"

\* Only the campaign of the row was ever switched on; it is off while a publication is in
\* progress, and once a pause has reached it.
RunInv ==
  "switches" \notin adCrossed /\ ~ halfway =>
    /\ \A q, r \in AdHandlers :
         Switching(q) => ~ AdDoing(r, "publish") /\ (Switching(r) => q = r)
    /\ \A r \in AdHandlers : Switching(r) => adRequest[r].chain = metaId
    /\ \A r \in AdHandlers : AdDoing(r, "publish") => \A c \in DOMAIN chains : Paused(c)
    /\ \A c \in DOMAIN chains : ~ Paused(c) => c = metaId
    /\ \A r \in AdHandlers : AdDoing(r, "pause") /\ At(r, "ads") =>
         \A c \in DOMAIN chains : Paused(c)
    /\ delivery = "PAUSED" /\ (\A r \in AdHandlers : ~ (AdDoing(r, "activate") /\ At(r, "ads"))) =>
         \A c \in DOMAIN chains : ~ Runs(c)

-----------------------------------------------------------------------------
(* Types.                                                                  *)

\* Initially there is neither a campaign nor a request.
LEMMA AdShapeInit == AdInit => AdShape
<1> SUFFICES ASSUME AdInit PROVE AdShape
  OBVIOUS
<1>1. metaId \in 0..Len(chains) /\ ads \subseteq DOMAIN chains
  BY DEF AdInit
<1>2. \A r \in AdHandlers : adRequest[r] = Idle
  BY DEF AdInit
<1>3. budget \in Budget /\ adRequests \in 0..MaxAdRequests /\ adTrouble \in 0..MaxAdTrouble
  BY AdAssumption DEF AdInit, Budget, AdAssumption
<1>4. /\ review \in Review /\ delivery \in {"PAUSED", "PENDING_META_REVIEW"}
           /\ adCrossed \subseteq AdCrossing
      /\ creative \in BOOLEAN /\ reached \in BOOLEAN /\ halfway \in BOOLEAN /\ abandoned \in Nat
  BY DEF AdInit, Review
<1>5. chains \in Seq([campaign : Switch, set : Switch \cup {"none"}, ad : Switch \cup {"none"},
                     budget : Budget])
  BY DEF AdInit
<1>6. adRequest \in [AdHandlers -> AdRequest \cup {Idle}]
  BY DEF AdInit
<1> QED
  BY <1>1, <1>2, <1>3, <1>4, <1>5, <1>6 DEF AdShape, AdTypeOK, StagesFit

\* A fault is counted within its bound.
LEMMA FaultCounts ==
  ASSUME adTrouble \in 0..MaxAdTrouble, NEW k, AdFault(k)
  PROVE  adTrouble' \in 0..MaxAdTrouble
BY AdAssumption DEF AdAssumption, AdFault

\* A request in progress while Meta holds n chains.
Fits(v, n) ==
  \/ v = Idle
  \/ /\ v \in AdRequest
     /\ v.chain \in 0..n /\ v.ads \subseteq 1..n
     /\ v.step \in {"set", "ad", "persist"} => v.op = "publish" /\ v.chain # 0
     /\ v.step = "ads" => v.op \in {"activate", "pause"}
     /\ v.op \in {"activate", "pause"} => v.chain # 0

ChainSeq ==
  Seq([campaign : Switch, set : Switch \cup {"none"}, ad : Switch \cup {"none"}, budget : Budget])

\* Requests fit, and so does what takes the place of one of them.
LEMMA AdRequestFits ==
  ASSUME AdShape, NEW r \in AdHandlers, NEW v, adRequest' = [adRequest EXCEPT ![r] = v],
         chains' \in ChainSeq, Len(chains') >= Len(chains), Fits(v, Len(chains'))
  PROVE  RequestsTyped'
<1>1. adRequest \in [AdHandlers -> AdRequest \cup {Idle}] /\ v \in AdRequest \cup {Idle}
  BY DEF AdShape, AdTypeOK, Fits
<1>2. adRequest'[r] = v /\ \A q \in AdHandlers \ {r} : adRequest'[q] = adRequest[q]
  BY <1>1
<1>3. Len(chains) \in Nat /\ Len(chains') \in Nat /\ DOMAIN chains' = 1..Len(chains')
  BY DEF AdShape, AdTypeOK, ChainSeq
<1>4. ASSUME NEW q \in AdHandlers, adRequest'[q] # Idle
      PROVE  Fits(adRequest'[q], Len(chains'))
  <2>1. CASE q = r
    BY <2>1, <1>2
  <2>2. CASE q # r
    <3>1. Fits(adRequest[q], Len(chains))
      BY <2>2, <1>2, <1>4 DEF AdShape, AdTypeOK, StagesFit, Fits, Switching, AdDoing
    <3> QED BY <3>1, <2>2, <1>2, <1>3 DEF Fits
  <2> QED BY <2>1, <2>2
<1>5. adRequest' \in [AdHandlers -> AdRequest \cup {Idle}]
  BY <1>1
<1>6. StagesFit'
  BY <1>4 DEF StagesFit, Switching, AdDoing, Fits
<1> QED BY <1>3, <1>4, <1>5, <1>6 DEF Fits, RequestsTyped

\* A request in progress fits.
LEMMA InProgressFits ==
  ASSUME AdShape, NEW r \in AdHandlers, adRequest[r] # Idle
  PROVE  adRequest[r] \in AdRequest /\ Fits(adRequest[r], Len(chains))
BY DEF AdShape, AdTypeOK, StagesFit, Fits, Switching, AdDoing

\* What a request finds fits.
LEMMA FoundFits ==
  ASSUME AdShape, NEW op \in AdOp, AdAllowed(op)
  PROVE  AdFound(op) \in AdRequest /\ Fits(AdFound(op), Len(chains))
<1>1. op \in {"activate", "pause"} => metaId # 0
  BY DEF AdAllowed
<1>2. metaId \in 0..Len(chains) /\ ads \subseteq 1..Len(chains) /\ Len(chains) \in Nat
  BY DEF AdShape, AdTypeOK
<1>3. AdFound(op) \in AdRequest
  BY <1>2 DEF AdFound, AdRequest, AdShape, AdTypeOK, AdStep
<1> QED BY <1>1, <1>2, <1>3 DEF Fits, AdFound

\* Creating the campaign, moving the allowance, and the requests that change the row.
LEMMA RowShape ==
  ASSUME AdShape,
         \/ Create \/ AllowanceMoves
         \/ \E r \in AdHandlers : (\E op \in AdOp : FindAd(r, op)) \/ PassGate(r) \/ Update(r)
              \/ Decide(r)
  PROVE  AdShape'
<1> USE DEF AdShape, AdTypeOK
<1>1. CASE Create
  <2>1. budget' \in Budget /\ review' \in Review /\ creative' \in BOOLEAN
    BY <1>1, AdAssumption DEF Create, Changes, Budget, Review, AdAssumption
  <2> QED BY <1>1, <2>1 DEF Create, StagesFit, Switching, AdDoing, adHistory
<1>2. CASE AllowanceMoves
  BY <1>2 DEF AllowanceMoves, StagesFit, Switching, AdDoing, adHistory, adRow
<1>3. ASSUME NEW r \in AdHandlers, NEW op \in AdOp, FindAd(r, op)
      PROVE  AdShape'
  <2>1. Fits(AdFound(op), Len(chains)) /\ adRequest' = [adRequest EXCEPT ![r] = AdFound(op)]
    BY <1>3, FoundFits DEF FindAd, AdBegin
  <2>2. adRequests' \in 0..MaxAdRequests /\ adCrossed' \subseteq AdCrossing
    BY <1>3, AdAssumption DEF FindAd, AdBegin, AdCrossings, AdAssumption
  <2>3. chains' = chains
    BY <1>3 DEF FindAd
  <2>4. chains' \in ChainSeq /\ Len(chains') >= Len(chains)
    BY <2>3 DEF ChainSeq
  <2>5. RequestsTyped'
    BY <2>1, <2>3, <2>4, AdRequestFits
  <2> QED BY <1>3, <2>1, <2>2, <2>5 DEF FindAd, RequestsTyped, adRow
<1>4. ASSUME NEW r \in AdHandlers, PassGate(r)
      PROVE  AdShape'
  <2>1. PICK v : Fits(v, Len(chains)) /\ adRequest' = [adRequest EXCEPT ![r] = v]
    BY <1>4, FoundFits DEF PassGate, AdBegin, Fits, AdOp
  <2>2. adCrossed' \subseteq AdCrossing
    BY <1>4 DEF PassGate, AdBegin, AdCrossings
  <2>3. chains' = chains
    BY <1>4 DEF PassGate
  <2>4. chains' \in ChainSeq /\ Len(chains') >= Len(chains)
    BY <2>3 DEF ChainSeq
  <2>5. RequestsTyped'
    BY <2>1, <2>3, <2>4, AdRequestFits
  <2> QED BY <1>4, <2>1, <2>2, <2>5 DEF PassGate, RequestsTyped, adRow
<1>5. ASSUME NEW r \in AdHandlers, Update(r)
      PROVE  AdShape'
  <2>1. budget' \in Budget /\ creative' \in BOOLEAN
    BY <1>5, AdAssumption DEF Update, Changes, Budget, AdAssumption
  <2>2. Fits(Idle, Len(chains)) /\ adRequest' = [adRequest EXCEPT ![r] = Idle]
    BY <1>5 DEF Update, AdAnswer, Fits
  <2>3. chains' = chains
    BY <1>5 DEF Update
  <2>4. chains' \in ChainSeq /\ Len(chains') >= Len(chains)
    BY <2>3 DEF ChainSeq
  <2>5. RequestsTyped'
    BY <2>2, <2>3, <2>4, AdRequestFits
  <2> QED BY <1>5, <2>1, <2>2, <2>5 DEF Update, RequestsTyped, adHistory
<1>6. ASSUME NEW r \in AdHandlers, Decide(r)
      PROVE  AdShape'
  <2>1. review' \in Review
    BY <1>6 DEF Decide, Review
  <2>2. Fits(Idle, Len(chains)) /\ adRequest' = [adRequest EXCEPT ![r] = Idle]
    BY <1>6 DEF Decide, AdAnswer, Fits
  <2>3. chains' = chains
    BY <1>6 DEF Decide
  <2>4. chains' \in ChainSeq /\ Len(chains') >= Len(chains)
    BY <2>3 DEF ChainSeq
  <2>5. RequestsTyped'
    BY <2>2, <2>3, <2>4, AdRequestFits
  <2> QED BY <1>6, <2>1, <2>2, <2>5 DEF Decide, RequestsTyped, adHistory
<1> QED BY <1>1, <1>2, <1>3, <1>4, <1>5, <1>6

\* An object of a chain changes: the chains stay as many.
LEMMA ChainsChange ==
  ASSUME AdShape, NEW c \in DOMAIN chains, NEW s \in Switch, NEW t,
         t \in {[chains EXCEPT ![c].campaign = s], [chains EXCEPT ![c].set = s],
                [chains EXCEPT ![c].ad = s]}
  PROVE  t \in ChainSeq /\ Len(t) = Len(chains) /\ DOMAIN t = DOMAIN chains
<1> DEFINE Chain == [campaign : Switch, set : Switch \cup {"none"}, ad : Switch \cup {"none"},
                     budget : Budget]
<1>1. chains \in Seq(Chain) /\ chains[c] \in Chain
  <2>1. chains \in Seq(Chain)
    BY DEF AdShape, AdTypeOK
  <2> HIDE DEF Chain
  <2> QED BY <2>1
<1>2. PICK v \in Chain : t = [chains EXCEPT ![c] = v]
  <2>1. [chains[c] EXCEPT !.campaign = s] \in Chain /\ [chains[c] EXCEPT !.set = s] \in Chain
        /\ [chains[c] EXCEPT !.ad = s] \in Chain
    BY <1>1
  <2> QED BY <1>1, <2>1
<1> HIDE DEF Chain
<1>3. t \in Seq(Chain) /\ Len(t) = Len(chains)
  BY <1>1, <1>2
<1> QED BY <1>1, <1>3 DEF ChainSeq, Chain

\* So do the requests, when chains change that way and one of them advances.
LEMMA AdvanceFits ==
  ASSUME AdShape, NEW r \in AdHandlers, adRequest[r] # Idle, NEW v \in {adRequest[r],
           [adRequest[r] EXCEPT !.step = "ad"], [adRequest[r] EXCEPT !.step = "persist"],
           [adRequest[r] EXCEPT !.step = "ads"]},
         v.step = "ad" => At(r, "set") \/ At(r, "ad"),
         v.step = "persist" => At(r, "ad") \/ At(r, "persist"),
         v.step = "ads" => Switching(r)
  PROVE  Fits(v, Len(chains))
<1>1. adRequest[r] \in AdRequest /\ Fits(adRequest[r], Len(chains))
  BY InProgressFits
<1>2. v \in AdRequest
  BY <1>1 DEF AdRequest, AdStep
<1>3. v.op = adRequest[r].op /\ v.chain = adRequest[r].chain /\ v.ads = adRequest[r].ads
  BY <1>1 DEF AdRequest
<1>4. v.step \in {"ad", "persist"} => adRequest[r].step \in {"set", "ad", "persist"}
  BY DEF At
<1>5. v.step = "set" => adRequest[r].step = "set"
  BY <1>1 DEF AdRequest
<1> QED BY <1>1, <1>2, <1>3, <1>4, <1>5, AdAssumption DEF Fits, Switching, AdDoing, AdAssumption

\* An answered request fits.
LEMMA IdleFits == \A n : Fits(Idle, n)
BY DEF Fits

\* The steps of a publication.
LEMMA PublishShape ==
  ASSUME AdShape, NEW r \in AdHandlers,
         PostCampaign(r) \/ PostAdSet(r) \/ PostAd(r) \/ Persist(r)
  PROVE  AdShape'
<1> DEFINE n == Len(chains)
<1>1. adRequest[r] # Idle /\ adRequest[r] \in AdRequest /\ Fits(adRequest[r], n)
  BY InProgressFits DEF PostCampaign, PostAdSet, PostAd, Persist, AdDoing, At
<1>2. n \in Nat /\ metaId \in 0..n /\ ads \subseteq 1..n /\ DOMAIN chains = 1..n
        /\ abandoned \in Nat
      /\ chains \in ChainSeq /\ adTrouble \in 0..MaxAdTrouble
  BY DEF AdShape, AdTypeOK, ChainSeq
<1>3. CASE PostCampaign(r)
  <2>1. NewChain(r) \in [campaign : Switch, set : Switch \cup {"none"}, ad : Switch \cup {"none"},
                         budget : Budget]
    BY <1>1 DEF NewChain, Switch, AdRequest
  <2>2. Append(chains, NewChain(r)) \in ChainSeq /\ Len(Append(chains, NewChain(r))) = n + 1
    BY <2>1, <1>2 DEF ChainSeq
  <2>3. chains' \in ChainSeq /\ Len(chains') \in {n, n + 1}
    BY <1>2, <1>3, <2>2 DEF PostCampaign
  <2>4. PICK v : adRequest' = [adRequest EXCEPT ![r] = v] /\ Fits(v, Len(chains'))
    <3>3. adRequest[r].op = "publish"
      BY <1>3 DEF PostCampaign, AdDoing
    <3>1. CASE adRequest' = [adRequest EXCEPT ![r].step = "set", ![r].chain = n + 1]
               /\ chains' = Append(chains, NewChain(r))
      <4> DEFINE v == [adRequest[r] EXCEPT !.step = "set", !.chain = n + 1]
      <4>1. adRequest' = [adRequest EXCEPT ![r] = v]
        BY <3>1, <1>1
      <4>2. v \in AdRequest /\ v.step = "set" /\ v.chain = n + 1 /\ v.op = "publish"
            /\ v.ads = adRequest[r].ads
        <5>1. n + 1 \in Nat /\ "set" \in AdStep /\ adRequest[r].op = "publish"
          BY <1>2, <3>3 DEF AdStep
        <5> QED BY <1>1, <5>1 DEF AdRequest
      <4>3. Fits(v, Len(chains'))
        BY <3>1, <2>2, <4>2, <1>1, <1>2 DEF Fits
      <4> QED BY <4>1, <4>3
    <3>2. CASE adRequest' = [adRequest EXCEPT ![r] = Idle]
      BY <3>2, IdleFits
    <3> QED BY <1>3, <3>1, <3>2 DEF PostCampaign, Abandon, AdAnswer
  <2>5. RequestsTyped'
    <3>1. Len(chains') >= Len(chains)
      BY <2>3, <1>2
    <3> QED BY <2>3, <2>4, <3>1, AdRequestFits
  <2>6. DOMAIN chains \subseteq DOMAIN chains' /\ metaId \in 0..Len(chains') /\ abandoned' \in Nat
        /\ adTrouble' \in 0..MaxAdTrouble
    <3>1. DOMAIN chains' = 1..Len(chains')
      BY <2>3 DEF ChainSeq
    <3>2. adTrouble' \in 0..MaxAdTrouble
      BY <1>2, <1>3, FaultCounts DEF PostCampaign
    <3>3. abandoned' \in Nat
      BY <1>2, <1>3 DEF PostCampaign, Abandon
    <3>4. metaId \in 0..Len(chains')
      BY <1>2, <2>3
    <3>5. DOMAIN chains \subseteq DOMAIN chains'
      <4>1. n <= Len(chains') /\ Len(chains') \in Nat
        BY <1>2, <2>3
      <4> HIDE DEF n
      <4>2. 1..n \subseteq 1..Len(chains')
        BY <1>2, <4>1
      <4> QED BY <3>1, <1>2, <4>2
    <3> QED BY <3>2, <3>3, <3>4, <3>5
  <2> QED
    BY <1>3, <2>3, <2>5, <2>6 DEF AdShape, AdTypeOK, ChainSeq, RequestsTyped, PostCampaign, adRow
<1>4. CASE PostAdSet(r) \/ PostAd(r)
  <2>1. adRequest[r].op = "publish" /\ adRequest[r].chain \in DOMAIN chains
    BY <1>1, <1>2, <1>4 DEF Fits, PostAdSet, PostAd, At
  <2>2. chains' \in ChainSeq /\ Len(chains') = n
    BY <1>2, <1>4, <2>1, ChainsChange DEF PostAdSet, PostAd, Switch
  <2>3. PICK v : adRequest' = [adRequest EXCEPT ![r] = v] /\ Fits(v, n)
    <3>1. CASE PostAdSet(r) /\ Advance(r, "ad")
      <4>1. adRequest' = [adRequest EXCEPT ![r] = [adRequest[r] EXCEPT !.step = "ad"]]
        BY <3>1 DEF Advance
      <4>2. Fits([adRequest[r] EXCEPT !.step = "ad"], n)
        BY <3>1, <1>1, AdvanceFits DEF PostAdSet, AdRequest
      <4> QED BY <4>1, <4>2
    <3>2. CASE PostAd(r) /\ Advance(r, "persist")
      <4>1. adRequest' = [adRequest EXCEPT ![r] = [adRequest[r] EXCEPT !.step = "persist"]]
        BY <3>2 DEF Advance
      <4>2. Fits([adRequest[r] EXCEPT !.step = "persist"], n)
        BY <3>2, <1>1, AdvanceFits DEF PostAd, AdRequest
      <4> QED BY <4>1, <4>2
    <3>3. CASE adRequest' = [adRequest EXCEPT ![r] = Idle]
      BY <3>3, IdleFits
    <3> QED BY <1>4, <3>1, <3>2, <3>3 DEF PostAdSet, PostAd, Abandon, AdAnswer
  <2>4. RequestsTyped'
    <3>1. Len(chains') >= Len(chains) /\ Fits(v, Len(chains'))
      BY <2>2, <2>3, <1>2
    <3> QED BY <2>2, <2>3, <3>1, AdRequestFits
  <2>5. abandoned' \in Nat /\ adTrouble' \in 0..MaxAdTrouble /\ DOMAIN chains' = DOMAIN chains
    BY <1>2, <1>4, <2>2, FaultCounts DEF PostAdSet, PostAd, Abandon, ChainSeq
  <2> QED
    BY <1>4, <2>2, <2>4, <2>5
    DEF AdShape, AdTypeOK, ChainSeq, RequestsTyped, PostAdSet, PostAd, adRow
<1>5. CASE Persist(r)
  <2>1. chains' \in ChainSeq /\ Len(chains') >= n /\ chains' = chains
    BY <1>2, <1>5 DEF Persist
  <2>2. adRequest' = [adRequest EXCEPT ![r] = Idle] /\ Fits(Idle, Len(chains'))
    BY <1>5, IdleFits DEF Persist, AdAnswer, Abandon
  <2>3. RequestsTyped'
    BY <2>1, <2>2, AdRequestFits
  <2>4. metaId' \in 0..n /\ ads' \subseteq 1..n /\ abandoned' \in Nat
          /\ adTrouble' \in 0..MaxAdTrouble
        /\ delivery' \in {"PAUSED", "PENDING_META_REVIEW"}
    <3>1. adRequest[r].chain \in 1..n
      BY <1>1, <1>2, <1>5 DEF Fits, Persist, At
    <3>2. delivery \in {"PAUSED", "PENDING_META_REVIEW"}
      BY DEF AdShape, AdTypeOK
    <3>3. adTrouble' \in 0..MaxAdTrouble
      BY <1>2, <1>5, FaultCounts DEF Persist
    <3>4. abandoned' \in Nat
      BY <1>2, <1>5 DEF Persist, Abandon
    <3>5. metaId' \in {metaId, adRequest[r].chain} /\ ads' \subseteq ads \cup {adRequest[r].chain}
          /\ delivery' \in {"PAUSED", delivery}
      BY <1>5 DEF Persist
    <3>6. metaId' \in 0..n
      BY <1>2, <3>1, <3>5
    <3>7. ads' \subseteq 1..n
      BY <1>2, <3>1, <3>5
    <3> QED BY <3>2, <3>3, <3>4, <3>5, <3>6, <3>7
  <2> QED BY <1>2, <1>5, <2>1, <2>3, <2>4 DEF AdShape, AdTypeOK, RequestsTyped, Persist
<1> QED BY <1>3, <1>4, <1>5

\* The steps of a switch, and the death of the process.
LEMMA SwitchShape ==
  ASSUME AdShape, NEW r \in AdHandlers,
         SwitchCampaign(r) \/ SwitchAd(r) \/ SwitchRow(r) \/ AdCrash(r)
  PROVE  AdShape'
<1> DEFINE n == Len(chains)
<1>1. adRequest[r] # Idle /\ adRequest[r] \in AdRequest /\ Fits(adRequest[r], n)
  BY InProgressFits DEF SwitchCampaign, SwitchAd, SwitchRow, AdCrash, At
<1>2. n \in Nat /\ DOMAIN chains = 1..n /\ abandoned \in Nat /\ halfway \in BOOLEAN
      /\ chains \in ChainSeq /\ adTrouble \in 0..MaxAdTrouble
  BY DEF AdShape, AdTypeOK, ChainSeq
<1>3. Wanted(r) \in Switch
  BY DEF Wanted, Switch
<1>4. adTrouble' \in 0..MaxAdTrouble
  BY <1>2, FaultCounts DEF SwitchCampaign, SwitchAd, SwitchRow, AdCrash
<1>5. halfway' \in BOOLEAN
  BY <1>2 DEF SwitchCampaign, SwitchAd, SwitchRow, AdCrash, GiveUp
<1>6. abandoned' \in Nat
  BY <1>2 DEF SwitchCampaign, SwitchAd, SwitchRow, AdCrash
<1>7. chains' \in ChainSeq /\ Len(chains') = n /\ DOMAIN chains' = DOMAIN chains
  <2>1. CASE SwitchCampaign(r)
    <3>1. adRequest[r].chain \in DOMAIN chains
      BY <1>1, <1>2, <2>1 DEF SwitchCampaign, Switching, AdDoing, Fits
    <3> QED BY <1>2, <1>3, <2>1, <3>1, ChainsChange DEF SwitchCampaign
  <2>2. CASE SwitchAd(r)
    <3>1. PICK c \in adRequest[r].ads :
            chains' = chains \/ chains' = [chains EXCEPT ![c].ad = Wanted(r)]
      BY <2>2 DEF SwitchAd
    <3>2. c \in DOMAIN chains
      BY <1>1, <1>2, AdAssumption DEF Fits, AdAssumption
    <3> QED BY <1>2, <1>3, <3>1, <3>2, ChainsChange
  <2>3. CASE SwitchRow(r) \/ AdCrash(r)
    BY <1>2, <2>3 DEF SwitchRow, AdCrash
  <2> QED BY <2>1, <2>2, <2>3
<1>8. PICK v : adRequest' = [adRequest EXCEPT ![r] = v] /\ Fits(v, n)
  <2>1. CASE SwitchCampaign(r) /\ Advance(r, "ads")
    <3>1. adRequest' = [adRequest EXCEPT ![r] = [adRequest[r] EXCEPT !.step = "ads"]]
      BY <2>1 DEF Advance
    <3>2. Fits([adRequest[r] EXCEPT !.step = "ads"], n)
      BY <2>1, <1>1, AdvanceFits DEF SwitchCampaign, AdRequest
    <3> QED BY <3>1, <3>2
  <2>2. CASE SwitchAd(r) /\ \E c \in adRequest[r].ads :
               adRequest' = [adRequest EXCEPT ![r].ads = @ \ {c}]
    <3>1. PICK c \in adRequest[r].ads : adRequest' = [adRequest EXCEPT ![r].ads = @ \ {c}]
      BY <2>2
    <3> DEFINE v == [adRequest[r] EXCEPT !.ads = @ \ {c}]
    <3>2. adRequest' = [adRequest EXCEPT ![r] = v]
      BY <3>1
    <3>3. v \in AdRequest /\ v.ads \subseteq adRequest[r].ads /\ v.op = adRequest[r].op
          /\ v.step = adRequest[r].step /\ v.chain = adRequest[r].chain
      BY <1>1 DEF AdRequest
    <3>4. Fits(v, n)
      BY <1>1, <3>3, AdAssumption DEF Fits, AdAssumption
    <3> QED BY <3>2, <3>4
  <2>3. CASE adRequest' = [adRequest EXCEPT ![r] = Idle]
    BY <2>3, IdleFits
  <2> QED BY <2>1, <2>2, <2>3 DEF SwitchCampaign, SwitchAd, SwitchRow, AdCrash, GiveUp, AdAnswer
<1>9. RequestsTyped'
  <2>1. Len(chains') >= Len(chains) /\ Fits(v, Len(chains'))
    BY <1>2, <1>7, <1>8
  <2> QED BY <1>7, <1>8, <2>1, AdRequestFits
<1>10. /\ UNCHANGED <<review, budget, creative, metaId, ads, reached, adCrossed, adRequests>>
       /\ delivery' \in {"PAUSED", "PENDING_META_REVIEW"}
  <2>1. delivery \in {"PAUSED", "PENDING_META_REVIEW"}
    BY DEF AdShape, AdTypeOK
  <2> QED
    BY <2>1 DEF SwitchCampaign, SwitchAd, SwitchRow, AdCrash, adRow, DeliveryFor
<1> QED
  BY <1>4, <1>5, <1>6, <1>7, <1>9, <1>10 DEF AdShape, AdTypeOK, ChainSeq, RequestsTyped

\* Types are kept by every step.
LEMMA AdShapeNext == AdShape /\ [AdNext]_adVars => AdShape'
<1> SUFFICES ASSUME AdShape, [AdNext]_adVars PROVE AdShape'
  OBVIOUS
<1>1. CASE UNCHANGED adVars
  BY <1>1 DEF adVars, adRow, adHistory, AdShape, AdTypeOK, StagesFit, Switching, AdDoing
<1>2. CASE AdNext
  BY <1>2, RowShape, PublishShape, SwitchShape DEF AdNext, AdHandle
<1> QED BY <1>1, <1>2

-----------------------------------------------------------------------------
(* How requests move.                                                      *)

\* The steps that take a request further, or answer it.
AdProceeds(r) ==
  \/ Update(r) \/ Decide(r)
  \/ PostCampaign(r) \/ PostAdSet(r) \/ PostAd(r) \/ Persist(r)
  \/ SwitchCampaign(r) \/ SwitchAd(r) \/ SwitchRow(r) \/ AdCrash(r)

\* The steps that make a request one of a kind.
AdBegins(r, op) == AdAllowed(op) /\ op \in AdOp /\ AdBegin(r, op) /\ UNCHANGED <<adRow, chains>>

\* Every step of the specification is one of five sorts.
LEMMA StepSorts ==
  ASSUME AdShape, [AdNext]_adVars
  PROVE  \/ Create \/ AllowanceMoves \/ UNCHANGED adVars
         \/ \E r \in AdHandlers : AdProceeds(r)
         \/ \E r \in AdHandlers, op \in AdOp :
              AdBegins(r, op) /\ UNCHANGED <<abandoned, halfway>> /\ (adRequest[r] = Idle
                \/ AdDoing(r, "gated"))
         \/ \E r \in AdHandlers :
              AdDoing(r, "gated") /\ AdAnswer(r)
              /\ UNCHANGED <<adRow, chains, adCrossed, abandoned, halfway>>
BY DEF AdNext, AdHandle, AdProceeds, AdBegins, FindAd, PassGate, AdAnswer, AdOp

\* Nobody's kind changes as a request proceeds, and what it found of the budget stays.
LEMMA KindsStay ==
  ASSUME AdShape, NEW r \in AdHandlers, AdProceeds(r)
  PROVE  /\ adCrossed' = adCrossed
         /\ adRequest[r] # Idle
         /\ \A q \in AdHandlers : q # r => adRequest'[q] = adRequest[q]
         /\ adRequest'[r] # Idle =>
              adRequest'[r].op = adRequest[r].op /\ adRequest'[r].budget = adRequest[r].budget
<1>1. adRequest \in [AdHandlers -> AdRequest \cup {Idle}]
  BY DEF AdShape, AdTypeOK
<1>2. adCrossed' = adCrossed /\ adRequest[r] # Idle
  BY DEF AdProceeds, Update, Decide, PostCampaign, PostAdSet, PostAd, Persist, SwitchCampaign,
         SwitchAd, SwitchRow, AdCrash, AdDoing, At, adHistory
<1>3. CASE adRequest' = [adRequest EXCEPT ![r] = Idle]
  BY <1>1, <1>2, <1>3
<1>4. CASE \E s : adRequest' = [adRequest EXCEPT ![r].step = s]
  BY <1>1, <1>2, <1>4 DEF AdRequest
<1>5. CASE \E s, c : adRequest' = [adRequest EXCEPT ![r].step = s, ![r].chain = c]
  BY <1>1, <1>2, <1>5 DEF AdRequest
<1>6. CASE \E c : adRequest' = [adRequest EXCEPT ![r].ads = @ \ {c}]
  BY <1>1, <1>2, <1>6 DEF AdRequest
<1>7. \/ adRequest' = [adRequest EXCEPT ![r] = Idle]
      \/ \E s : adRequest' = [adRequest EXCEPT ![r].step = s]
      \/ \E s, c : adRequest' = [adRequest EXCEPT ![r].step = s, ![r].chain = c]
      \/ \E c : adRequest' = [adRequest EXCEPT ![r].ads = @ \ {c}]
  BY DEF AdProceeds, Update, Decide, PostCampaign, PostAdSet, PostAd, Persist, SwitchCampaign,
         SwitchAd, SwitchRow, AdCrash, AdAnswer, Abandon, GiveUp, Advance
<1> QED BY <1>2, <1>3, <1>4, <1>5, <1>6, <1>7

\* A request that begins is what it found; the others are what they were.
LEMMA BeginsAs ==
  ASSUME AdShape, NEW r \in AdHandlers, NEW op, AdBegins(r, op)
  PROVE  /\ adRequest'[r] = AdFound(op) /\ adRequest'[r] # Idle
         /\ adRequest'[r].op = op /\ adRequest'[r].step = "found" /\ adRequest'[r].budget = budget
         /\ \A q \in AdHandlers : q # r => adRequest'[q] = adRequest[q]
         /\ adCrossed \subseteq adCrossed'
<1>1. adRequest \in [AdHandlers -> AdRequest \cup {Idle}]
        /\ adRequest' = [adRequest EXCEPT ![r] = AdFound(op)]
  BY DEF AdShape, AdTypeOK, AdBegins, AdBegin
<1>2. AdFound(op) # Idle
  BY FoundFits, AdAssumption DEF AdBegins, AdAssumption
<1> QED BY <1>1, <1>2 DEF AdFound, AdBegins, AdBegin

\* A request that begins without an overlap is apart from those it may not meet.
LEMMA BeginsApart ==
  ASSUME NEW r \in AdHandlers, NEW op, AdBegins(r, op), NEW q \in AdHandlers, q # r
  PROVE  /\ "reviews" \notin adCrossed' /\ op \in {"submit", "approve", "reject"} => ~ Deciding(q)
         /\ "updates" \notin adCrossed' /\ op = "update" => ~ Deciding(q)
         /\ "updates" \notin adCrossed' /\ op \in {"submit", "approve", "reject"} =>
              ~ AdDoing(q, "update")
         /\ "publishes" \notin adCrossed' /\ op = "publish" => ~ AdDoing(q, "publish")
         /\ "switches" \notin adCrossed' /\ op \in {"activate", "pause"} =>
              ~ Switching(q) /\ ~ AdDoing(q, "publish")
         /\ "switches" \notin adCrossed' /\ op = "publish" => ~ Switching(q)
<1> DEFINE beside == {adRequest[p].op : p \in {p \in AdHandlers \ {r} : adRequest[p] # Idle}}
           deciding == {"submit", "approve", "reject"}
           switching == {"activate", "pause"}
<1>1. adCrossed' = adCrossed \cup AdCrossings(op, r)
  BY DEF AdBegins, AdBegin
<1>2. adRequest[q] # Idle => adRequest[q].op \in beside
  OBVIOUS
<1>3. /\ op \in deciding /\ beside \cap deciding # {} => "reviews" \in adCrossed'
      /\ op = "update" /\ beside \cap deciding # {} => "updates" \in adCrossed'
      /\ op \in deciding /\ beside \cap {"update"} # {} => "updates" \in adCrossed'
      /\ op = "publish" /\ beside \cap {"publish"} # {} => "publishes" \in adCrossed'
      /\ op \in switching /\ beside \cap {"activate", "pause", "publish"} # {} =>
           "switches" \in adCrossed'
      /\ op = "publish" /\ beside \cap switching # {} => "switches" \in adCrossed'
  BY <1>1 DEF AdCrossings, AdCrossing
<1> HIDE DEF beside
<1> QED BY <1>2, <1>3 DEF Deciding, AdDoing, Switching

-----------------------------------------------------------------------------
(* The review.                                                             *)

\* Initially nobody decides anything.
LEMMA ApprovalInit == AdInit => ApprovalInv
BY DEF AdInit, ApprovalInv, Deciding, AdDoing

\* Decisions that do not overlap find what they need.
LEMMA ApprovalNext == AdShape /\ ApprovalInv /\ [AdNext]_adVars => ApprovalInv'
<1> SUFFICES ASSUME AdShape, ApprovalInv, [AdNext]_adVars, "reviews" \notin adCrossed'
             PROVE  ApprovalInv'
  BY DEF ApprovalInv
<1>1. ASSUME Create
      PROVE  ApprovalInv'
  BY <1>1 DEF Create, ApprovalInv, Deciding, AdDoing, Editable, adHistory
<1>2. ASSUME AllowanceMoves \/ UNCHANGED adVars
      PROVE  ApprovalInv'
  BY <1>2
  DEF AllowanceMoves, ApprovalInv, Deciding, AdDoing, Editable, adHistory, adRow, adVars
<1>3. ASSUME NEW r \in AdHandlers, AdProceeds(r)
      PROVE  ApprovalInv'
  <2>1. \A q \in AdHandlers, op \in AdOp : AdDoing(q, op)' => AdDoing(q, op)
    BY <1>3, KindsStay DEF AdDoing
  <2>2. "reviews" \notin adCrossed
    BY <1>3, KindsStay
  <2>3. CASE Decide(r)
    <3>1. ~ Deciding(r)'
      BY <2>3 DEF Decide, AdAnswer, AdShape, AdTypeOK, Deciding, AdDoing
    <3>2. \A q \in AdHandlers : ~ Deciding(q)'
      BY <2>1, <2>2, <2>3, <3>1 DEF ApprovalInv, Deciding, Decide, AdOp
    <3>3. review # "APPROVED"
      BY <2>2, <2>3 DEF ApprovalInv, Decide, Editable
    <3> QED
      BY <2>1, <2>2, <2>3, <3>2, <3>3 DEF ApprovalInv, Decide, Deciding, AdOp
  <2>4. CASE ~ Decide(r)
    <3>1. review' = review
      BY <1>3, <2>4
      DEF AdProceeds, Update, PostCampaign, PostAdSet, PostAd, Persist, SwitchCampaign,
          SwitchAd, SwitchRow, AdCrash, adRow
    <3>2. chains' # << >> => chains # << >> \/ AdDoing(r, "publish")
      BY <1>3, <2>4
      DEF AdProceeds, Update, PostCampaign, PostAdSet, PostAd, Persist, SwitchCampaign,
          SwitchAd, SwitchRow, AdCrash, AdShape, AdTypeOK
    <3> QED BY <2>1, <2>2, <3>1, <3>2 DEF ApprovalInv, Deciding, AdOp, Editable
  <2> QED BY <2>3, <2>4
<1>4. ASSUME NEW r \in AdHandlers, NEW op \in AdOp, AdBegins(r, op)
      PROVE  ApprovalInv'
  <2>1. /\ adRequest'[r] # Idle /\ adRequest'[r].op = op /\ adCrossed \subseteq adCrossed'
        /\ \A q \in AdHandlers : q # r => adRequest'[q] = adRequest[q]
    BY <1>4, BeginsAs
  <2>2. "reviews" \notin adCrossed /\ UNCHANGED <<review, chains>>
    BY <1>4, <2>1 DEF AdBegins, adRow
  <2>3. \A q \in AdHandlers : q # r /\ op \in {"submit", "approve", "reject"} => ~ Deciding(q)
    BY <1>4, BeginsApart
  <2>4. /\ op = "submit" => Editable
        /\ op \in {"approve", "reject"} => review = "PENDING_APPROVAL"
        /\ op = "publish" => review = "APPROVED"
    BY <1>4 DEF AdBegins, AdAllowed, AdPublishable
  <2>5. \A p, q \in AdHandlers : Deciding(p)' /\ Deciding(q)' => p = q
    BY <2>1, <2>2, <2>3 DEF ApprovalInv, Deciding, AdDoing
  <2>6. \A q \in AdHandlers :
         /\ AdDoing(q, "submit")' => Editable'
         /\ AdDoing(q, "approve")' \/ AdDoing(q, "reject")' => review' = "PENDING_APPROVAL"
         /\ AdDoing(q, "publish")' => review' = "APPROVED"
    BY <2>1, <2>2, <2>4 DEF ApprovalInv, AdDoing, Editable
  <2> QED BY <2>2, <2>5, <2>6 DEF ApprovalInv
<1>5. ASSUME NEW r \in AdHandlers, AdAnswer(r), UNCHANGED <<adRow, chains, adCrossed>>
      PROVE  ApprovalInv'
  <2>1. \A q \in AdHandlers, op \in AdOp : AdDoing(q, op)' => AdDoing(q, op)
    BY <1>5 DEF AdAnswer, AdDoing, AdShape, AdTypeOK
  <2> QED BY <1>5, <2>1 DEF ApprovalInv, Deciding, AdOp, Editable, adRow
<1> QED BY <1>1, <1>2, <1>3, <1>4, <1>5, StepSorts

-----------------------------------------------------------------------------
(* The cap.                                                                *)

\* The parts of a chain that a change of another part leaves.
LEMMA ChainParts ==
  ASSUME AdShape, NEW d \in DOMAIN chains, NEW s \in Switch, NEW c \in DOMAIN chains
  PROVE  /\ [chains EXCEPT ![d].campaign = s][c].budget = chains[c].budget
         /\ [chains EXCEPT ![d].set = s][c].budget = chains[c].budget
         /\ [chains EXCEPT ![d].ad = s][c].budget = chains[c].budget
         /\ [chains EXCEPT ![d].set = s][c].campaign = chains[c].campaign
         /\ [chains EXCEPT ![d].ad = s][c].campaign = chains[c].campaign
         /\ [chains EXCEPT ![d].campaign = s][c].campaign = IF c = d THEN s ELSE chains[c].campaign
<1> DEFINE Chain == [campaign : Switch, set : Switch \cup {"none"}, ad : Switch \cup {"none"},
                     budget : Budget]
<1>1. chains \in Seq(Chain) /\ chains[c] \in Chain /\ chains[d] \in Chain
  <2>1. chains \in Seq(Chain)
    BY DEF AdShape, AdTypeOK
  <2> HIDE DEF Chain
  <2> QED BY <2>1
<1> QED BY <1>1

\* Where the objects of the chains change: only a switch turns its campaign, only a
\* publication adds a chain, paused and with the budget it found.
LEMMA ChainsMove ==
  ASSUME AdShape, NEW r \in AdHandlers, AdProceeds(r)
  PROVE  /\ \A c \in DOMAIN chains :
              /\ c \in DOMAIN chains' /\ chains'[c].budget = chains[c].budget
              /\ \/ chains'[c].campaign = chains[c].campaign
                 \/ Switching(r) /\ At(r, "found") /\ c = adRequest[r].chain
                    /\ chains'[c].campaign = Wanted(r)
         /\ \A c \in DOMAIN chains' \ DOMAIN chains :
              AdDoing(r, "publish") /\ chains'[c].budget = adRequest[r].budget
              /\ chains'[c].campaign = "PAUSED"
<1> DEFINE n == Len(chains)
<1>1. n \in Nat /\ DOMAIN chains = 1..n /\ chains \in ChainSeq
  BY DEF AdShape, AdTypeOK, ChainSeq
<1>2. adRequest[r] # Idle /\ Fits(adRequest[r], n)
  BY KindsStay, InProgressFits
<1>3. CASE chains' = chains
  BY <1>3
<1>4. CASE PostCampaign(r) /\ chains' = Append(chains, NewChain(r))
  <2>1. /\ DOMAIN chains' = 1..(n + 1) /\ chains'[n + 1] = NewChain(r)
        /\ \A c \in 1..n : chains'[c] = chains[c]
    BY <1>1, <1>4 DEF ChainSeq
  <2>2. AdDoing(r, "publish")
    BY <1>4 DEF PostCampaign
  <2> QED BY <1>1, <2>1, <2>2 DEF NewChain
<1>5. CASE \E d \in DOMAIN chains :
             \/ chains' = [chains EXCEPT ![d].set = "PAUSED"]
             \/ chains' = [chains EXCEPT ![d].ad = "PAUSED"]
             \/ chains' = [chains EXCEPT ![d].ad = Wanted(r)]
             \/ chains' = [chains EXCEPT ![d].campaign = Wanted(r)] /\ d = adRequest[r].chain
                /\ Switching(r) /\ At(r, "found")
  <2>1. "PAUSED" \in Switch /\ Wanted(r) \in Switch
    BY DEF Switch, Wanted
  <2>2. PICK d \in DOMAIN chains, s \in Switch :
          \/ chains' = [chains EXCEPT ![d].set = s]
          \/ chains' = [chains EXCEPT ![d].ad = s]
          \/ chains' = [chains EXCEPT ![d].campaign = s] /\ d = adRequest[r].chain
             /\ s = Wanted(r) /\ Switching(r) /\ At(r, "found")
    BY <1>5, <2>1
  <2>3. DOMAIN chains' = DOMAIN chains
    BY <2>2, ChainsChange
  <2>4. CASE chains' = [chains EXCEPT ![d].set = s]
    BY <2>3, <2>4, ChainParts
  <2>5. CASE chains' = [chains EXCEPT ![d].ad = s]
    BY <2>3, <2>5, ChainParts
  <2>6. CASE chains' = [chains EXCEPT ![d].campaign = s] /\ d = adRequest[r].chain
             /\ s = Wanted(r) /\ Switching(r) /\ At(r, "found")
    BY <2>3, <2>6, ChainParts
  <2> QED BY <2>2, <2>4, <2>5, <2>6
<1>6. PostAdSet(r) \/ PostAd(r) \/ SwitchCampaign(r) => adRequest[r].chain \in DOMAIN chains
  BY <1>1, <1>2 DEF Fits, PostAdSet, PostAd, SwitchCampaign, Switching, AdDoing, At
<1>7. adRequest[r].ads \subseteq DOMAIN chains
  BY <1>1, <1>2, AdAssumption DEF Fits, AdAssumption
<1>8. CASE Update(r) \/ Decide(r) \/ Persist(r) \/ SwitchRow(r) \/ AdCrash(r)
  BY <1>3, <1>8 DEF Update, Decide, Persist, SwitchRow, AdCrash
<1>9. CASE PostCampaign(r)
  BY <1>3, <1>4, <1>9 DEF PostCampaign
<1>10. CASE PostAdSet(r) \/ PostAd(r) \/ SwitchCampaign(r)
  BY <1>3, <1>5, <1>6, <1>10 DEF PostAdSet, PostAd, SwitchCampaign
<1>11. CASE SwitchAd(r)
  BY <1>3, <1>5, <1>7, <1>11 DEF SwitchAd
<1> QED BY <1>8, <1>9, <1>10, <1>11 DEF AdProceeds

\* Initially there is nothing to approve.
LEMMA CapInit == AdInit => CapInv
BY DEF AdInit, CapInv, Deciding, AdDoing

\* An edit beside no decision finds a campaign that has no approval to lose.
LEMMA CapNext == AdShape /\ ApprovalInv /\ CapInv /\ [AdNext]_adVars => CapInv'
<1> SUFFICES ASSUME AdShape, ApprovalInv, CapInv, [AdNext]_adVars,
                    "reviews" \notin adCrossed', "updates" \notin adCrossed'
             PROVE  CapInv'
  BY DEF CapInv
<1>1. ASSUME Create
      PROVE  CapInv'
  BY <1>1 DEF Create, CapInv, ApprovalInv, Deciding, AdDoing, Editable, WithinCap, adHistory
<1>2. ASSUME AllowanceMoves \/ UNCHANGED adVars
      PROVE  CapInv'
  BY <1>2
  DEF AllowanceMoves, CapInv, Deciding, AdDoing, Editable, WithinCap, Budgeted, Projected,
      adHistory, adRow, adVars
<1>3. ASSUME NEW r \in AdHandlers, AdProceeds(r)
      PROVE  CapInv'
  <2>1. \A q \in AdHandlers, op \in AdOp : AdDoing(q, op)' => AdDoing(q, op)
    BY <1>3, KindsStay DEF AdDoing
  <2>2. "reviews" \notin adCrossed /\ "updates" \notin adCrossed /\ adRequest[r] # Idle
    BY <1>3, KindsStay
  <2>3. \A p, q \in AdHandlers : ~ (AdDoing(p, "update")' /\ Deciding(q)')
    BY <2>1, <2>2 DEF CapInv, Deciding, AdOp
  <2>4. \A q \in AdHandlers : AdDoing(q, "publish")' => WithinCap(adRequest'[q].budget)
    BY <1>3, <2>1, <2>2, KindsStay DEF CapInv, AdDoing, AdOp
  <2>5. \A c \in DOMAIN chains' : WithinCap(chains'[c].budget)
    BY <1>3, <2>2, ChainsMove DEF CapInv
  <2>6. CASE Update(r)
    <3>1. Editable /\ review' = review
      BY <2>2, <2>6 DEF CapInv, Update
    <3>2. \A q \in AdHandlers : ~ AdDoing(q, "approve")'
      BY <2>1, <2>2, <2>6, <3>1 DEF ApprovalInv, Editable, AdOp
    <3> QED
      BY <2>2, <2>3, <2>4, <2>5, <3>1, <3>2 DEF CapInv, WithinCap, Editable
  <2>7. CASE Decide(r)
    <3>1. budget' = budget
      BY <2>7 DEF Decide
    <3>2. \A q \in AdHandlers : ~ AdDoing(q, "update")'
      BY <2>1, <2>2, <2>7 DEF CapInv, Deciding, Decide, AdOp
    <3>3. review' = "APPROVED" => WithinCap(budget)
      BY <2>2, <2>7 DEF CapInv, Decide
    <3>4. \A q \in AdHandlers : AdDoing(q, "approve")' => WithinCap(budget)
      BY <2>1, <2>2 DEF CapInv, AdOp
    <3> QED
      BY <2>3, <2>4, <2>5, <3>1, <3>2, <3>3, <3>4
      DEF CapInv, WithinCap, Budgeted, Projected
  <2>8. CASE ~ Update(r) /\ ~ Decide(r)
    <3>1. UNCHANGED <<review, budget>>
      BY <1>3, <2>8
      DEF AdProceeds, PostCampaign, PostAdSet, PostAd, Persist, SwitchCampaign, SwitchAd,
          SwitchRow, AdCrash, adRow
    <3>2. \A q \in AdHandlers :
            /\ AdDoing(q, "update")' => Editable
            /\ AdDoing(q, "approve")' => WithinCap(budget)
      BY <2>1, <2>2 DEF CapInv, AdOp
    <3> QED
      BY <2>2, <2>3, <2>4, <2>5, <3>1, <3>2
      DEF CapInv, WithinCap, Budgeted, Projected, Editable
  <2> QED BY <2>6, <2>7, <2>8
<1>4. ASSUME NEW r \in AdHandlers, NEW op \in AdOp, AdBegins(r, op)
      PROVE  CapInv'
  <2>1. /\ adRequest'[r] # Idle /\ adRequest'[r].op = op /\ adRequest'[r].budget = budget
        /\ adCrossed \subseteq adCrossed'
        /\ \A q \in AdHandlers : q # r => adRequest'[q] = adRequest[q]
    BY <1>4, BeginsAs
  <2>2. /\ "reviews" \notin adCrossed /\ "updates" \notin adCrossed
        /\ UNCHANGED <<review, budget, chains>>
    BY <1>4, <2>1 DEF AdBegins, adRow
  <2>3. \A q \in AdHandlers : q # r =>
          /\ op = "update" => ~ Deciding(q)
          /\ op \in {"submit", "approve", "reject"} => ~ AdDoing(q, "update")
    BY <1>4, BeginsApart
  <2>4. /\ op = "update" => Editable
        /\ op = "approve" => WithinCap(budget)
        /\ op = "publish" => WithinCap(budget)
    BY <1>4, <2>2 DEF AdBegins, AdAllowed, AdPublishable, CapInv
  <2>5. \A p, q \in AdHandlers : ~ (AdDoing(p, "update")' /\ Deciding(q)')
    BY <2>1, <2>2, <2>3 DEF CapInv, Deciding, AdDoing
  <2>6. \A q \in AdHandlers :
         /\ AdDoing(q, "update")' => Editable
         /\ AdDoing(q, "approve")' => WithinCap(budget)
         /\ AdDoing(q, "publish")' => WithinCap(adRequest'[q].budget)
    BY <2>1, <2>2, <2>4 DEF CapInv, AdDoing
  <2> QED
    BY <2>2, <2>5, <2>6 DEF CapInv, Editable, WithinCap, Budgeted, Projected
<1>5. ASSUME NEW r \in AdHandlers, AdAnswer(r), UNCHANGED <<adRow, chains, adCrossed>>
      PROVE  CapInv'
  <2>1. \A q \in AdHandlers : adRequest'[q] # Idle => adRequest'[q] = adRequest[q]
    BY <1>5 DEF AdAnswer, AdShape, AdTypeOK
  <2>2. \A q \in AdHandlers, op \in AdOp : AdDoing(q, op)' => AdDoing(q, op)
    BY <2>1 DEF AdDoing
  <2>3. \A p, q \in AdHandlers : ~ (AdDoing(p, "update")' /\ Deciding(q)')
    BY <1>5, <2>2 DEF CapInv, Deciding, AdOp
  <2>4. \A q \in AdHandlers :
         /\ AdDoing(q, "update")' => Editable
         /\ AdDoing(q, "approve")' => WithinCap(budget)
         /\ AdDoing(q, "publish")' => WithinCap(adRequest'[q].budget)
    BY <1>5, <2>1, <2>2 DEF CapInv, AdDoing, AdOp
  <2> QED
    BY <1>5, <2>3, <2>4 DEF CapInv, Editable, WithinCap, Budgeted, Projected, adRow
<1> QED BY <1>1, <1>2, <1>3, <1>4, <1>5, StepSorts

-----------------------------------------------------------------------------
(* The chains.                                                             *)

\* Initially Meta holds nothing.
LEMMA ChainInit == AdInit => ChainInv
<1> SUFFICES ASSUME AdInit PROVE ChainInv
  OBVIOUS
<1>1. Len(chains) = 0 /\ abandoned = 0 /\ \A r \in AdHandlers : ~ AdDoing(r, "publish")
  BY DEF AdInit, AdDoing
<1> QED BY <1>1 DEF ChainInv

\* What becomes of a publication: how a step of it moves the chains and their count.
LEMMA PublicationMoves ==
  ASSUME AdShape, NEW r \in AdHandlers, AdProceeds(r)
  PROVE  \/ /\ ~ AdDoing(r, "publish") \/ At(r, "found")
            /\ adRequest'[r] = Idle \/ adRequest'[r].op # "publish"
            /\ UNCHANGED <<abandoned, metaId>> /\ Len(chains') = Len(chains)
         \/ /\ AdDoing(r, "publish") /\ At(r, "found") /\ adRequest'[r] # Idle
            /\ adRequest'[r].step # "found" /\ adRequest'[r].op = "publish"
            /\ UNCHANGED <<abandoned, metaId>> /\ Len(chains') = Len(chains) + 1
         \/ /\ AdDoing(r, "publish") /\ At(r, "found") /\ adRequest'[r] = Idle
            /\ UNCHANGED metaId /\ abandoned' = abandoned + 1 /\ Len(chains') = Len(chains) + 1
         \/ /\ AdDoing(r, "publish") /\ ~ At(r, "found")
            /\ \/ adRequest'[r] # Idle /\ adRequest'[r].step # "found"
                    /\ adRequest'[r].op = "publish"
                  /\ UNCHANGED <<abandoned, metaId>>
               \/ adRequest'[r] = Idle /\ UNCHANGED metaId /\ abandoned' = abandoned + 1
               \/ adRequest'[r] = Idle /\ metaId' # 0 /\ UNCHANGED abandoned
            /\ Len(chains') = Len(chains)
<1>1. /\ adRequest \in [AdHandlers -> AdRequest \cup {Idle}] /\ adRequest[r] \in AdRequest
      /\ Fits(adRequest[r], Len(chains)) /\ adRequest[r] # Idle
  BY KindsStay, InProgressFits DEF AdShape, AdTypeOK
<1>2. adRequest'[r] # Idle => adRequest'[r].op = adRequest[r].op
  BY KindsStay
<1>3. CASE Update(r) \/ Decide(r)
  BY <1>1, <1>3 DEF Update, Decide, AdAnswer, AdDoing, adHistory
<1>4. CASE PostCampaign(r)
  <2>1. AdDoing(r, "publish") /\ At(r, "found") /\ UNCHANGED metaId
    BY <1>4 DEF PostCampaign, adRow
  <2>2. CASE chains' = Append(chains, NewChain(r))
             /\ adRequest' = [adRequest EXCEPT ![r].step = "set", ![r].chain = Len(chains) + 1]
             /\ UNCHANGED <<abandoned, adTrouble>>
    <3>1. adRequest'[r] = [adRequest[r] EXCEPT !.step = "set", !.chain = Len(chains) + 1]
      BY <1>1, <2>2
    <3>2. adRequest'[r].step = "set" /\ adRequest'[r].op = "publish"
      BY <1>1, <2>1, <3>1 DEF AdRequest, AdDoing
    <3>3. adRequest'[r] # Idle
      <4>1. Len(chains) + 1 \in Nat /\ "set" \in AdStep
        BY DEF AdShape, AdTypeOK, AdStep
      <4>2. adRequest'[r] \in AdRequest
        BY <1>1, <3>1, <4>1 DEF AdRequest
      <4> QED BY <4>2, AdAssumption DEF AdAssumption
    <3>4. Len(chains') = Len(chains) + 1
      BY <2>2 DEF AdShape, AdTypeOK
    <3> QED BY <2>1, <2>2, <3>2, <3>3, <3>4
  <2>3. CASE Abandon(r) /\ chains' = Append(chains, NewChain(r))
    <3>1. Len(chains') = Len(chains) + 1
      BY <2>3 DEF AdShape, AdTypeOK
    <3> QED BY <1>1, <2>1, <2>3, <3>1 DEF Abandon, AdAnswer
  <2>4. CASE AdAnswer(r) /\ UNCHANGED <<chains, abandoned>>
    BY <1>1, <2>1, <2>4 DEF AdAnswer
  <2> QED BY <1>4, <2>2, <2>3, <2>4 DEF PostCampaign
<1>5. CASE PostAdSet(r) \/ PostAd(r)
  <2>1. AdDoing(r, "publish") /\ ~ At(r, "found") /\ UNCHANGED metaId
    BY <1>1, <1>5 DEF PostAdSet, PostAd, Fits, AdDoing, At, adRow
  <2>2. Len(chains') = Len(chains)
    <3>1. adRequest[r].chain \in DOMAIN chains
      BY <1>1, <1>5 DEF Fits, PostAdSet, PostAd, At, AdShape, AdTypeOK
    <3> QED BY <1>5, <3>1, ChainsChange DEF PostAdSet, PostAd, Switch
  <2>3. CASE \E s \in {"ad", "persist"} : Advance(r, s) /\ UNCHANGED <<abandoned, adTrouble>>
    <3>1. PICK s \in {"ad", "persist"} : adRequest'[r] = [adRequest[r] EXCEPT !.step = s]
      BY <1>1, <2>3 DEF Advance
    <3>2. adRequest'[r].step = s /\ adRequest'[r].op = "publish" /\ adRequest'[r] \in AdRequest
      BY <1>1, <2>1, <3>1 DEF AdRequest, AdDoing, AdStep
    <3> QED BY <2>1, <2>2, <2>3, <3>2, AdAssumption DEF AdAssumption
  <2>4. CASE Abandon(r)
    BY <1>1, <2>1, <2>2, <2>4 DEF Abandon, AdAnswer
  <2> QED BY <1>5, <2>3, <2>4 DEF PostAdSet, PostAd
<1>6. CASE Persist(r)
  BY <1>1, <1>6 DEF Persist, Abandon, AdAnswer, Fits, AdDoing, At
<1>7. CASE SwitchCampaign(r) \/ SwitchAd(r) \/ SwitchRow(r)
  <2>1. ~ AdDoing(r, "publish")
    BY <1>1, <1>7 DEF SwitchCampaign, SwitchAd, SwitchRow, Fits, AdDoing, At, Switching
  <2>2. Len(chains') = Len(chains)
    <3>1. CASE SwitchCampaign(r)
      <4>1. adRequest[r].chain \in DOMAIN chains
        BY <1>1, <3>1 DEF Fits, SwitchCampaign, Switching, AdDoing, AdShape, AdTypeOK
      <4> QED BY <3>1, <4>1, ChainsChange DEF SwitchCampaign, Switch, Wanted
    <3>2. CASE SwitchAd(r)
      <4>1. adRequest[r].ads \subseteq DOMAIN chains
        BY <1>1, AdAssumption DEF AdShape, AdTypeOK
      <4> QED BY <3>2, <4>1, ChainsChange DEF SwitchAd, Switch, Wanted
    <3>3. CASE SwitchRow(r)
      BY <3>3 DEF SwitchRow
    <3> QED BY <1>7, <3>1, <3>2, <3>3
  <2>3. UNCHANGED <<abandoned, metaId>>
    BY <1>7 DEF SwitchCampaign, SwitchAd, SwitchRow, adRow
  <2> QED BY <1>1, <1>2, <2>1, <2>2, <2>3 DEF AdDoing
<1>8. CASE AdCrash(r)
  <2>1. adRequest'[r] = Idle /\ UNCHANGED <<metaId, chains>>
    BY <1>1, <1>8 DEF AdCrash, AdAnswer, adRow
  <2>2. abandoned \in Nat /\ abandoned' = abandoned + (IF AdDoing(r, "publish") /\ ~ At(r,
          "found") THEN 1 ELSE 0)
    BY <1>8 DEF AdCrash, AdShape, AdTypeOK
  <2> QED BY <2>1, <2>2
<1> QED BY <1>3, <1>4, <1>5, <1>6, <1>7, <1>8 DEF AdProceeds

\* Publications that do not overlap leave one chain more than they abandon.
LEMMA ChainNext == AdShape /\ ChainInv /\ [AdNext]_adVars => ChainInv'
<1> SUFFICES ASSUME AdShape, ChainInv, [AdNext]_adVars, "publishes" \notin adCrossed'
             PROVE  ChainInv'
  BY DEF ChainInv
<1>1. Len(chains) \in Nat /\ abandoned \in Nat
  BY DEF AdShape, AdTypeOK
<1>2. ASSUME Create \/ AllowanceMoves \/ UNCHANGED adVars
      PROVE  ChainInv'
  <2>1. UNCHANGED <<metaId, chains, adRequest, adCrossed, abandoned>>
    BY <1>2 DEF Create, AllowanceMoves, adVars, adRow, adHistory
  <2> QED BY <2>1 DEF ChainInv, Begun, AdDoing, At
<1>3. ASSUME NEW r \in AdHandlers, AdProceeds(r)
      PROVE  ChainInv'
  <2>1. /\ "publishes" \notin adCrossed
        /\ \A q \in AdHandlers : q # r => adRequest'[q] = adRequest[q]
        /\ adRequest'[r] # Idle => adRequest'[r].op = adRequest[r].op /\ adRequest[r] # Idle
    BY <1>3, KindsStay
  <2>2. \A q \in AdHandlers : AdDoing(q, "publish")' => AdDoing(q, "publish")
    BY <2>1 DEF AdDoing
  <2>3. \A q, s \in AdHandlers : AdDoing(q, "publish") /\ AdDoing(s, "publish") => q = s
    BY <2>1 DEF ChainInv
  <2>4. \A q \in AdHandlers : AdDoing(q, "publish") => metaId = 0
    BY <2>1 DEF ChainInv
  <2>5. Len(chains) <= abandoned + 1 /\ (metaId = 0 /\ Begun = {} => Len(chains) <= abandoned)
    BY <2>1 DEF ChainInv
  <2>6. \A q \in AdHandlers : q # r => (q \in Begun' <=> q \in Begun)
    BY <2>1 DEF Begun, AdDoing, At
  <2>7. r \in Begun <=> AdDoing(r, "publish") /\ ~ At(r, "found")
    BY DEF Begun
  <2>8. r \in Begun' <=>
          adRequest'[r] # Idle /\ adRequest'[r].op = "publish" /\ adRequest'[r].step # "found"
    BY DEF Begun, AdDoing, At
  <2>9. Begun \subseteq AdHandlers /\ Begun' \subseteq AdHandlers
    BY DEF Begun
  <2>10. AdDoing(r, "publish") /\ At(r, "found") => metaId = 0 /\ Begun = {}
    BY <2>3, <2>4 DEF Begun
  <2>11. /\ Len(chains') <= abandoned' + 1
         /\ metaId' = 0 /\ Begun' = {} => Len(chains') <= abandoned'
    <3>1. CASE /\ ~ AdDoing(r, "publish") \/ At(r, "found")
               /\ adRequest'[r] = Idle \/ adRequest'[r].op # "publish"
               /\ UNCHANGED <<abandoned, metaId>> /\ Len(chains') = Len(chains)
      <4>1. Begun' = Begun
        <5>1. r \notin Begun /\ r \notin Begun'
          BY <2>7, <2>8, <3>1
        <5>2. \A q : q \in Begun' <=> q \in Begun
          BY <2>6, <2>9, <5>1
        <5> QED BY <5>2
      <4> QED BY <1>1, <2>5, <3>1, <4>1
    <3>2. CASE /\ AdDoing(r, "publish") /\ At(r, "found") /\ adRequest'[r] # Idle
               /\ adRequest'[r].step # "found" /\ adRequest'[r].op = "publish"
               /\ UNCHANGED <<abandoned, metaId>> /\ Len(chains') = Len(chains) + 1
      BY <1>1, <2>5, <2>8, <2>10, <3>2
    <3>3. CASE /\ AdDoing(r, "publish") /\ At(r, "found") /\ adRequest'[r] = Idle
               /\ UNCHANGED metaId /\ abandoned' = abandoned + 1 /\ Len(chains') = Len(chains) + 1
      BY <1>1, <2>5, <2>10, <3>3
    <3>4. CASE /\ AdDoing(r, "publish") /\ ~ At(r, "found")
               /\ \/ adRequest'[r] # Idle /\ adRequest'[r].step # "found"
                       /\ adRequest'[r].op = "publish"
                     /\ UNCHANGED <<abandoned, metaId>>
                  \/ adRequest'[r] = Idle /\ UNCHANGED metaId /\ abandoned' = abandoned + 1
                  \/ adRequest'[r] = Idle /\ metaId' # 0 /\ UNCHANGED abandoned
               /\ Len(chains') = Len(chains)
      BY <1>1, <2>5, <2>8, <3>4
    <3> QED BY <1>3, <3>1, <3>2, <3>3, <3>4, PublicationMoves
  <2>12. \A q \in AdHandlers : AdDoing(q, "publish")' => metaId' = 0
    <3> SUFFICES ASSUME NEW q \in AdHandlers, AdDoing(q, "publish")' PROVE metaId' = 0
      OBVIOUS
    <3>1. AdDoing(q, "publish") /\ metaId = 0
      BY <2>2, <2>4
    <3>2. CASE metaId' = metaId
      BY <3>1, <3>2
    <3>3. CASE AdDoing(r, "publish") /\ adRequest'[r] = Idle
      BY <2>3, <3>1, <3>3 DEF AdDoing
    <3> QED BY <1>3, <3>2, <3>3, PublicationMoves
  <2> QED BY <2>2, <2>3, <2>11, <2>12 DEF ChainInv
<1>4. ASSUME NEW r \in AdHandlers, NEW op \in AdOp, AdBegins(r, op), UNCHANGED <<abandoned,
                                                                                 halfway>>,
             adRequest[r] = Idle \/ AdDoing(r, "gated")
      PROVE  ChainInv'
  <2>1. /\ adRequest'[r] # Idle /\ adRequest'[r].op = op /\ adRequest'[r].step = "found"
        /\ adCrossed \subseteq adCrossed'
        /\ \A q \in AdHandlers : q # r => adRequest'[q] = adRequest[q]
    BY <1>4, BeginsAs
  <2>2. /\ "publishes" \notin adCrossed /\ UNCHANGED <<metaId, chains>>
        /\ op = "publish" => metaId = 0
    BY <1>4, <2>1 DEF AdBegins, AdAllowed, AdPublishable, adRow
  <2>3. \A q \in AdHandlers : q # r /\ op = "publish" => ~ AdDoing(q, "publish")
    BY <1>4, BeginsApart
  <2>4. Begun' = Begun
    BY <1>4, <2>1 DEF Begun, AdDoing, At
  <2>5. /\ \A p, q \in AdHandlers : AdDoing(p, "publish")' /\ AdDoing(q, "publish")' => p = q
        /\ \A q \in AdHandlers : AdDoing(q, "publish")' => metaId = 0
    BY <2>1, <2>2, <2>3 DEF ChainInv, AdDoing
  <2> QED BY <1>4, <2>2, <2>4, <2>5 DEF ChainInv
<1>5. ASSUME NEW r \in AdHandlers, AdDoing(r, "gated"), AdAnswer(r),
             UNCHANGED <<adRow, chains, adCrossed, abandoned, halfway>>
      PROVE  ChainInv'
  <2>1. /\ adRequest'[r] = Idle
        /\ \A q \in AdHandlers : q # r => adRequest'[q] = adRequest[q]
    BY <1>5 DEF AdAnswer, AdShape, AdTypeOK
  <2>2. Begun' = Begun
    BY <1>5, <2>1 DEF Begun, AdDoing, At
  <2>3. \A q \in AdHandlers : AdDoing(q, "publish")' => AdDoing(q, "publish")
    BY <2>1 DEF AdDoing
  <2> QED BY <1>5, <2>2, <2>3 DEF ChainInv, adRow
<1> QED BY <1>2, <1>3, <1>4, <1>5, StepSorts

-----------------------------------------------------------------------------
(* The switch.                                                             *)

\* Initially nothing runs.
LEMMA RunInit == AdInit => RunInv
<1> SUFFICES ASSUME AdInit PROVE RunInv
  OBVIOUS
<1>1. DOMAIN chains = {} /\ \A r \in AdHandlers : ~ AdDoing(r, "publish") /\ ~ Switching(r)
        /\ ~ AdDoing(r, "pause")
  BY DEF AdInit, AdDoing, Switching
<1> QED BY <1>1 DEF RunInv

\* The requests that are switching, activating Meta's ads, or pausing them.
Activating(r) == AdDoing(r, "activate") /\ At(r, "ads")
Pausing(r) == AdDoing(r, "pause") /\ At(r, "ads")

\* A request that proceeds beside others stays what it is.
LEMMA SwitchesStay ==
  ASSUME AdShape, NEW r \in AdHandlers, AdProceeds(r)
  PROVE  /\ \A q \in AdHandlers : AdDoing(q, "publish")' => AdDoing(q, "publish")
         /\ \A q \in AdHandlers : Switching(q)' => Switching(q)
         /\ \A q \in AdHandlers \ {r} : UNCHANGED adRequest[q]
         /\ adRequest'[r] # Idle =>
              /\ adRequest'[r].op = adRequest[r].op
              /\ Switching(r) => adRequest'[r].chain = adRequest[r].chain
              /\ adRequest'[r].step = "ads" => At(r, "ads") \/ SwitchCampaign(r)
<1>1. /\ adRequest \in [AdHandlers -> AdRequest \cup {Idle}] /\ adRequest[r] \in AdRequest
      /\ adRequest[r] # Idle /\ Fits(adRequest[r], Len(chains))
  BY KindsStay, InProgressFits DEF AdShape, AdTypeOK
<1>2. \A q \in AdHandlers \ {r} : UNCHANGED adRequest[q]
  BY KindsStay
<1>3. adRequest'[r] # Idle => adRequest'[r].op = adRequest[r].op
  BY KindsStay
<1>4. adRequest'[r] # Idle /\ Switching(r) => adRequest'[r].chain = adRequest[r].chain
  <2>1. \/ AdDoing(r, "publish") \/ adRequest'[r] = Idle
        \/ adRequest' = [adRequest EXCEPT ![r].step = "ads"]
        \/ \E c : adRequest' = [adRequest EXCEPT ![r].ads = @ \ {c}]
    BY <1>1
    DEF AdProceeds, Update, Decide, PostCampaign, PostAdSet, PostAd, Persist, SwitchCampaign,
        SwitchAd, SwitchRow, AdCrash, AdAnswer, Abandon, GiveUp, Advance, Fits, At, AdDoing
  <2> QED BY <1>1, <2>1 DEF AdRequest, Switching, AdDoing
<1>5. adRequest'[r] # Idle /\ adRequest'[r].step = "ads" => At(r, "ads") \/ SwitchCampaign(r)
  <2>1. \/ SwitchCampaign(r) \/ adRequest'[r] = Idle
        \/ \E s \in {"ad", "persist"} : adRequest' = [adRequest EXCEPT ![r].step = s]
        \/ \E c : adRequest' = [adRequest EXCEPT ![r].step = "set", ![r].chain = c]
        \/ \E c : At(r, "ads") /\ adRequest' = [adRequest EXCEPT ![r].ads = @ \ {c}]
    BY <1>1
    DEF AdProceeds, Update, Decide, PostCampaign, PostAdSet, PostAd, Persist,
        SwitchAd, SwitchRow, AdCrash, AdAnswer, Abandon, GiveUp, Advance
  <2> QED BY <1>1, <2>1 DEF AdRequest
<1>6. \A q \in AdHandlers : \A op : AdDoing(q, op)' => AdDoing(q, op)
  BY <1>1, <1>2, <1>3 DEF AdDoing
<1> QED BY <1>2, <1>3, <1>4, <1>5, <1>6 DEF Switching

\* Switches that meet neither each other nor a publication keep Meta and the row together.
LEMMA RunNext == AdShape /\ RunInv /\ [AdNext]_adVars => RunInv'
<1> SUFFICES ASSUME AdShape, RunInv, [AdNext]_adVars, "switches" \notin adCrossed', ~ halfway'
             PROVE  RunInv'
  BY DEF RunInv
<1>1. ASSUME Create \/ AllowanceMoves \/ UNCHANGED adVars
      PROVE  RunInv'
  <2>1. UNCHANGED <<metaId, chains, adRequest, adCrossed, delivery, halfway>>
    BY <1>1 DEF Create, AllowanceMoves, adVars, adRow, adHistory
  <2> QED BY <2>1 DEF RunInv, Paused, Runs, Switching, AdDoing, At
<1>2. ASSUME NEW r \in AdHandlers, AdProceeds(r)
      PROVE  RunInv'
  <2> DEFINE Off == \A c \in DOMAIN chains : Paused(c)
  <2>1. /\ adRequest[r] # Idle /\ adCrossed' = adCrossed /\ Fits(adRequest[r], Len(chains))
        /\ DOMAIN chains = 1..Len(chains)
    BY <1>2, KindsStay, InProgressFits DEF AdShape, AdTypeOK
  <2>2. ~ halfway
    BY <1>2
    DEF AdProceeds, Update, Decide, PostCampaign, PostAdSet, PostAd, Persist, SwitchCampaign,
        SwitchAd, SwitchRow, AdCrash, GiveUp, adHistory
  <2>3. /\ \A p, q \in AdHandlers :
             Switching(p) => ~ AdDoing(q, "publish") /\ (Switching(q) => p = q)
        /\ \A q \in AdHandlers : Switching(q) => adRequest[q].chain = metaId
        /\ \A q \in AdHandlers : AdDoing(q, "publish") => Off
        /\ \A c \in DOMAIN chains : ~ Paused(c) => c = metaId
        /\ \A q \in AdHandlers : Pausing(q) => Off
        /\ delivery = "PAUSED" /\ (\A q \in AdHandlers : ~ Activating(q)) =>
             \A c \in DOMAIN chains : ~ Runs(c)
    BY <2>1, <2>2 DEF RunInv, Pausing, Activating
  <2>4. /\ \A q \in AdHandlers : AdDoing(q, "publish")' => AdDoing(q, "publish")
        /\ \A q \in AdHandlers : Switching(q)' => Switching(q)
        /\ \A q \in AdHandlers \ {r} : UNCHANGED adRequest[q]
        /\ adRequest'[r] # Idle =>
              /\ adRequest'[r].op = adRequest[r].op
              /\ Switching(r) => adRequest'[r].chain = adRequest[r].chain
              /\ adRequest'[r].step = "ads" => At(r, "ads") \/ SwitchCampaign(r)
    BY <1>2, SwitchesStay
  <2>5. \A p, q \in AdHandlers :
          Switching(p)' => ~ AdDoing(q, "publish")' /\ (Switching(q)' => p = q)
    BY <2>3, <2>4
  <2>6. Off => \A c \in DOMAIN chains : ~ Runs(c)
    BY DEF Runs, Paused
  <2>7. (Switching(r) /\ SwitchCampaign(r)) \/ At(r, "ads") => Switching(r)
    BY <2>1 DEF Fits, At, Switching, AdDoing
  <2>9. CASE AdDoing(r, "publish")
    <3>1. Off /\ \A q \in AdHandlers : ~ Switching(q)'
      BY <2>3, <2>4, <2>9
    <3>2. Off'
      BY <1>2, <2>9, <3>1, ChainsMove DEF Paused, Switching, AdDoing
    <3>3. /\ \A q \in AdHandlers : ~ Activating(q)' /\ ~ Pausing(q)'
          /\ \A c \in DOMAIN chains' : ~ Runs(c)'
      BY <3>1, <3>2 DEF Activating, Pausing, Switching, Runs, Paused
    <3> QED BY <2>5, <3>1, <3>2, <3>3 DEF RunInv, Pausing, Activating
  <2>10. CASE ~ AdDoing(r, "publish") /\ ~ Switching(r)
    <3>1. /\ UNCHANGED <<metaId, chains, delivery>> /\ adRequest'[r] = Idle
      BY <1>2, <2>1, <2>10
      DEF AdProceeds, Update, Decide, PostCampaign, PostAdSet, PostAd, Persist, SwitchCampaign,
          SwitchAd, SwitchRow, AdCrash, AdAnswer, Fits, At, AdDoing, Switching, adRow, AdShape,
            AdTypeOK
    <3>2. \A q \in AdHandlers : /\ Switching(q)' => adRequest'[q].chain = adRequest[q].chain
                                /\ Pausing(q)' => Pausing(q)
                                /\ Activating(q) => Activating(q)'
      BY <2>4, <2>10, <3>1 DEF Switching, Pausing, Activating, AdDoing, At
    <3> QED BY <2>3, <2>4, <2>5, <3>1, <3>2 DEF RunInv, Pausing, Activating, Paused, Runs
  <2>11. CASE Switching(r)
    <3>1. /\ \A q \in AdHandlers : ~ AdDoing(q, "publish")'
          /\ \A q \in AdHandlers \ {r} : ~ Switching(q)'
          /\ adRequest[r].chain = metaId /\ metaId' = metaId
          /\ ~ AdDoing(r, "publish")
      <4>1. metaId' = metaId
        BY <1>2, <2>1, <2>11
        DEF AdProceeds, Update, Decide, PostCampaign, PostAdSet, PostAd, Persist, SwitchCampaign,
            SwitchAd, SwitchRow, AdCrash, Fits, At, AdDoing, Switching, adRow
      <4> QED BY <2>3, <2>4, <2>11, <4>1
    <3>2. \A q \in AdHandlers : Switching(q)' => adRequest'[q].chain = metaId'
      BY <2>4, <2>11, <3>1 DEF Switching, AdDoing
    <3>3. \A c \in DOMAIN chains' : ~ Paused(c)' => c = metaId'
      BY <1>2, <2>3, <3>1, ChainsMove DEF Paused
    <3>4. CASE SwitchCampaign(r) /\ Advance(r, "ads")
               /\ chains' = [chains EXCEPT ![adRequest[r].chain].campaign = Wanted(r)]
      <4>1. adRequest'[r] # Idle /\ adRequest'[r].op = adRequest[r].op /\ adRequest'[r].step = "ads"
        <5>1. adRequest'[r] = [adRequest[r] EXCEPT !.step = "ads"] /\ adRequest[r] \in AdRequest
          BY <2>1, <3>4 DEF Advance, AdShape, AdTypeOK
        <5>2. adRequest'[r] \in AdRequest
          BY <5>1 DEF AdRequest, AdStep
        <5> QED BY <5>1, <5>2, <2>4, AdAssumption DEF AdRequest, AdAssumption
      <4>2. CASE AdDoing(r, "activate")
        <5>1. Activating(r)' /\ ~ Pausing(r)'
          BY <4>1, <4>2 DEF Activating, Pausing, AdDoing, At
        <5>2. \A q \in AdHandlers : ~ Pausing(q)'
          BY <3>1, <5>1 DEF Pausing, Switching
        <5> QED BY <2>5, <3>1, <3>2, <3>3, <5>1, <5>2 DEF RunInv, Activating, Pausing
      <4>3. CASE AdDoing(r, "pause")
        <5>1. adRequest[r].chain \in DOMAIN chains /\ Wanted(r) = "PAUSED"
          BY <2>1, <2>11, <4>3 DEF Fits, Wanted, AdDoing, Switching
        <5>2. DOMAIN chains' = DOMAIN chains
              /\ \A c \in DOMAIN chains : Paused(c)' <=> (c = metaId \/ Paused(c))
          BY <3>1, <3>4, <5>1, ChainParts, ChainsChange DEF Paused, Switch
        <5>3. Off'
          BY <2>3, <5>2
        <5>4. \A c \in DOMAIN chains' : ~ Runs(c)'
          BY <5>3 DEF Runs, Paused
        <5> QED BY <2>5, <3>1, <3>2, <3>3, <5>3, <5>4 DEF RunInv, Pausing
      <4> QED BY <2>11, <4>2, <4>3 DEF Switching
    <3>5. CASE SwitchAd(r) /\ \E c \in adRequest[r].ads :
                 adRequest' = [adRequest EXCEPT ![r].ads = @ \ {c}]
      <4>1. adRequest'[r] # Idle /\ adRequest'[r].op = adRequest[r].op /\ adRequest'[r].step = "ads"
        <5>1. PICK c \in adRequest[r].ads : adRequest'[r] = [adRequest[r] EXCEPT !.ads = @ \ {c}]
          BY <2>1, <3>5 DEF AdShape, AdTypeOK
        <5>2. adRequest[r] \in AdRequest /\ adRequest[r].step = "ads"
          BY <2>1, <3>5 DEF SwitchAd, At, AdShape, AdTypeOK
        <5>3. adRequest'[r] \in AdRequest
          BY <5>1, <5>2 DEF AdRequest
        <5> QED BY <5>1, <5>2, <5>3, <2>4, AdAssumption DEF AdRequest, AdAssumption
      <4>2. At(r, "ads") /\ delivery' = delivery
        BY <3>5 DEF SwitchAd, adRow
      <4>3. CASE AdDoing(r, "activate")
        <5>1. Activating(r)' /\ ~ Pausing(r)'
          BY <4>1, <4>3 DEF Activating, Pausing, AdDoing, At
        <5>2. \A q \in AdHandlers : ~ Pausing(q)'
          BY <3>1, <5>1 DEF Pausing, Switching
        <5> QED BY <2>5, <3>1, <3>2, <3>3, <5>1, <5>2 DEF RunInv, Activating, Pausing
      <4>4. CASE AdDoing(r, "pause")
        <5>1. Off
          BY <2>3, <4>2, <4>4 DEF Pausing
        <5>2. Off'
          BY <1>2, <2>1, <3>1, <4>2, <5>1, ChainsMove DEF Paused, At
        <5>3. \A c \in DOMAIN chains' : ~ Runs(c)'
          BY <5>2 DEF Runs, Paused
        <5> QED BY <2>5, <3>1, <3>2, <3>3, <5>2, <5>3 DEF RunInv, Pausing
      <4> QED BY <2>11, <4>3, <4>4 DEF Switching
    <3>6. CASE AdAnswer(r) /\ ~ At(r, "ads") /\ UNCHANGED <<chains, delivery>>
      <4>1. adRequest'[r] = Idle
        BY <2>1, <3>6 DEF AdAnswer, AdShape, AdTypeOK
      <4>2. \A q \in AdHandlers : ~ Pausing(q)' /\ ~ Switching(q)'
        BY <3>1, <4>1 DEF Switching, Pausing, AdDoing
      <4>3. \A q \in AdHandlers : ~ Activating(q)
        BY <2>3, <2>11, <3>6 DEF Activating, Switching
      <4>4. delivery' = "PAUSED" => \A c \in DOMAIN chains' : ~ Runs(c)'
        BY <2>3, <3>6, <4>3 DEF Runs
      <4> QED BY <2>5, <3>1, <3>2, <3>3, <4>2, <4>4 DEF RunInv, Pausing
    <3>7. CASE SwitchRow(r) /\ AdAnswer(r) /\ delivery' = DeliveryFor(Wanted(r))
      <4>1. adRequest'[r] = Idle /\ chains' = chains /\ At(r, "ads")
        BY <2>1, <3>7 DEF SwitchRow, AdAnswer, AdShape, AdTypeOK
      <4>2. \A q \in AdHandlers : ~ Pausing(q)' /\ ~ Switching(q)'
        BY <3>1, <4>1 DEF Switching, Pausing, AdDoing
      <4>3. delivery' = "PAUSED" => Pausing(r)
        BY <2>11, <3>7, <4>1 DEF DeliveryFor, Wanted, Pausing, Switching
      <4>4. delivery' = "PAUSED" => \A c \in DOMAIN chains' : ~ Runs(c)'
        BY <2>3, <2>6, <4>1, <4>3 DEF Runs
      <4> QED BY <2>5, <3>1, <3>2, <3>3, <4>2, <4>4 DEF RunInv, Pausing
    <3> QED
      BY <1>2, <2>1, <2>11, <3>4, <3>5, <3>6, <3>7
      DEF AdProceeds, Update, Decide, PostCampaign, PostAdSet, PostAd, Persist, SwitchCampaign,
          SwitchAd, SwitchRow, AdCrash, GiveUp, Fits, At, AdDoing, Switching, adRow
  <2> QED BY <2>9, <2>10, <2>11
<1>3. ASSUME NEW r \in AdHandlers, NEW op \in AdOp, AdBegins(r, op), UNCHANGED <<abandoned,
                                                                                 halfway>>,
             adRequest[r] = Idle \/ AdDoing(r, "gated")
      PROVE  RunInv'
  <2>1. /\ adRequest'[r] # Idle /\ adRequest'[r].op = op /\ adRequest'[r].step = "found"
        /\ adRequest'[r] = AdFound(op) /\ adCrossed \subseteq adCrossed'
        /\ \A q \in AdHandlers : q # r => adRequest'[q] = adRequest[q]
    BY <1>3, BeginsAs
  <2>2. "switches" \notin adCrossed /\ ~ halfway /\ UNCHANGED <<metaId, chains, delivery>>
    BY <1>3, <2>1 DEF AdBegins, adRow
  <2>3. op \in {"activate", "pause"} => adRequest'[r].chain = metaId
    BY <2>1 DEF AdFound
  <2>4. \A q \in AdHandlers : q # r =>
          /\ op \in {"activate", "pause"} => ~ Switching(q) /\ ~ AdDoing(q, "publish")
          /\ op = "publish" => ~ Switching(q)
    BY <1>3, BeginsApart
  <2>5. op = "publish" => \A c \in DOMAIN chains : Paused(c)
    <3>1. op = "publish" => metaId = 0
      BY <1>3 DEF AdBegins, AdAllowed, AdPublishable
    <3>2. \A c \in DOMAIN chains : c # 0
      BY DEF AdShape, AdTypeOK
    <3> QED BY <2>2, <3>1, <3>2 DEF RunInv
  <2>6. ~ Activating(r) /\ \A q \in AdHandlers : /\ Activating(q) => Activating(q)'
                                                 /\ Pausing(q)' => Pausing(q)
    BY <1>3, <2>1 DEF Activating, Pausing, AdDoing, At
  <2>7. \A p, q \in AdHandlers :
          Switching(p)' => ~ AdDoing(q, "publish")' /\ (Switching(q)' => p = q)
    BY <2>1, <2>2, <2>4 DEF RunInv, Switching, AdDoing
  <2>8. \A q \in AdHandlers : /\ Switching(q)' => adRequest'[q].chain = metaId
                              /\ AdDoing(q, "publish")' => \A c \in DOMAIN chains : Paused(c)
    BY <2>1, <2>2, <2>3, <2>5 DEF RunInv, Switching, AdDoing
  <2> QED BY <2>2, <2>6, <2>7, <2>8 DEF RunInv, Activating, Pausing, Paused, Runs
<1>4. ASSUME NEW r \in AdHandlers, AdDoing(r, "gated"), AdAnswer(r),
             UNCHANGED <<adRow, chains, adCrossed, abandoned, halfway>>
      PROVE  RunInv'
  <2>1. /\ adRequest'[r] = Idle
        /\ \A q \in AdHandlers : q # r => adRequest'[q] = adRequest[q]
    BY <1>4 DEF AdAnswer, AdShape, AdTypeOK
  <2>2. \A q \in AdHandlers :
          /\ Switching(q)' => Switching(q) /\ adRequest'[q].chain = adRequest[q].chain
          /\ AdDoing(q, "publish")' => AdDoing(q, "publish")
          /\ Pausing(q)' => Pausing(q)
          /\ Activating(q) => Activating(q)'
    BY <1>4, <2>1 DEF Switching, Pausing, Activating, AdDoing, At
  <2>3. "switches" \notin adCrossed /\ ~ halfway /\ UNCHANGED <<metaId, chains, delivery>>
    BY <1>4 DEF adRow
  <2> QED BY <2>2, <2>3 DEF RunInv, Activating, Pausing, Paused, Runs
<1> QED BY <1>1, <1>2, <1>3, <1>4, StepSorts

-----------------------------------------------------------------------------
(* The theorems.                                                           *)

AdIInv == AdShape /\ ApprovalInv /\ CapInv /\ ChainInv /\ RunInv

\* The inductive invariant holds in every state.
LEMMA AdInvariant == AdSpec => []AdIInv
<1>1. AdInit => AdIInv
  BY AdShapeInit, ApprovalInit, CapInit, ChainInit, RunInit DEF AdIInv
<1>2. AdIInv /\ [AdNext]_adVars => AdIInv'
  BY AdShapeNext, ApprovalNext, CapNext, ChainNext, RunNext DEF AdIInv
<1> QED BY <1>1, <1>2, PTL DEF AdSpec

\* Types: requests read and write what they say.
THEOREM AdTypeCorrect == AdSpec => []AdTypeOK
<1>1. AdIInv => AdTypeOK
  BY DEF AdIInv, AdShape
<1> QED BY <1>1, AdInvariant, PTL

\* The four promises of an ad campaign, for any budgets, any cap and any number of requests
\* and faults.
THEOREM AdsCorrect == AdSpec => []AdsSound
<1>1. ASSUME AdIInv PROVE AdsSound
  <2>1. SpendWithinCap
    BY <1>1, AdAssumption DEF AdIInv, CapInv, SpendWithinCap, WithinCap, Projected, AdAssumption
  <2>2. ChainsAccountedFor
    BY <1>1 DEF AdIInv, ChainInv, ChainsAccountedFor, AdShape, AdTypeOK
  <2>3. PausedDoesNotRun
    BY <1>1 DEF AdIInv, RunInv, PausedDoesNotRun, Switching
  <2>4. PublishedStaysApproved
    BY <1>1 DEF AdIInv, ApprovalInv, PublishedStaysApproved
  <2> QED BY <2>1, <2>2, <2>3, <2>4 DEF AdsSound
<1> QED BY <1>1, AdInvariant, PTL

-----------------------------------------------------------------------------
(* Features: any plans, dependencies and caches.                             *)

\* A resolution that nothing has overtaken holds the organisation as it is; who has read
\* the assignments has read the organisation before.
ReadsAreCurrent ==
  /\ HaveRows \subseteq HaveOrg
  /\ \A c \in HaveOrg :
       ~ caller[c].old => caller[c].org = [status |-> orgStatus, plan |-> orgPlan]
  /\ \A c \in HaveRows : ~ caller[c].old => caller[c].read = Current

\* A set that is about to be stored is closed, and while no changes overlapped the rows it
\* was read beside are the rows there are.
WantedIsClosed ==
  \A a \in Admins : admin[a] # Absent /\ admin[a].step = "reading" =>
    /\ Closed(admin[a].wanted)
    /\ ~ mixed => admin[a].found = {f \in Features : rows[f] # Absent}

EntIInv == EntTypeOK /\ ReadsAreCurrent /\ WantedIsClosed /\ StaleNeedsCause /\ SetIsGranted

\* resolveDependencies() adds what is needed and nothing to a set that has it.
LEMMA ClosureIsClosed ==
  ASSUME NEW S \in SUBSET Features
  PROVE  Closure(S) \in SUBSET Features /\ Closed(Closure(S))
<1>1. \A f \in Closure(S) : Needs[f] \subseteq Closure(S)
  <2> SUFFICES ASSUME NEW f \in Closure(S), NEW g \in Needs[f] PROVE g \in Closure(S)
    OBVIOUS
  <2>1. f \in Features /\ g \in Features
    BY EntitlementAssumption DEF Closure
  <2>2. \A T \in SUBSET Features : S \subseteq T /\ Closed(T) => g \in T
    BY DEF Closure, Closed
  <2> QED BY <2>1, <2>2 DEF Closure
<1> QED BY <1>1 DEF Closure, Closed

LEMMA ClosedIsItsClosure ==
  ASSUME NEW S \in SUBSET Features, Closed(S)
  PROVE  Closure(S) = S
BY DEF Closure

\* What is computed is a feature set.
LEMMA CurrentIsSnapshot ==
  /\ \A p : Entitled(p) \in SUBSET Features
  /\ orgStatus \in OrgStatus => Current \in Snapshot
BY DEF Entitled, Effective, Current, Snapshot, Closure

LEMMA EntInitIInv == EntInit => EntIInv
<1> SUFFICES ASSUME EntInit PROVE EntIInv
  OBVIOUS
<1> USE EntitlementAssumption DEF EntInit
<1>1. rows \in [Features -> Row \cup {Absent}]
  <2>1. PICK named \in SUBSET Features :
          rows = [f \in Features |->
                    IF f \notin Closure(named) THEN Absent
                    ELSE [enabled |-> TRUE,
                          source |-> IF f \in Bundle[orgPlan] THEN "PLAN" ELSE "GRANT"]]
    OBVIOUS
  <2> QED BY <2>1 DEF Row
<1>2. /\ caller \in [Callers -> Resolution \cup {Absent}]
      /\ admin \in [Admins -> Reading \cup {Committed, Absent}]
  OBVIOUS
<1>3. changes \in 0..MaxChanges /\ cacheFaults \in 0..MaxCacheFaults
  OBVIOUS
<1>4. EntTypeOK
  BY <1>1, <1>2, <1>3 DEF EntTypeOK, OrgStatus
<1> QED BY <1>4 DEF EntIInv, ReadsAreCurrent, HaveOrg, HaveRows, WantedIsClosed, StaleNeedsCause, SetIsGranted


\* Every operation keeps the types.
LEMMA EntTypeNext == EntTypeOK /\ [EntNext]_entVars => EntTypeOK'
<1> SUFFICES ASSUME EntTypeOK, [EntNext]_entVars PROVE EntTypeOK'
  OBVIOUS
<1>14. \A kind : Trouble(kind) => cacheFaults' \in 0..MaxCacheFaults
  <2>1. cacheFaults \in 0..MaxCacheFaults /\ MaxCacheFaults \in Nat
    BY EntitlementAssumption DEF EntTypeOK
  <2> QED BY <2>1 DEF Trouble
<1>8. \A a : Begins(a) => changes' \in 0..MaxChanges
  <2>1. changes \in 0..MaxChanges /\ MaxChanges \in Nat
    BY EntitlementAssumption DEF EntTypeOK
  <2> QED BY <2>1 DEF Begins
<1>15. Committed.step = "committed"
  BY DEF Committed
<1> USE EntitlementAssumption
<1>1. CASE UNCHANGED entVars
  BY <1>1 DEF EntTypeOK, entVars, orgRows
<1>2. CASE CacheExpires
  BY <1>2 DEF EntTypeOK, CacheExpires, orgRows
<1>3. ASSUME NEW c \in Callers, Miss(c) PROVE EntTypeOK'
  <2>1. [org |-> Absent, read |-> Absent, old |-> FALSE] \in Resolution
    BY DEF Resolution
  <2>2. caller' \in [Callers -> Resolution \cup {Absent}]
    BY <1>3, <2>1 DEF EntTypeOK, Miss
  <2>3. cacheFaults' \in 0..MaxCacheFaults
    BY <1>3, <1>14 DEF EntTypeOK, Miss
  <2> QED BY <1>3, <2>2, <2>3 DEF EntTypeOK, Miss, orgRows
<1>4. ASSUME NEW c \in Callers, ReadOrg(c) PROVE EntTypeOK'
  <2>1. [status |-> orgStatus, plan |-> orgPlan] \in OrgRow
    BY DEF OrgRow, EntTypeOK
  <2>2. caller[c] \in Resolution
    BY <1>4 DEF EntTypeOK, ReadOrg
  <2>3. [caller[c] EXCEPT !.org = [status |-> orgStatus, plan |-> orgPlan]] \in Resolution
    BY <2>1, <2>2 DEF Resolution
  <2>4. caller' \in [Callers -> Resolution \cup {Absent}]
    BY <1>4, <2>3 DEF EntTypeOK, ReadOrg
  <2> QED BY <1>4, <2>4 DEF EntTypeOK, ReadOrg, orgRows
<1>16. ASSUME NEW c \in Callers, ReadRows(c) PROVE EntTypeOK'
  <2> DEFINE snapshot == [status |-> caller[c].org.status,
                          features |-> Entitled(caller[c].org.plan)]
  <2>1. caller[c] \in Resolution /\ caller[c].org \in OrgRow
    BY <1>16 DEF EntTypeOK, ReadRows, Resolution
  <2>2. snapshot \in Snapshot
    BY <2>1, CurrentIsSnapshot DEF Snapshot, OrgRow
  <2> HIDE DEF snapshot
  <2>3. [caller[c] EXCEPT !.read = snapshot] \in Resolution
    BY <2>1, <2>2 DEF Resolution
  <2>4. caller' = [caller EXCEPT ![c].read = snapshot]
    BY <1>16 DEF ReadRows, snapshot
  <2>5. caller' \in [Callers -> Resolution \cup {Absent}]
    BY <2>3, <2>4 DEF EntTypeOK
  <2> QED BY <1>16, <2>5 DEF EntTypeOK, ReadRows, orgRows
<1>5. ASSUME NEW c \in Callers, StoreSnapshot(c) PROVE EntTypeOK'
  <2>1. caller[c].read \in Snapshot
    BY <1>5 DEF EntTypeOK, StoreSnapshot, Resolution
  <2>2. cached' \in Snapshot \cup {Absent} /\ excuse' \in {"none", "overlap", "not invalidated"}
    BY <1>5, <2>1 DEF EntTypeOK, StoreSnapshot
  <2>3. cacheFaults' \in 0..MaxCacheFaults
    BY <1>5, <1>14 DEF EntTypeOK, StoreSnapshot
  <2>4. caller' \in [Callers -> Resolution \cup {Absent}]
    BY <1>5 DEF EntTypeOK, StoreSnapshot
  <2> QED BY <1>5, <2>2, <2>3, <2>4 DEF EntTypeOK, StoreSnapshot, orgRows
<1>6. ASSUME NEW S \in {HaveOrg, HaveRows}
      PROVE  Overtaken(S) \in [Callers -> Resolution \cup {Absent}]
  <2>1. S \subseteq {c \in Callers : caller[c] # Absent}
    BY DEF HaveOrg, HaveRows
  <2> SUFFICES ASSUME NEW c \in Callers, caller[c] # Absent
               PROVE  [caller[c] EXCEPT !.old = TRUE] \in Resolution
    BY <2>1 DEF Overtaken, EntTypeOK
  <2> QED BY DEF EntTypeOK, Resolution
<1>7. ASSUME NEW a \in Admins, NEW S \in {HaveOrg, HaveRows}, Commits(a, S)
      PROVE  /\ admin' \in [Admins -> Reading \cup {Committed, Absent}]
             /\ caller' \in [Callers -> Resolution \cup {Absent}]
  BY <1>6, <1>7 DEF EntTypeOK, Commits
<1>9. ASSUME NEW a \in Admins, SetOrgStatus(a) PROVE EntTypeOK'
  <2>1. orgStatus' \in OrgStatus /\ UNCHANGED <<orgPlan, rows, cached, asked, mixed, excuse, cacheFaults>>
    BY <1>9 DEF SetOrgStatus
  <2> QED BY <1>7, <1>8, <1>9, <2>1 DEF EntTypeOK, SetOrgStatus
<1>10. ASSUME NEW a \in Admins, ChangePlan(a) PROVE EntTypeOK'
  <2>1. [enabled |-> TRUE, source |-> "PLAN"] \in Row
    BY DEF Row
  <2>2. rows' \in [Features -> Row \cup {Absent}]
    BY <1>10, <2>1 DEF ChangePlan, EntTypeOK
  <2>3. mixed' \in BOOLEAN
    BY <1>10 DEF ChangePlan, Mixes
  <2> QED BY <1>7, <1>8, <1>10, <2>2, <2>3 DEF EntTypeOK, ChangePlan
<1>11. ASSUME NEW a \in Admins, ReadAssignments(a) PROVE EntTypeOK'
  <2>1. PICK S \in SUBSET Features :
          admin' = [admin EXCEPT ![a] =
                      [step |-> "reading", wanted |-> Closure(S),
                       found |-> {f \in Features : rows[f] # Absent}]]
    BY <1>11 DEF ReadAssignments
  <2>2. [step |-> "reading", wanted |-> Closure(S), found |-> {f \in Features : rows[f] # Absent}]
          \in Reading
    BY ClosureIsClosed DEF Reading
  <2>3. admin' \in [Admins -> Reading \cup {Committed, Absent}]
    BY <2>1, <2>2 DEF EntTypeOK
  <2> QED BY <1>8, <1>11, <2>3 DEF EntTypeOK, ReadAssignments, orgRows
<1>12. ASSUME NEW a \in Admins, SetFeatures(a) PROVE EntTypeOK'
  <2>1. admin[a] \in Reading
    BY <1>12, <1>15 DEF EntTypeOK, SetFeatures
  <2>2. \A f \in Features : Granted(f) \in Row
    BY DEF Granted, EntTypeOK, Row
  <2>3. \A f \in Features : rows[f] # Absent => [rows[f] EXCEPT !.enabled = FALSE] \in Row
    BY DEF EntTypeOK, Row
  <2>4. rows' \in [Features -> Row \cup {Absent}]
    BY <1>12, <2>2, <2>3 DEF SetFeatures, EntTypeOK
  <2>5. mixed' \in BOOLEAN /\ asked' \subseteq Features
    BY <1>12, <2>1 DEF SetFeatures, Mixes, Reading
  <2> QED BY <1>7, <1>12, <2>4, <2>5 DEF EntTypeOK, SetFeatures
<1>13. ASSUME NEW a \in Admins, Invalidate(a) PROVE EntTypeOK'
  <2>1. cacheFaults' \in 0..MaxCacheFaults
    BY <1>13, <1>14 DEF EntTypeOK, Invalidate
  <2>2. admin' \in [Admins -> Reading \cup {Committed, Absent}]
    BY <1>13 DEF EntTypeOK, Invalidate
  <2>3. cached' \in Snapshot \cup {Absent} /\ excuse' \in {"none", "overlap", "not invalidated"}
    BY <1>13 DEF EntTypeOK, Invalidate, Invalidated
  <2> QED BY <1>13, <2>1, <2>2, <2>3 DEF EntTypeOK, Invalidate, orgRows
<1> QED BY <1>1, <1>2, <1>3, <1>4, <1>5, <1>9, <1>10, <1>11, <1>12, <1>13, <1>16 DEF EntNext


\* What a resolution holds is what there is, or marked old by the commit that replaced it.
LEMMA ReadsNext ==
  EntTypeOK /\ ReadsAreCurrent /\ [EntNext]_entVars => ReadsAreCurrent'
<1> SUFFICES ASSUME EntTypeOK, ReadsAreCurrent, [EntNext]_entVars PROVE ReadsAreCurrent'
  OBVIOUS
<1>1. ASSUME UNCHANGED orgRows PROVE Current' = Current /\ UNCHANGED <<orgStatus, orgPlan>>
  BY <1>1 DEF Current, Effective, Entitled, orgRows
<1>2. ASSUME UNCHANGED <<orgRows, caller>> PROVE ReadsAreCurrent'
  BY <1>1, <1>2 DEF ReadsAreCurrent, HaveOrg, HaveRows
<1>4. ASSUME NEW c \in Callers, Miss(c) PROVE ReadsAreCurrent'
  <2>1. /\ caller'[c] = [org |-> Absent, read |-> Absent, old |-> FALSE]
        /\ \A d \in Callers \ {c} : caller'[d] = caller[d]
    BY <1>4 DEF Miss, EntTypeOK
  <2>2. UNCHANGED orgRows
    BY <1>4 DEF Miss
  <2> QED BY <1>1, <2>1, <2>2 DEF ReadsAreCurrent, HaveOrg, HaveRows
<1>5. ASSUME NEW c \in Callers, ReadOrg(c) PROVE ReadsAreCurrent'
  <2>1. caller[c] \in Resolution /\ UNCHANGED orgRows
    BY <1>5 DEF EntTypeOK, ReadOrg
  <2>2. caller'[c] = [caller[c] EXCEPT !.org = [status |-> orgStatus, plan |-> orgPlan]]
    BY <1>5 DEF ReadOrg, EntTypeOK
  <2>3. \A d \in Callers \ {c} : caller'[d] = caller[d]
    BY <1>5 DEF ReadOrg, EntTypeOK
  <2>4. caller[c].read = Absent
    BY <1>5 DEF ReadsAreCurrent, HaveOrg, HaveRows, ReadOrg
  <2>5. /\ caller'[c].org = [status |-> orgStatus, plan |-> orgPlan]
        /\ caller'[c].read = Absent
    BY <2>1, <2>2, <2>4 DEF Resolution
  <2>6. caller'[c].org # Absent
    <3>1. [status |-> orgStatus, plan |-> orgPlan] \in OrgRow
      BY DEF OrgRow, EntTypeOK
    <3>2. Absent \notin OrgRow
      BY EntitlementAssumption
    <3> QED BY <2>5, <3>1, <3>2
  <2> QED BY <1>1, <2>1, <2>3, <2>5, <2>6 DEF ReadsAreCurrent, HaveOrg, HaveRows
<1>6. ASSUME NEW c \in Callers, ReadRows(c) PROVE ReadsAreCurrent'
  <2> DEFINE snapshot == [status |-> caller[c].org.status,
                          features |-> Entitled(caller[c].org.plan)]
  <2>1. caller[c] \in Resolution /\ UNCHANGED orgRows /\ c \in HaveOrg
    BY <1>6 DEF EntTypeOK, ReadRows, HaveOrg
  <2>2. ~ caller[c].old => snapshot = Current
    BY <2>1 DEF ReadsAreCurrent, Current, Effective
  <2> HIDE DEF snapshot
  <2>3. caller' = [caller EXCEPT ![c].read = snapshot]
    BY <1>6 DEF ReadRows, snapshot
  <2>4. /\ caller'[c] = [caller[c] EXCEPT !.read = snapshot]
        /\ \A d \in Callers \ {c} : caller'[d] = caller[d]
    BY <2>3 DEF EntTypeOK
  <2>5. /\ caller'[c].org = caller[c].org /\ caller'[c].read = snapshot
        /\ caller'[c].old = caller[c].old
    BY <2>1, <2>4 DEF Resolution
  <2> QED BY <1>1, <2>1, <2>2, <2>4, <2>5 DEF ReadsAreCurrent, HaveOrg, HaveRows
<1>7. ASSUME NEW c \in Callers, StoreSnapshot(c) PROVE ReadsAreCurrent'
  <2>1. UNCHANGED orgRows /\ caller'[c] = Absent /\ \A d \in Callers \ {c} : caller'[d] = caller[d]
    BY <1>7 DEF StoreSnapshot, EntTypeOK
  <2> QED BY <1>1, <2>1 DEF ReadsAreCurrent, HaveOrg, HaveRows
<1>8. ASSUME NEW a \in Admins, NEW S \in {HaveOrg, HaveRows}, Commits(a, S)
      PROVE  /\ HaveOrg' = HaveOrg /\ HaveRows' = HaveRows
             /\ \A c \in S : caller'[c].old
             /\ \A c \in HaveOrg : caller'[c].org = caller[c].org
             /\ \A c \in HaveOrg \ S : caller'[c] = caller[c]
  <2>1. S \subseteq HaveOrg
    BY DEF ReadsAreCurrent
  <2>2. \A c \in HaveOrg : c \in Callers /\ caller[c] \in Resolution
    BY DEF HaveOrg, EntTypeOK
  <2>3. \A c \in Callers :
          caller'[c] = IF c \in S THEN [caller[c] EXCEPT !.old = TRUE] ELSE caller[c]
    BY <1>8 DEF Commits, Overtaken
  <2>4. \A c \in S : /\ caller'[c].old /\ caller'[c].org = caller[c].org
                     /\ caller'[c].read = caller[c].read /\ caller'[c] \in Resolution
    BY <2>1, <2>2, <2>3 DEF Resolution
  <2>5. \A c \in Callers : caller'[c] # Absent <=> caller[c] # Absent
    BY <2>1, <2>2, <2>3, <2>4, EntitlementAssumption DEF HaveOrg
  <2>6. HaveOrg' = HaveOrg /\ HaveRows' = HaveRows
    BY <2>3, <2>4, <2>5 DEF HaveOrg, HaveRows
  <2> QED BY <2>2, <2>3, <2>4, <2>6
<1>9. ASSUME NEW a \in Admins, Commits(a, HaveOrg) PROVE ReadsAreCurrent'
  BY <1>8, <1>9 DEF ReadsAreCurrent
<1>10. ASSUME NEW a \in Admins, Commits(a, HaveRows), UNCHANGED <<orgStatus, orgPlan>>
       PROVE  ReadsAreCurrent'
  <2>1. /\ HaveOrg' = HaveOrg /\ HaveRows' = HaveRows
        /\ \A c \in HaveRows : caller'[c].old
        /\ \A c \in HaveOrg \ HaveRows : caller'[c] = caller[c]
    BY <1>8, <1>10
  <2> QED BY <1>10, <2>1 DEF ReadsAreCurrent
<1>11. ASSUME NEW a \in Admins, ReadAssignments(a) \/ Invalidate(a) PROVE ReadsAreCurrent'
  BY <1>2, <1>11 DEF ReadAssignments, Invalidate
<1>12. CASE CacheExpires \/ UNCHANGED entVars
  BY <1>2, <1>12 DEF CacheExpires, entVars
<1> QED BY <1>4, <1>5, <1>6, <1>7, <1>9, <1>10, <1>11, <1>12
        DEF EntNext, SetOrgStatus, ChangePlan, SetFeatures

\* An old snapshot has its reason: the commit that made it old is still to invalidate, or
\* could not, or was overtaken by a resolution.
LEMMA StaleNext ==
  EntTypeOK /\ ReadsAreCurrent /\ StaleNeedsCause /\ [EntNext]_entVars => StaleNeedsCause'
<1> SUFFICES ASSUME EntTypeOK, ReadsAreCurrent, StaleNeedsCause, [EntNext]_entVars
             PROVE  StaleNeedsCause'
  OBVIOUS
<1>1. ASSUME UNCHANGED orgRows PROVE Current' = Current
  BY <1>1 DEF Current, Effective, Entitled, orgRows
<1>2. ASSUME UNCHANGED <<orgRows, cached, admin, excuse>> PROVE StaleNeedsCause'
  BY <1>1, <1>2 DEF StaleNeedsCause
<1>3. ASSUME NEW c \in Callers, StoreSnapshot(c) PROVE StaleNeedsCause'
  <2>1. CASE UNCHANGED <<cached, excuse>>
    BY <1>2, <1>3, <2>1 DEF StoreSnapshot
  <2>2. CASE cached' = caller[c].read /\ excuse' = IF caller[c].old THEN "overlap" ELSE "none"
    BY <1>1, <1>3, <2>2 DEF ReadsAreCurrent, HaveRows, StoreSnapshot, StaleNeedsCause
  <2> QED BY <1>3, <2>1, <2>2 DEF StoreSnapshot
<1>4. ASSUME NEW a \in Admins, NEW S, Commits(a, S) PROVE StaleNeedsCause'
  <2>1. admin'[a] = Committed
    BY <1>4 DEF Commits, EntTypeOK
  <2> QED BY <2>1, EntitlementAssumption DEF StaleNeedsCause, Committed
<1>5. ASSUME NEW a \in Admins, ReadAssignments(a) PROVE StaleNeedsCause'
  <2>1. \A b \in Admins : admin[b] # Absent => admin'[b] = admin[b]
    BY <1>5 DEF ReadAssignments, Begins, EntTypeOK
  <2> QED BY <1>1, <1>5, <2>1 DEF StaleNeedsCause, ReadAssignments
<1>6. ASSUME NEW a \in Admins, Invalidate(a) PROVE StaleNeedsCause'
  BY <1>6 DEF Invalidate, Invalidated, StaleNeedsCause
<1>7. CASE UNCHANGED entVars
  BY <1>2, <1>7 DEF entVars
<1>8. CASE CacheExpires
  BY <1>8 DEF CacheExpires, StaleNeedsCause
<1>9. ASSUME NEW c \in Callers, Miss(c) \/ ReadOrg(c) \/ ReadRows(c) PROVE StaleNeedsCause'
  BY <1>2, <1>9 DEF Miss, ReadOrg, ReadRows
<1> QED BY <1>3, <1>4, <1>5, <1>6, <1>7, <1>8, <1>9
        DEF EntNext, SetOrgStatus, ChangePlan, SetFeatures

\* A change of the assignments that no other read around finds the rows it read.
LEMMA WantedNext ==
  EntTypeOK /\ WantedIsClosed /\ [EntNext]_entVars => WantedIsClosed'
<1> SUFFICES ASSUME EntTypeOK, WantedIsClosed, [EntNext]_entVars PROVE WantedIsClosed'
  OBVIOUS
<1>1. ASSUME UNCHANGED <<rows, mixed>>,
             \A a \in Admins : admin'[a] # Absent /\ admin'[a].step = "reading" =>
               admin'[a] = admin[a]
      PROVE  WantedIsClosed'
  BY <1>1 DEF WantedIsClosed
<1>2. CASE UNCHANGED <<rows, mixed, admin>>
  BY <1>1, <1>2
<1>3. ASSUME NEW a \in Admins, NEW S, Commits(a, S)
      PROVE  \A b \in Admins : admin'[b] # Absent /\ admin'[b].step = "reading" =>
               admin'[b] = admin[b] /\ b # a
  BY <1>3 DEF Commits, Committed, EntTypeOK
<1>4. ASSUME NEW a \in Admins, NEW S, Commits(a, S), Mixes(a) PROVE WantedIsClosed'
  BY <1>3, <1>4 DEF WantedIsClosed, Mixes
<1>5. ASSUME NEW a \in Admins, ReadAssignments(a) PROVE WantedIsClosed'
  <2>1. PICK S \in SUBSET Features :
          admin' = [admin EXCEPT ![a] =
                      [step |-> "reading", wanted |-> Closure(S),
                       found |-> {f \in Features : rows[f] # Absent}]]
    BY <1>5 DEF ReadAssignments
  <2>2. /\ admin'[a].wanted = Closure(S)
        /\ admin'[a].found = {f \in Features : rows[f] # Absent}
        /\ \A b \in Admins \ {a} : admin'[b] = admin[b]
    BY <2>1 DEF EntTypeOK
  <2>3. Closed(Closure(S))
    BY ClosureIsClosed
  <2>4. UNCHANGED <<rows, mixed>>
    BY <1>5 DEF ReadAssignments, orgRows
  <2> QED BY <2>2, <2>3, <2>4 DEF WantedIsClosed
<1>6. ASSUME NEW a \in Admins, Invalidate(a) PROVE WantedIsClosed'
  BY <1>1, <1>6 DEF Invalidate, orgRows, EntTypeOK
<1>7. ASSUME NEW a \in Admins, SetOrgStatus(a) PROVE WantedIsClosed'
  BY <1>1, <1>3, <1>7 DEF SetOrgStatus
<1>8. ASSUME NEW c \in Callers, Miss(c) \/ ReadOrg(c) \/ ReadRows(c) \/ StoreSnapshot(c)
      PROVE  UNCHANGED <<rows, mixed, admin>>
  BY <1>8 DEF Miss, ReadOrg, ReadRows, StoreSnapshot, orgRows
<1> QED BY <1>2, <1>4, <1>5, <1>6, <1>7, <1>8
        DEF EntNext, ChangePlan, SetFeatures, CacheExpires, entVars, orgRows

\* With rows for what the plan has, exactly the features that were sent are left.
LEMMA SetLeavesWanted ==
  ASSUME EntTypeOK, WantedIsClosed, NEW a \in Admins, SetFeatures(a), ~ mixed,
         \A f \in Bundle[orgPlan] : rows'[f] # Absent
  PROVE  Effective' = admin[a].wanted
<1> DEFINE wanted == admin[a].wanted
<1>1. admin[a] \in Reading
  <2>1. Committed.step = "committed"
    BY DEF Committed
  <2> QED BY <2>1 DEF EntTypeOK, SetFeatures
<1>2. wanted \in SUBSET Features /\ Closed(wanted)
  BY <1>1 DEF WantedIsClosed, SetFeatures, Reading
<1>3. admin[a].found = {f \in Features : rows[f] # Absent}
  BY DEF WantedIsClosed, SetFeatures
<1>4. \A f \in Features :
        rows'[f] = IF f \in wanted THEN Granted(f)
                   ELSE IF rows[f] # Absent THEN [rows[f] EXCEPT !.enabled = FALSE] ELSE rows[f]
  BY <1>3 DEF SetFeatures
<1>5. \A f \in wanted : rows'[f] # Absent /\ rows'[f].enabled
  <2> SUFFICES ASSUME NEW f \in wanted PROVE rows'[f] # Absent /\ rows'[f].enabled
    OBVIOUS
  <2>1. f \in Features /\ rows'[f] = Granted(f)
    BY <1>2, <1>4
  <2>2. Granted(f) \in Row /\ Granted(f).enabled
    BY <2>1 DEF Granted, Row, EntTypeOK
  <2> QED BY <2>1, <2>2, EntitlementAssumption
<1>6. \A f \in Features \ wanted : rows'[f] = Absent \/ rows'[f].enabled = FALSE
  BY <1>4 DEF EntTypeOK, Row
<1>7. {f \in Features : IF rows'[f] = Absent THEN f \in Bundle[orgPlan] ELSE rows'[f].enabled}
        = wanted
  BY <1>2, <1>5, <1>6
<1>8. Effective' = Closure(wanted)
  BY <1>7 DEF Effective, Entitled, SetFeatures
<1> QED BY <1>2, <1>8, ClosedIsItsClosure

\* ... and stay until something else is asked for.
LEMMA GrantedNext ==
  EntTypeOK /\ WantedIsClosed /\ SetIsGranted /\ [EntNext]_entVars => SetIsGranted'
<1> SUFFICES ASSUME EntTypeOK, WantedIsClosed, SetIsGranted, [EntNext]_entVars
             PROVE  SetIsGranted'
  OBVIOUS
<1>1. CASE UNCHANGED <<orgPlan, rows, asked, mixed>>
  BY <1>1 DEF SetIsGranted, Effective, Entitled
<1>2. ASSUME NEW a \in Admins, SetFeatures(a) PROVE SetIsGranted'
  <2> SUFFICES ASSUME ~ mixed', \A f \in Bundle[orgPlan] : rows'[f] # Absent
               PROVE  Effective' = admin[a].wanted
    BY <1>2 DEF SetFeatures, SetIsGranted
  <2>1. ~ mixed
    BY <1>2 DEF SetFeatures, Mixes
  <2> QED BY <1>2, <2>1, SetLeavesWanted
<1>3. ASSUME NEW a \in Admins, ChangePlan(a) PROVE SetIsGranted'
  BY <1>3 DEF ChangePlan, SetIsGranted
<1> QED BY <1>1, <1>2, <1>3
        DEF EntNext, entVars, orgRows, CacheExpires, Miss, ReadOrg, ReadRows, StoreSnapshot,
            SetOrgStatus,
            ReadAssignments, Invalidate

\* All of it is inductive.
LEMMA EntInvariant == EntSpec => []EntIInv
<1>1. EntIInv /\ [EntNext]_entVars => EntIInv'
  BY EntTypeNext, ReadsNext, StaleNext, WantedNext, GrantedNext DEF EntIInv
<1> QED BY EntInitIInv, <1>1, PTL DEF EntSpec

\* Rows, snapshots and requests are what they are declared to be.
THEOREM EntTypeCorrect == EntSpec => []EntTypeOK
BY EntInvariant, PTL DEF EntIInv

\* For any registry, plans and number of requests: a request is decided on an old feature
\* set only for one of the reasons StaleNeedsCause names, and what was last set for an
\* organisation is what it has.
THEOREM FeaturesAreSound == EntSpec => []FeaturesSound
<1>1. EntIInv => FeaturesSound
  BY DEF EntIInv, FeaturesSound
<1> QED BY EntInvariant, <1>1, PTL

-----------------------------------------------------------------------------
(* Members and invitations.                                                  *)

Changing(r) == \E op \in {"leave", "transfer", "change", "accept"} : MemberDoing(r, op)

Inviting(r) == MemberDoing(r, "invite")
AboutInvitation(r) == \E op \in {"resend", "revoke", "expire", "accept"} : MemberDoing(r, op)

Entering(r) == MemberDoing(r, "switch") \/ MemberDoing(r, "enter")
Coming(r) == Entering(r) \/ MemberDoing(r, "accept") \/ MemberDoing(r, "joined")

\* Who leaves has been a member, an invitation is never to own the organisation, and what
\* is done to an invitation is done to one there is.
RequestsFit ==
  \A r \in MemberHandlers :
    /\ MemberDoing(r, "leave") => role[memberRequest[r].by] # "none"
    /\ Inviting(r) => memberRequest[r].role \in {"ADMIN", "MEMBER"}
    /\ AboutInvitation(r) => memberRequest[r].row \in DOMAIN invites

AccountShape == AccountTypeOK /\ RequestsFit

\* Somebody else owns the organisation, or q keeps it owned itself.
LeavesOwner(q) ==
  role[q.by] = "OWNER" => OtherOwners(q.by) # {} \/ (q.op = "change" /\ q.role = "OWNER")

\* While changes of the membership do not overlap, what they found is so still.
OwnerInv ==
  "members" \notin memberCrossed =>
    /\ \A q, r \in MemberHandlers : Changing(q) /\ Changing(r) => q = r
    /\ \A r \in MemberHandlers :
         /\ MemberDoing(r, "leave") \/ MemberDoing(r, "change") =>
              Member(memberRequest[r].by) /\ LeavesOwner(memberRequest[r])
         /\ MemberDoing(r, "transfer") =>
              memberRequest[r].by \in Owners /\ Member(memberRequest[r].to)
    /\ Owners # {} \/ demoted

\* An invitation that requests about it found pending has let nobody in.
InvitationInv ==
  "invitation" \notin memberCrossed =>
    /\ \A q, r \in MemberHandlers :
         (Inviting(q) \/ AboutInvitation(q)) /\ (Inviting(r) \/ AboutInvitation(r)) => q = r
    /\ \A r \in MemberHandlers : AboutInvitation(r) => Pending(memberRequest[r].row)
    /\ \A i \in DOMAIN invites : joins[i] <= 1 /\ (invites[i].status # "ACCEPTED" => joins[i] = 0)

\* Who goes to the organisation is a member and nobody is leaving it.
SessionInv ==
  "session" \notin memberCrossed =>
    /\ \A q, r \in MemberHandlers : ~ (MemberDoing(q, "leave") /\ Coming(r))
    /\ \A r \in MemberHandlers : Entering(r) => Member(memberRequest[r].by)
    /\ \A u \in pinned : Member(u)

AccountIInv == AccountShape /\ OwnerInv /\ InvitationInv /\ SessionInv


LEMMA PlainTyped ==
  ASSUME NEW op \in MemberOp, NEW u \in Users
  PROVE  /\ Plain(op, u) \in MemberRequest
         /\ Plain(op, u) = [op |-> op, by |-> u, to |-> u, role |-> "MEMBER", row |-> 0]
BY DEF Plain, MemberRequest, Role

\* What makes a request pass its checks.
Passes(q) ==
  /\ q \in MemberRequest /\ q.row \in 0..Len(invites)
  /\ q.op \in {"leave", "change"} => Member(q.by) /\ LeavesOwner(q)
  /\ q.op = "transfer" => q.by \in Owners /\ Member(q.to)
  /\ q.op = "invite" => q.role \in {"ADMIN", "MEMBER"}
  /\ q.op \in {"resend", "revoke", "expire", "accept"} => q.row \in DOMAIN invites /\ Pending(q.row)
  /\ q.op \in {"switch", "enter"} => Member(q.by)

\* Every request that is found passes them.
LEMMA FoundPasses ==
  ASSUME AccountTypeOK, NEW q \in MemberFound
  PROVE  Passes(q)
<1> DEFINE Able(u) == Member(u) /\ (role[u] = "OWNER" => OtherOwners(u) # {})
<1> USE DEF Role
<1>10. 0 \in 0..Len(invites)
  BY DEF AccountTypeOK
<1>1. ASSUME NEW u \in Users, Able(u), q = Plain("leave", u) PROVE Passes(q)
  <2>1. /\ q \in MemberRequest
        /\ q = [op |-> "leave", by |-> u, to |-> u, role |-> "MEMBER", row |-> 0]
    BY <1>1, PlainTyped DEF MemberOp
  <2> QED BY <1>1, <1>10, <2>1 DEF Passes, LeavesOwner
<1>2. ASSUME NEW u \in Owners, NEW v \in Users, Member(v), q = [Plain("transfer", u) EXCEPT !.to = v]
      PROVE  Passes(q)
  <2>1. u \in Users
    BY DEF Owners
  <2>2. q = [op |-> "transfer", by |-> u, to |-> v, role |-> "MEMBER", row |-> 0]
    BY <1>2, <2>1, PlainTyped DEF MemberOp
  <2> QED BY <1>2, <2>1, <2>2 DEF Passes, MemberRequest, MemberOp, Role, AccountTypeOK
<1>3. ASSUME NEW u \in Users, Able(u), NEW p \in Role, q = [Plain("change", u) EXCEPT !.role = p]
      PROVE  Passes(q)
  <2>1. q = [op |-> "change", by |-> u, to |-> u, role |-> p, row |-> 0]
    BY <1>3, PlainTyped DEF MemberOp
  <2>2. q \in MemberRequest
    BY <2>1 DEF MemberRequest, MemberOp
  <2> QED BY <1>3, <1>10, <2>1, <2>2 DEF Passes, LeavesOwner
<1>4. ASSUME NEW u \in Owners, q = [Plain("change", u) EXCEPT !.role = "OWNER"]
      PROVE  Passes(q)
  <2>1. u \in Users /\ Member(u)
    BY DEF Owners
  <2>2. q = [op |-> "change", by |-> u, to |-> u, role |-> "OWNER", row |-> 0]
    BY <1>4, <2>1, PlainTyped DEF MemberOp
  <2> QED BY <2>1, <2>2 DEF Passes, LeavesOwner, MemberRequest, MemberOp, Role, AccountTypeOK
<1>5. ASSUME NEW u \in Users, NEW p \in {"ADMIN", "MEMBER"},
             q = [Plain("invite", u) EXCEPT !.role = p]
      PROVE  Passes(q)
  <2>1. q = [op |-> "invite", by |-> u, to |-> u, role |-> p, row |-> 0]
    BY <1>5, PlainTyped DEF MemberOp
  <2> QED BY <2>1 DEF Passes, MemberRequest, MemberOp, Role, AccountTypeOK
<1>6. \A i \in DOMAIN invites :
        invites[i].to \in Users /\ invites[i].role \in Role /\ i \in 0..Len(invites) /\ i \in Nat
  <2>1. invites \in Seq(Invitation)
    BY DEF AccountTypeOK
  <2>2. \A i \in DOMAIN invites : invites[i] \in Invitation /\ i \in 0..Len(invites) /\ i \in Nat
    BY <2>1
  <2> QED BY <2>2 DEF Invitation
<1>7. ASSUME NEW op \in {"invite", "resend", "revoke", "expire", "accept"}, NEW i \in DOMAIN invites
      PROVE  On(op, i) = [op |-> op, by |-> invites[i].to, to |-> invites[i].to,
                          role |-> "MEMBER", row |-> i]
  BY <1>6, PlainTyped DEF On, MemberOp
<1>8. ASSUME NEW op \in {"resend", "revoke", "expire"}, NEW i \in DOMAIN invites, Pending(i),
             q = On(op, i)
      PROVE  Passes(q)
  <2>1. q = [op |-> op, by |-> invites[i].to, to |-> invites[i].to, role |-> "MEMBER", row |-> i]
    BY <1>7, <1>8
  <2> QED BY <1>6, <1>8, <2>1 DEF Passes, MemberRequest, MemberOp
<1>12. ASSUME NEW i \in DOMAIN invites, Pending(i),
              q = [On("accept", i) EXCEPT !.role = invites[i].role]
       PROVE  Passes(q)
  <2>1. q = [op |-> "accept", by |-> invites[i].to, to |-> invites[i].to,
             role |-> invites[i].role, row |-> i]
    BY <1>7, <1>12
  <2> QED BY <1>6, <1>12, <2>1 DEF Passes, MemberRequest, MemberOp
<1>21. ASSUME NEW i \in DOMAIN invites, NEW p \in {"ADMIN", "MEMBER"},
              q = [On("invite", i) EXCEPT !.role = p]
       PROVE  Passes(q)
  <2>1. q = [op |-> "invite", by |-> invites[i].to, to |-> invites[i].to, role |-> p, row |-> i]
    BY <1>7, <1>21
  <2> QED BY <1>6, <2>1 DEF Passes, MemberRequest, MemberOp
<1>9. ASSUME NEW op \in {"switch", "enter"}, NEW u \in Users, Member(u), q = Plain(op, u)
      PROVE  Passes(q)
  <2>1. /\ q \in MemberRequest
        /\ q = [op |-> op, by |-> u, to |-> u, role |-> "MEMBER", row |-> 0]
    BY <1>9, PlainTyped DEF MemberOp
  <2> QED BY <1>9, <1>10, <2>1 DEF Passes
<1>11. CASE q \in {Plain("leave", u) : u \in {u \in Users : Able(u)}}
  BY <1>1, <1>11
<1>13. CASE q \in {[Plain("transfer", u) EXCEPT !.to = v] :
                      u \in Owners, v \in {v \in Users : Member(v)}}
  BY <1>2, <1>13
<1>14. CASE q \in {[Plain("change", u) EXCEPT !.role = p] :
                      u \in {u \in Users : Able(u)}, p \in Role}
  BY <1>3, <1>14
<1>15. CASE q \in {[Plain("change", u) EXCEPT !.role = "OWNER"] : u \in Owners}
  BY <1>4, <1>15
<1>16. CASE q \in {[Plain("invite", u) EXCEPT !.role = p] :
                      u \in {u \in Users : ~ Invited(u)}, p \in {"ADMIN", "MEMBER"}}
  BY <1>5, <1>16
<1>22. CASE q \in {[On("invite", i) EXCEPT !.role = p] :
                      i \in {i \in DOMAIN invites : Pending(i)}, p \in {"ADMIN", "MEMBER"}}
  BY <1>21, <1>22
<1>17. CASE q \in {On(op, i) : op \in {"resend", "revoke"}, i \in {i \in DOMAIN invites : Pending(i)}}
  BY <1>8, <1>17
<1>18. CASE q \in {On("expire", i) : i \in {i \in DOMAIN invites : Pending(i) /\ invites[i].late}}
  BY <1>8, <1>18
<1>19. CASE q \in {[On("accept", i) EXCEPT !.role = invites[i].role] :
                      i \in {i \in DOMAIN invites : Acceptable(i)}}
  BY <1>12, <1>19 DEF Acceptable
<1>20. CASE \/ q \in {Plain("switch", u) : u \in {u \in Users : Member(u)}}
            \/ q \in {Plain("enter", u) : u \in {u \in Users : u \notin pinned /\ Member(u)}}
  BY <1>9, <1>20
<1> QED
  BY <1>11, <1>13, <1>14, <1>15, <1>16, <1>17, <1>18, <1>19, <1>20, <1>22 DEF MemberFound

\* Requests that meet one another are seen to.
LEMMA MeetingsCross ==
  ASSUME NEW r \in MemberHandlers, NEW s \in MemberHandlers \ {r}, memberRequest[s] # Rest,
         NEW q
  PROVE  LET p == memberRequest[s]
             changing == {"leave", "transfer", "change", "accept"}
             inviting == {"invite", "resend", "revoke", "expire", "accept"}
             coming == {"accept", "joined", "switch", "enter"}
         IN /\ p.op \in changing /\ q.op \in changing => "members" \in MemberCrossings(r, q)
            /\ p.op \in inviting /\ q.op \in inviting => "invitation" \in MemberCrossings(r, q)
            /\ p.op = "leave" /\ q.op \in coming => "session" \in MemberCrossings(r, q)
            /\ p.op \in coming /\ q.op = "leave" => "session" \in MemberCrossings(r, q)
<1>1. memberRequest[s] \in {memberRequest[t] : t \in MemberHandlers \ {r}} \ {Rest}
  OBVIOUS
<1> QED BY <1>1 DEF MemberCrossings, MemberCrossing

\* A request that is found passes, the others go on, and whom it meets is remembered.
LEMMA FindFacts ==
  ASSUME AccountTypeOK, NEW r \in MemberHandlers, MemberFind(r)
  PROVE  /\ memberRequest'[r] # Rest /\ memberRequest'[r] \in MemberRequest
         /\ Passes(memberRequest'[r])
         /\ memberRequest[r] = Rest
         /\ \A s \in MemberHandlers \ {r} : memberRequest'[s] = memberRequest[s]
         /\ memberRequest' \in [MemberHandlers -> MemberRequest \cup {Rest}]
         /\ memberCrossed' = memberCrossed \cup MemberCrossings(r, memberRequest'[r])
         /\ UNCHANGED <<role, left, pinned, invites, joins, demoted>>
<1>1. PICK q \in MemberFound : /\ memberRequest' = [memberRequest EXCEPT ![r] = q]
                               /\ memberCrossed' = memberCrossed \cup MemberCrossings(r, q)
  BY DEF MemberFind
<1>2. Passes(q)
  BY FoundPasses
<1>3. q \in MemberRequest /\ q # Rest
  BY <1>2, AccountAssumption DEF Passes
<1>4. memberRequest'[r] = q /\ memberRequest' \in [MemberHandlers -> MemberRequest \cup {Rest}]
  BY <1>1, <1>3 DEF AccountTypeOK
<1> QED BY <1>1, <1>2, <1>3, <1>4 DEF MemberFind, memberRows, AccountTypeOK


Acts(r) ==
  \/ LeaveOrg(r) \/ Transfer(r) \/ ChangeRole(r) \/ Invite(r) \/ Resend(r)
  \/ Revoke(r) \/ Expire(r) \/ Accept(r) \/ Joined(r) \/ Pin(r)

\* A request that acts is over, or goes on to bring its user in, alone in either.
LEMMA ActFacts ==
  ASSUME AccountTypeOK, NEW r \in MemberHandlers, Acts(r)
  PROVE  /\ memberRequest[r] \in MemberRequest /\ memberRequest[r] # Rest
         /\ memberRequest' \in [MemberHandlers -> MemberRequest \cup {Rest}]
         /\ \A s \in MemberHandlers \ {r} : memberRequest'[s] = memberRequest[s]
         /\ memberRequest'[r] # Rest =>
              /\ memberRequest'[r].row \in {0, memberRequest[r].row}
              /\ memberRequest'[r].by = memberRequest[r].by
              /\ \/ MemberDoing(r, "accept") /\ memberRequest'[r].op = "joined"
                 \/ /\ MemberDoing(r, "joined") /\ memberRequest'[r].op = "switch"
                    /\ Member(memberRequest[r].by)
         /\ UNCHANGED <<memberCrossed, memberRequests>>
<1>1. memberRequest[r] # Rest /\ memberRequest[r] \in MemberRequest
  BY DEF Acts, LeaveOrg, Transfer, ChangeRole, Invite, Resend, Revoke, Expire, Accept, Joined, Pin,
         MemberDoing, AccountTypeOK
<1>2. UNCHANGED <<memberCrossed, memberRequests>>
  BY DEF Acts, LeaveOrg, Transfer, ChangeRole, Invite, Resend, Revoke, Expire, Accept, Joined, Pin
<1>3. CASE MemberAnswer(r)
  BY <1>1, <1>2, <1>3 DEF MemberAnswer, AccountTypeOK
<1>4. CASE Accept(r) /\ ~ MemberAnswer(r)
  <2> DEFINE q == Plain("joined", memberRequest[r].by)
  <2>1. memberRequest' = [memberRequest EXCEPT ![r] = q]
    BY <1>4 DEF Accept
  <2>2. q \in MemberRequest /\ q.op = "joined" /\ q.by = memberRequest[r].by /\ q.row = 0
    BY <1>1, PlainTyped DEF MemberRequest, MemberOp
  <2>3. memberRequest'[r] = q /\ MemberDoing(r, "accept")
    BY <1>4, <2>1 DEF Accept, AccountTypeOK
  <2> QED BY <1>1, <1>2, <2>1, <2>2, <2>3 DEF AccountTypeOK
<1>5. CASE Joined(r) /\ ~ MemberAnswer(r)
  <2> DEFINE q == [memberRequest[r] EXCEPT !.op = "switch"]
  <2>1. memberRequest' = [memberRequest EXCEPT ![r] = q] /\ Member(memberRequest[r].by)
    BY <1>5 DEF Joined
  <2>2. /\ q \in MemberRequest /\ q.op = "switch" /\ q.by = memberRequest[r].by
        /\ q.row = memberRequest[r].row
    BY <1>1 DEF MemberRequest, MemberOp
  <2>3. memberRequest'[r] = q /\ MemberDoing(r, "joined")
    BY <1>5, <2>1 DEF Joined, AccountTypeOK
  <2> QED BY <1>1, <1>2, <2>1, <2>2, <2>3 DEF AccountTypeOK
<1> QED
  BY <1>3, <1>4, <1>5
  DEF Acts, LeaveOrg, Transfer, ChangeRole, Invite, Resend, Revoke, Expire, Pin

\* What the actions do to the rows of the members and of the invitations.
RowsTyped ==
  /\ role' \in [Users -> Role \cup {"none"}]
  /\ left' \subseteq {u \in Users : role'[u] # "none"}
  /\ \A u \in Users : role[u] # "none" => role'[u] # "none"
  /\ pinned' \subseteq Users
  /\ demoted' \in BOOLEAN

InvitesTyped ==
  /\ invites' \in Seq(Invitation) /\ joins' \in Seq(Nat)
  /\ Len(invites') >= Len(invites) /\ Len(joins') = Len(invites')
  /\ \A i, j \in DOMAIN invites' :
       invites'[i].to = invites'[j].to /\ invites'[i].status = invites'[j].status => i = j

LEMMA RowsStay ==
  ASSUME AccountTypeOK, UNCHANGED <<role, left>>, pinned' \subseteq Users, demoted' \in BOOLEAN
  PROVE  RowsTyped
BY DEF RowsTyped, AccountTypeOK

LEMMA InvitesStay ==
  ASSUME AccountTypeOK, UNCHANGED <<invites, joins>>
  PROVE  InvitesTyped
BY DEF InvitesTyped, AccountTypeOK

\* One row of the invitations is written over, with a status its address has not, or its own.
LEMMA InviteWritten ==
  ASSUME AccountTypeOK, NEW i \in DOMAIN invites, NEW row \in Invitation,
         row.to = invites[i].to, row.status = invites[i].status \/ Free(i, row.status),
         invites' = [invites EXCEPT ![i] = row], UNCHANGED joins
  PROVE  InvitesTyped
<1>1. invites \in Seq(Invitation) /\ joins \in Seq(Nat) /\ Len(joins) = Len(invites)
  BY DEF AccountTypeOK
<1>2. /\ invites' \in Seq(Invitation) /\ Len(invites') = Len(invites)
      /\ DOMAIN invites' = DOMAIN invites
      /\ \A j \in DOMAIN invites : invites'[j] = IF j = i THEN row ELSE invites[j]
  BY <1>1
<1>3. \A j \in DOMAIN invites \ {i} :
        ~ (invites[j].to = row.to /\ invites[j].status = row.status)
  BY DEF Free, AccountTypeOK
<1>4. \A j, k \in DOMAIN invites' :
        invites'[j].to = invites'[k].to /\ invites'[j].status = invites'[k].status => j = k
  <2>1. \A j, k \in DOMAIN invites :
          invites[j].to = invites[k].to /\ invites[j].status = invites[k].status => j = k
    BY DEF AccountTypeOK
  <2> QED BY <1>2, <1>3, <2>1
<1> QED BY <1>1, <1>2, <1>4 DEF InvitesTyped


\* A change of one field of an invitation keeps the rows in order.
LEMMA FieldWritten ==
  ASSUME AccountTypeOK, NEW i \in DOMAIN invites, UNCHANGED joins,
         \/ /\ invites' = [invites EXCEPT ![i].late = FALSE]
         \/ /\ invites' = [invites EXCEPT ![i].late = TRUE]
         \/ \E s \in InviteStatus : invites' = [invites EXCEPT ![i].status = s] /\ Free(i, s)
  PROVE  InvitesTyped
<1>1. invites[i] \in Invitation
  BY DEF AccountTypeOK
<1>2. ASSUME NEW b \in BOOLEAN, invites' = [invites EXCEPT ![i].late = b] PROVE InvitesTyped
  <2> DEFINE row == [invites[i] EXCEPT !.late = b]
  <2>1. row \in Invitation /\ row.to = invites[i].to /\ row.status = invites[i].status
    BY <1>1 DEF Invitation
  <2>2. invites' = [invites EXCEPT ![i] = row]
    BY <1>2
  <2> HIDE DEF row
  <2> QED BY <2>1, <2>2, InviteWritten
<1>3. ASSUME NEW s \in InviteStatus, invites' = [invites EXCEPT ![i].status = s], Free(i, s)
      PROVE  InvitesTyped
  <2> DEFINE row == [invites[i] EXCEPT !.status = s]
  <2>1. row \in Invitation /\ row.to = invites[i].to /\ row.status = s
    BY <1>1 DEF Invitation
  <2>2. invites' = [invites EXCEPT ![i] = row]
    BY <1>3
  <2> HIDE DEF row
  <2> QED BY <1>3, <2>1, <2>2, InviteWritten
<1> QED BY <1>2, <1>3

\* An invitation is written, over the one that was found or after the others; the others
\* and every status stay.
LEMMA InviteFacts ==
  ASSUME AccountShape, NEW r \in MemberHandlers, Invite(r)
  PROVE  /\ InvitesTyped
         /\ \A i \in DOMAIN invites' :
              IF i \in DOMAIN invites
                THEN joins'[i] = joins[i] /\ invites'[i].status = invites[i].status
                ELSE joins'[i] = 0 /\ invites'[i].status = "PENDING"
<1> DEFINE q == memberRequest[r]
           new == [to |-> q.by, role |-> q.role, status |-> "PENDING", late |-> FALSE]
<1>1. q \in MemberRequest /\ q.role \in {"ADMIN", "MEMBER"} /\ q.row \in 0..Len(invites)
  BY DEF AccountShape, AccountTypeOK, RequestsFit, Inviting, Invite, MemberDoing
<1>2. new \in Invitation /\ new.to = q.by /\ new.status = "PENDING"
  BY <1>1 DEF MemberRequest, Invitation, InviteStatus
<1>3. invites \in Seq(Invitation) /\ joins \in Seq(Nat) /\ Len(joins) = Len(invites)
  BY DEF AccountShape, AccountTypeOK
<1>4. \A i, j \in DOMAIN invites :
        invites[i].to = invites[j].to /\ invites[i].status = invites[j].status => i = j
  BY DEF AccountShape, AccountTypeOK
<1>5. CASE q.row = 0 /\ ~ Invited(q.by)
  <2>1. invites' = Append(invites, new) /\ joins' = Append(joins, 0)
    BY <1>5 DEF Invite
  <2> DEFINE n == Len(invites)
  <2> HIDE DEF new
  <2>2. /\ n \in Nat /\ invites' \in Seq(Invitation) /\ joins' \in Seq(Nat)
        /\ Len(invites') = n + 1 /\ Len(joins') = n + 1
        /\ DOMAIN invites' = 1..(n + 1) /\ DOMAIN invites = 1..n
        /\ invites'[n + 1] = new /\ joins'[n + 1] = 0
        /\ \A i \in 1..n : invites'[i] = invites[i] /\ joins'[i] = joins[i]
    BY <1>2, <1>3, <2>1
  <2>3. \A i \in 1..n : ~ (invites[i].to = new.to /\ invites[i].status = new.status)
    BY <1>2, <1>5, <2>2 DEF Invited, Pending
  <2>4. \A i, j \in DOMAIN invites' :
          invites'[i].to = invites'[j].to /\ invites'[i].status = invites'[j].status => i = j
    BY <1>4, <2>2, <2>3
  <2> QED BY <1>2, <2>2, <2>4 DEF InvitesTyped
<1>6. CASE q.row = 0 /\ Invited(q.by)
  <2>1. UNCHANGED <<invites, joins>>
    BY <1>6 DEF Invite
  <2> QED BY <2>1, InvitesStay DEF AccountShape
<1>7. CASE q.row # 0
  <2>1. /\ invites' = [invites EXCEPT ![q.row].role = q.role, ![q.row].late = FALSE]
        /\ UNCHANGED joins
    BY <1>7 DEF Invite
  <2>2. PICK k \in DOMAIN invites : k = q.row
    BY <1>1, <1>3, <1>7
  <2> DEFINE row == [invites[k] EXCEPT !.role = q.role, !.late = FALSE]
  <2>3. invites[k] \in Invitation
    BY <1>3
  <2>4. row \in Invitation /\ row.to = invites[k].to /\ row.status = invites[k].status
    BY <1>1, <2>3 DEF Invitation
  <2>5. invites' = [invites EXCEPT ![k] = row]
    BY <1>3, <2>1, <2>2
  <2> HIDE DEF row
  <2>6. InvitesTyped
    BY <2>1, <2>4, <2>5, InviteWritten DEF AccountShape
  <2> QED BY <1>3, <2>1, <2>4, <2>5, <2>6
<1> QED BY <1>5, <1>6, <1>7


\* What a request does to the members keeps their types.
LEMMA ActRows ==
  ASSUME AccountShape, NEW r \in MemberHandlers, Acts(r)
  PROVE  RowsTyped
<1> DEFINE q == memberRequest[r]
<1> USE DEF AccountShape
<1>1. q \in MemberRequest
  BY ActFacts
<1>2. q.by \in Users /\ q.to \in Users /\ q.role \in Role /\ "none" \notin Role
  BY <1>1 DEF MemberRequest, Role
<1>3. /\ role \in [Users -> Role \cup {"none"}] /\ left \subseteq {u \in Users : role[u] # "none"}
      /\ pinned \subseteq Users /\ demoted \in BOOLEAN
  BY DEF AccountTypeOK
<1>4. CASE LeaveOrg(r)
  <2>1. role[q.by] # "none"
    BY <1>4 DEF RequestsFit, LeaveOrg
  <2> QED BY <1>2, <1>3, <1>4, <2>1 DEF LeaveOrg, RowsTyped, Unpinned
<1>5. CASE Transfer(r)
  <2>1. role' = Transferred(role, q.by, q.to) /\ UNCHANGED <<left, pinned>> /\ demoted' \in BOOLEAN
    BY <1>5 DEF Transfer
  <2>2. /\ role' \in [Users -> Role \cup {"none"}]
        /\ \A u \in Users : role[u] # "none" => role'[u] # "none"
    BY <1>2, <1>3, <2>1 DEF Transferred, Role
  <2> QED BY <1>3, <2>1, <2>2 DEF RowsTyped
<1>6. CASE ChangeRole(r)
  BY <1>2, <1>3, <1>6 DEF ChangeRole, RowsTyped
<1>7. CASE Accept(r) /\ Free(q.row, "ACCEPTED")
  <2>1. /\ role' = [role EXCEPT ![q.by] = q.role] /\ left' = left \ {q.by} /\ UNCHANGED pinned
        /\ demoted' = (demoted \/ q.by \in Owners)
    BY <1>7 DEF Accept
  <2> QED BY <1>2, <1>3, <2>1 DEF RowsTyped
<1>8. CASE Accept(r) /\ ~ Free(q.row, "ACCEPTED")
  BY <1>3, <1>8, RowsStay DEF Accept
<1>9. CASE Invite(r) \/ Resend(r) \/ Revoke(r) \/ Expire(r) \/ Joined(r)
  BY <1>3, <1>9, RowsStay DEF Invite, Resend, Revoke, Expire, Joined, memberRows
<1>10. CASE Pin(r)
  <2>1. pinned' \subseteq Users
    BY <1>2, <1>3, <1>10 DEF Pin
  <2> QED BY <1>3, <1>10, <2>1, RowsStay DEF Pin
<1> QED BY <1>4, <1>5, <1>6, <1>7, <1>8, <1>9, <1>10 DEF Acts

\* ... and what it does to the invitations theirs.
LEMMA ActInvites ==
  ASSUME AccountShape, NEW r \in MemberHandlers, Acts(r)
  PROVE  InvitesTyped
<1> DEFINE i == memberRequest[r].row
<1> USE DEF AccountShape
<1>1. CASE Invite(r)
  BY <1>1, InviteFacts
<1>2. ASSUME AboutInvitation(r) PROVE i \in DOMAIN invites
  BY <1>2 DEF RequestsFit
<1>3. CASE Resend(r)
  <2>1. invites' = [invites EXCEPT ![i].late = FALSE] /\ UNCHANGED joins /\ AboutInvitation(r)
    BY <1>3 DEF Resend, AboutInvitation
  <2> QED BY <1>2, <2>1, FieldWritten
<1>4. CASE Revoke(r) \/ Expire(r)
  <2>1. AboutInvitation(r) /\ UNCHANGED joins
    BY <1>4 DEF Revoke, Expire, AboutInvitation
  <2>2. \/ UNCHANGED invites
        \/ invites' = [invites EXCEPT ![i].status = "REVOKED"] /\ Free(i, "REVOKED")
        \/ invites' = [invites EXCEPT ![i].status = "EXPIRED"] /\ Free(i, "EXPIRED")
    BY <1>4 DEF Revoke, Expire
  <2>3. "REVOKED" \in InviteStatus /\ "EXPIRED" \in InviteStatus
    BY DEF InviteStatus
  <2> QED BY <1>2, <2>1, <2>2, <2>3, FieldWritten, InvitesStay
<1>5. CASE Accept(r) /\ Free(i, "ACCEPTED")
  <2>1. AboutInvitation(r) /\ i \in DOMAIN invites
    BY <1>2, <1>5 DEF Accept, AboutInvitation
  <2>2. /\ invites' = [invites EXCEPT ![i].status = "ACCEPTED"]
        /\ joins' = [joins EXCEPT ![i] = @ + 1]
    BY <1>5 DEF Accept
  <2>3. invites \in Seq(Invitation) /\ joins \in Seq(Nat) /\ Len(joins) = Len(invites)
    BY DEF AccountTypeOK
  <2>9. PICK k \in DOMAIN invites : k = i
    BY <2>1
  <2>10. invites[k] \in Invitation
    BY <2>3
  <2> DEFINE row == [invites[k] EXCEPT !.status = "ACCEPTED"]
  <2>4. row \in Invitation /\ row.to = invites[k].to /\ row.status = "ACCEPTED"
    BY <2>10 DEF Invitation, InviteStatus
  <2>5. invites' = [invites EXCEPT ![k] = row]
    BY <2>2, <2>9
  <2> HIDE DEF row
  <2>6. /\ invites' \in Seq(Invitation) /\ Len(invites') = Len(invites)
        /\ \A j \in DOMAIN invites' :
             j \in DOMAIN invites /\ invites'[j] = IF j = k THEN row ELSE invites[j]
    BY <2>3, <2>4, <2>5
  <2>7. joins' \in Seq(Nat) /\ Len(joins') = Len(joins)
    BY <2>1, <2>2, <2>3
  <2>8. \A j, l \in DOMAIN invites' :
          invites'[j].to = invites'[l].to /\ invites'[j].status = invites'[l].status => j = l
    <3>1. \A j, l \in DOMAIN invites :
            invites[j].to = invites[l].to /\ invites[j].status = invites[l].status => j = l
      BY DEF AccountTypeOK
    <3> QED BY <1>5, <2>4, <2>6, <2>9, <3>1 DEF Free
  <2> QED BY <2>3, <2>6, <2>7, <2>8 DEF InvitesTyped, AccountTypeOK
<1>6. CASE Accept(r) /\ ~ Free(i, "ACCEPTED")
  BY <1>6, InvitesStay DEF Accept
<1>7. CASE LeaveOrg(r) \/ Transfer(r) \/ ChangeRole(r) \/ Joined(r) \/ Pin(r)
  BY <1>7, InvitesStay DEF LeaveOrg, Transfer, ChangeRole, Joined, Pin
<1> QED BY <1>1, <1>3, <1>4, <1>5, <1>6, <1>7 DEF Acts

\* Types and the fit of the requests stay.
LEMMA AccountShapeNext == AccountShape /\ [AccountNext]_accountVars => AccountShape'
<1> SUFFICES ASSUME AccountShape, [AccountNext]_accountVars PROVE AccountShape'
  OBVIOUS
<1>1. AccountTypeOK /\ RequestsFit
  BY DEF AccountShape
<1>2. CASE UNCHANGED accountVars
  <2> QED BY <1>1, <1>2
     DEF AccountShape, AccountTypeOK, RequestsFit, accountVars, memberRows, MemberDoing, Inviting,
         AboutInvitation
<1>3. ASSUME RowsTyped, InvitesTyped,
             memberRequest' \in [MemberHandlers -> MemberRequest \cup {Rest}],
             memberCrossed' \subseteq MemberCrossing, memberRequests' \in 0..MaxMemberRequests,
             \A r \in MemberHandlers : memberRequest'[r] # Rest =>
               \/ memberRequest'[r] = memberRequest[r]
               \/ Passes(memberRequest'[r])
               \/ /\ memberRequest'[r].row \in 0..Len(invites)
                  /\ memberRequest'[r].op \in {"joined", "switch"}
      PROVE  AccountShape'
  <2>1. Len(invites) \in Nat /\ Len(invites') \in Nat /\ Len(invites) <= Len(invites')
    BY <1>1, <1>3 DEF AccountTypeOK, InvitesTyped
  <2>2. DOMAIN invites \subseteq DOMAIN invites' /\ 0..Len(invites) \subseteq 0..Len(invites')
    BY <1>1, <1>3, <2>1 DEF AccountTypeOK, InvitesTyped
  <2>3. \A r \in MemberHandlers :
          memberRequest'[r] # Rest => memberRequest'[r].row \in 0..Len(invites')
    BY <1>1, <1>3, <2>2 DEF AccountTypeOK, Passes
  <2>4. AccountTypeOK'
    BY <1>3, <2>3 DEF AccountTypeOK, RowsTyped, InvitesTyped
  <2>5. ASSUME NEW r \in MemberHandlers, memberRequest'[r] # Rest
        PROVE  /\ memberRequest'[r].op = "leave" => role'[memberRequest'[r].by] # "none"
               /\ memberRequest'[r].op = "invite" => memberRequest'[r].role \in {"ADMIN", "MEMBER"}
               /\ memberRequest'[r].op \in {"resend", "revoke", "expire", "accept"} =>
                    memberRequest'[r].row \in DOMAIN invites'
    <3>1. memberRequest'[r].by \in Users
      BY <1>3, <2>5 DEF MemberRequest
    <3>2. CASE memberRequest'[r] = memberRequest[r]
      BY <1>1, <1>3, <2>2, <2>5, <3>1, <3>2
      DEF RequestsFit, MemberDoing, Inviting, AboutInvitation, RowsTyped
    <3>3. CASE Passes(memberRequest'[r])
      BY <1>3, <2>2, <2>5, <3>1, <3>3 DEF Passes, Member, RowsTyped
    <3>4. CASE memberRequest'[r].op \in {"joined", "switch"}
      BY <3>4
    <3> QED BY <1>3, <2>5, <3>2, <3>3, <3>4
  <2> QED BY <2>4, <2>5 DEF AccountShape, RequestsFit, MemberDoing, Inviting, AboutInvitation
<1>4. CASE Lapse
  <2>1. PICK i \in DOMAIN invites : invites' = [invites EXCEPT ![i].late = TRUE]
    BY <1>4 DEF Lapse
  <2>2. InvitesTyped
    BY <1>1, <1>4, <2>1, FieldWritten DEF Lapse
  <2>3. RowsTyped
    BY <1>1, <1>4, RowsStay DEF Lapse, memberRows, AccountTypeOK
  <2> QED BY <1>1, <1>3, <1>4, <2>2, <2>3 DEF Lapse, AccountTypeOK
<1>5. ASSUME NEW r \in MemberHandlers, MemberFind(r) PROVE AccountShape'
  <2>1. RowsTyped /\ InvitesTyped
    BY <1>1, <1>5, FindFacts, RowsStay, InvitesStay DEF AccountTypeOK
  <2>2. memberCrossed' \subseteq MemberCrossing
    BY <1>1, <1>5, FindFacts DEF MemberCrossings, AccountTypeOK
  <2>3. memberRequests' \in 0..MaxMemberRequests
    BY <1>1, <1>5, AccountAssumption DEF MemberFind, AccountTypeOK
  <2> QED BY <1>1, <1>3, <1>5, <2>1, <2>2, <2>3, FindFacts
<1>6. ASSUME NEW r \in MemberHandlers, Acts(r) PROVE AccountShape'
  <2>1. RowsTyped /\ InvitesTyped
    BY <1>6, ActRows, ActInvites
  <2>2. memberCrossed' \subseteq MemberCrossing /\ memberRequests' \in 0..MaxMemberRequests
    BY <1>1, <1>6, ActFacts DEF AccountTypeOK
  <2>3. memberRequest[r].row \in 0..Len(invites) /\ 0 \in 0..Len(invites)
    BY <1>1, <1>6, ActFacts DEF AccountTypeOK
  <2> QED BY <1>1, <1>3, <1>6, <2>1, <2>2, <2>3, ActFacts
<1> QED BY <1>2, <1>4, <1>5, <1>6 DEF AccountNext, Acts


\* Nobody who comes in is overtaken by somebody leaving.
LEMMA SessionNext ==
  AccountShape /\ SessionInv /\ [AccountNext]_accountVars => SessionInv'
<1> SUFFICES ASSUME AccountShape, [AccountNext]_accountVars, SessionInv,
                    "session" \notin memberCrossed'
             PROVE  SessionInv'
  BY DEF SessionInv
<1> USE DEF AccountShape
<1>1. CASE UNCHANGED accountVars
  BY <1>1 DEF SessionInv, accountVars, memberRows, Coming, Entering, MemberDoing, Member
<1>2. CASE Lapse
  BY <1>2 DEF SessionInv, Lapse, memberRows, Coming, Entering, MemberDoing, Member
<1>3. ASSUME NEW r \in MemberHandlers, MemberFind(r) PROVE SessionInv'
  <2> DEFINE q == memberRequest'[r]
  <2>1. /\ q # Rest /\ Passes(q) /\ memberRequest[r] = Rest
        /\ \A s \in MemberHandlers \ {r} : memberRequest'[s] = memberRequest[s]
        /\ memberCrossed' = memberCrossed \cup MemberCrossings(r, q)
        /\ UNCHANGED <<role, left, pinned>>
    BY <1>3, FindFacts
  <2>2. "session" \notin memberCrossed /\ "session" \notin MemberCrossings(r, q)
    BY <2>1
  <2>3. \A s \in MemberHandlers \ {r} :
          /\ ~ (MemberDoing(s, "leave") /\ q.op \in {"accept", "joined", "switch", "enter"})
          /\ ~ (Coming(s) /\ q.op = "leave")
    BY <2>2, MeetingsCross DEF MemberDoing, Coming, Entering
  <2>4. \A s \in MemberHandlers \ {r}, op \in MemberOp : MemberDoing(s, op)' <=> MemberDoing(s, op)
    BY <2>1 DEF MemberDoing
  <2>5. \A op \in MemberOp : MemberDoing(r, op)' <=> q.op = op
    BY <2>1 DEF MemberDoing
  <2>6. q.op \in {"switch", "enter"} => Member(q.by)
    BY <2>1 DEF Passes
  <2>7. \A u : Member(u)' <=> Member(u)
    BY <2>1 DEF Member
  <2> HIDE DEF q
  <2> QED
    BY <2>1, <2>2, <2>3, <2>4, <2>5, <2>6, <2>7 DEF SessionInv, Coming, Entering, q, MemberOp
<1>4. ASSUME NEW r \in MemberHandlers, Acts(r) PROVE SessionInv'
  <2>1. /\ memberRequest[r] \in MemberRequest /\ memberRequest[r] # Rest
        /\ \A s \in MemberHandlers \ {r} : memberRequest'[s] = memberRequest[s]
        /\ memberRequest'[r] # Rest =>
             /\ memberRequest'[r].by = memberRequest[r].by
             /\ \/ MemberDoing(r, "accept") /\ memberRequest'[r].op = "joined"
                \/ /\ MemberDoing(r, "joined") /\ memberRequest'[r].op = "switch"
                   /\ Member(memberRequest[r].by)
        /\ memberCrossed' = memberCrossed
    BY <1>4, ActFacts
  <2>2. \A s \in MemberHandlers : Coming(s)' => Coming(s)
    BY <2>1 DEF Coming, Entering, MemberDoing
  <2>3. \A s \in MemberHandlers : MemberDoing(s, "leave")' => MemberDoing(s, "leave")
    BY <2>1 DEF MemberDoing
  <2>4. \A s \in MemberHandlers :
          Entering(s)' => Member(memberRequest[s].by) /\ memberRequest'[s].by = memberRequest[s].by
    BY <2>1 DEF SessionInv, Entering, MemberDoing
  <2>5. \A s \in MemberHandlers : Coming(s) => memberRequest[s].by \in Users
    BY DEF Coming, Entering, MemberDoing, AccountTypeOK, MemberRequest
  <2>6. CASE LeaveOrg(r)
    <3>1. MemberDoing(r, "leave") /\ \A s \in MemberHandlers : ~ Coming(s)
      BY <1>4, <2>1, <2>6 DEF SessionInv, LeaveOrg
    <3>2. \A u \in pinned' : Member(u)'
      BY <2>1, <2>6 DEF SessionInv, LeaveOrg, Unpinned, Member
    <3> QED BY <2>1, <2>2, <3>1, <3>2 DEF SessionInv, Coming
  <2>7. CASE ~ LeaveOrg(r)
    <3>1. \A u \in Users : Member(u) => Member(u)'
      <4>1. RowsTyped
        BY <1>4, ActRows
      <4>2. left' \subseteq left
        BY <1>4, <2>7 DEF Acts, Transfer, ChangeRole, Invite, Resend, Revoke, Expire, Accept,
                          Joined, Pin, memberRows
      <4> QED BY <4>1, <4>2 DEF RowsTyped, Member
    <3>2. \A u \in pinned' : Member(u) /\ u \in Users
      <4>1. CASE Pin(r)
        BY <2>1, <4>1 DEF SessionInv, Pin, Entering, AccountTypeOK, MemberRequest
      <4>2. CASE UNCHANGED pinned
        BY <2>1, <4>2 DEF SessionInv, AccountTypeOK
      <4> QED BY <1>4, <2>7, <4>1, <4>2 DEF Acts, Transfer, ChangeRole, Invite, Resend, Revoke,
                                            Expire, Accept, Joined, memberRows
    <3> QED BY <2>1, <2>2, <2>3, <2>4, <2>5, <3>1, <3>2 DEF SessionInv, Coming
  <2> QED BY <2>6, <2>7
<1> QED BY <1>1, <1>2, <1>3, <1>4 DEF AccountNext, Acts


AboutAny(r) == Inviting(r) \/ AboutInvitation(r)

\* An invitation is used by the one request that is about it.
LEMMA InvitationNext ==
  AccountShape /\ InvitationInv /\ [AccountNext]_accountVars => InvitationInv'
<1> SUFFICES ASSUME AccountShape, [AccountNext]_accountVars, InvitationInv,
                    "invitation" \notin memberCrossed'
             PROVE  InvitationInv'
  BY DEF InvitationInv
<1> USE DEF AccountShape
<1>1. CASE UNCHANGED accountVars
  BY <1>1 DEF InvitationInv, accountVars, memberRows, Inviting, AboutInvitation, MemberDoing, Pending
<1>2. CASE Lapse
  <2>1. PICK i \in DOMAIN invites : invites' = [invites EXCEPT ![i].late = TRUE]
    BY <1>2 DEF Lapse
  <2>2. /\ DOMAIN invites' = DOMAIN invites
        /\ \A j \in DOMAIN invites : invites'[j].status = invites[j].status
    <3>1. invites[i] \in Invitation
      BY DEF AccountTypeOK
    <3> QED BY <2>1, <3>1 DEF AccountTypeOK, Invitation
  <2>3. UNCHANGED <<memberRequest, joins, memberCrossed>>
    BY <1>2 DEF Lapse
  <2>4. \A r \in MemberHandlers : AboutInvitation(r) => memberRequest[r].row \in DOMAIN invites
    BY DEF RequestsFit
  <2> QED BY <2>2, <2>3, <2>4 DEF InvitationInv, Inviting, AboutInvitation, MemberDoing, Pending
<1>3. ASSUME NEW r \in MemberHandlers, MemberFind(r) PROVE InvitationInv'
  <2> DEFINE q == memberRequest'[r]
  <2>1. /\ q # Rest /\ Passes(q) /\ memberRequest[r] = Rest
        /\ \A s \in MemberHandlers \ {r} : memberRequest'[s] = memberRequest[s]
        /\ memberCrossed' = memberCrossed \cup MemberCrossings(r, q)
        /\ UNCHANGED <<invites, joins>>
    BY <1>3, FindFacts
  <2>2. "invitation" \notin memberCrossed /\ "invitation" \notin MemberCrossings(r, q)
    BY <2>1
  <2>3. \A s \in MemberHandlers \ {r} :
          ~ (AboutAny(s) /\ q.op \in {"invite", "resend", "revoke", "expire", "accept"})
    BY <2>2, MeetingsCross DEF MemberDoing, AboutAny, Inviting, AboutInvitation
  <2>4. \A s \in MemberHandlers \ {r} :
          (Inviting(s)' <=> Inviting(s)) /\ (AboutInvitation(s)' <=> AboutInvitation(s))
    BY <2>1 DEF MemberDoing, Inviting, AboutInvitation
  <2>5. /\ Inviting(r)' <=> q.op = "invite"
        /\ AboutInvitation(r)' <=> q.op \in {"resend", "revoke", "expire", "accept"}
    BY <2>1 DEF MemberDoing, Inviting, AboutInvitation
  <2>6. \A s \in MemberHandlers : AboutInvitation(s)' => Pending(memberRequest[s].row)'
    <3>1. AboutInvitation(r)' => Pending(memberRequest[r].row)'
      BY <2>1, <2>5 DEF Passes, Pending
    <3>2. \A s \in MemberHandlers \ {r} :
            AboutInvitation(s)' => Pending(memberRequest[s].row)'
      BY <2>1, <2>2, <2>4 DEF InvitationInv, Pending
    <3> QED BY <3>1, <3>2
  <2> HIDE DEF q
  <2>9. \A s, t \in MemberHandlers :
         (Inviting(s) \/ AboutInvitation(s))' /\ (Inviting(t) \/ AboutInvitation(t))' => s = t
    BY <2>2, <2>3, <2>4, <2>5 DEF InvitationInv, AboutAny
  <2> QED BY <2>1, <2>2, <2>6, <2>9 DEF InvitationInv
<1>4. ASSUME NEW r \in MemberHandlers, Acts(r) PROVE InvitationInv'
  <2> DEFINE k == memberRequest[r].row
  <2>1. /\ \A s \in MemberHandlers \ {r} : memberRequest'[s] = memberRequest[s]
        /\ memberRequest'[r] # Rest => memberRequest'[r].op \in {"joined", "switch"}
        /\ memberCrossed' = memberCrossed
    BY <1>4, ActFacts
  <2>2. /\ ~ AboutAny(r)'
        /\ \A s \in MemberHandlers \ {r} :
             (Inviting(s)' <=> Inviting(s)) /\ (AboutInvitation(s)' <=> AboutInvitation(s))
    BY <2>1 DEF AboutAny, Inviting, AboutInvitation, MemberDoing
  <2>3. /\ \A s, t \in MemberHandlers : AboutAny(s) /\ AboutAny(t) => s = t
        /\ \A s \in MemberHandlers : AboutInvitation(s) => Pending(memberRequest[s].row)
        /\ \A i \in DOMAIN invites :
             joins[i] <= 1 /\ (invites[i].status # "ACCEPTED" => joins[i] = 0)
    BY <2>1 DEF InvitationInv, AboutAny
  <2>4. \A s \in MemberHandlers : AboutInvitation(s) => memberRequest[s].row \in DOMAIN invites
    BY DEF RequestsFit
  <2>5. CASE UNCHANGED <<invites, joins>>
    BY <2>1, <2>2, <2>3, <2>5 DEF InvitationInv, AboutAny, Pending
  <2>6. CASE AboutAny(r) /\ \A i \in DOMAIN invites' :
               joins'[i] <= 1 /\ (invites'[i].status # "ACCEPTED" => joins'[i] = 0)
    <3>1. \A s \in MemberHandlers : ~ AboutAny(s)'
      BY <2>2, <2>3, <2>6 DEF AboutAny
    <3> QED BY <2>6, <3>1 DEF InvitationInv, AboutAny
  <2>7. CASE Invite(r)
    <3>1. \A i \in DOMAIN invites' :
            joins'[i] <= 1 /\ (invites'[i].status # "ACCEPTED" => joins'[i] = 0)
      BY <2>3, <2>7, InviteFacts DEF Pending
    <3> QED BY <2>6, <2>7, <3>1 DEF Invite, AboutAny, Inviting
  <2>8. ASSUME AboutInvitation(r), UNCHANGED joins,
               \/ invites' = [invites EXCEPT ![k].late = FALSE]
               \/ \E s \in {"REVOKED", "EXPIRED"} : invites' = [invites EXCEPT ![k].status = s]
        PROVE  InvitationInv'
    <3>1. k \in DOMAIN invites /\ joins[k] = 0
      BY <2>3, <2>4, <2>8 DEF Pending
    <3>2. DOMAIN invites' = DOMAIN invites
      BY <2>8
    <3>3. \A i \in DOMAIN invites \ {k} : invites'[i] = invites[i]
      BY <2>8
    <3> QED BY <2>3, <2>6, <2>8, <3>1, <3>2, <3>3 DEF AboutAny
  <2>9. CASE Resend(r) \/ Revoke(r) \/ Expire(r)
    BY <2>5, <2>8, <2>9 DEF Resend, Revoke, Expire, AboutInvitation
  <2>10. CASE Accept(r) /\ Free(k, "ACCEPTED")
    <3>1. AboutInvitation(r) /\ k \in DOMAIN invites /\ joins[k] = 0
      BY <2>3, <2>4, <2>10 DEF Accept, AboutInvitation, Pending
    <3>2. /\ invites' = [invites EXCEPT ![k].status = "ACCEPTED"]
          /\ joins' = [joins EXCEPT ![k] = @ + 1]
      BY <2>10 DEF Accept
    <3>3. PICK i \in DOMAIN invites : i = k
      BY <3>1
    <3>4. invites[i] \in Invitation /\ DOMAIN joins = DOMAIN invites /\ joins[i] = 0
      BY <3>1, <3>3 DEF AccountTypeOK
    <3>5. invites'[i].status = "ACCEPTED" /\ joins'[i] = 1
      BY <3>2, <3>3, <3>4 DEF Invitation
    <3>6. /\ DOMAIN invites' = DOMAIN invites
          /\ \A j \in DOMAIN invites \ {i} : invites'[j] = invites[j] /\ joins'[j] = joins[j]
      BY <3>2, <3>3, <3>4
    <3> QED BY <2>3, <2>6, <3>1, <3>5, <3>6 DEF AboutAny
  <2>11. CASE ~ (Invite(r) \/ Resend(r) \/ Revoke(r) \/ Expire(r)) /\ ~ (Accept(r) /\ Free(k, "ACCEPTED"))
    <3>1. UNCHANGED <<invites, joins>>
      BY <1>4, <2>11 DEF Acts, LeaveOrg, Transfer, ChangeRole, Accept, Joined, Pin
    <3> QED BY <2>5, <3>1
  <2> QED BY <2>7, <2>9, <2>10, <2>11
<1> QED BY <1>1, <1>2, <1>3, <1>4 DEF AccountNext, Acts


\* Who changes the membership alone leaves it with an owner.
LEMMA OwnerLeft ==
  ASSUME AccountShape, NEW r \in MemberHandlers, Acts(r), "members" \notin memberCrossed,
         OwnerInv, Changing(r)
  PROVE  Owners' # {} \/ demoted'
<1> DEFINE q == memberRequest[r]
<1> USE DEF AccountShape
<1>1. /\ role \in [Users -> Role \cup {"none"}] /\ q.by \in Users /\ q.to \in Users /\ q.role \in Role
      /\ "none" \notin Role
  BY ActFacts DEF AccountTypeOK, MemberRequest, Role
<1>2. Owners # {} \/ demoted
  BY DEF OwnerInv
<1>3. CASE LeaveOrg(r)
  <2>1. /\ LeavesOwner(q) /\ q.op = "leave"
        /\ left' = left \cup {q.by} /\ UNCHANGED <<role, demoted>>
    BY <1>3 DEF LeaveOrg, OwnerInv, MemberDoing
  <2>2. \A v \in Owners \ {q.by} : v \in Owners'
    BY <2>1 DEF Owners, Member
  <2>3. demoted \/ Owners \ {q.by} # {}
    BY <1>2, <2>1 DEF LeavesOwner, OtherOwners, Owners
  <2> QED BY <2>1, <2>2, <2>3
<1>4. CASE Transfer(r)
  <2>1. /\ role' = Transferred(role, q.by, q.to) /\ demoted' = (demoted \/ q.by = q.to)
        /\ UNCHANGED left /\ Member(q.to)
    BY <1>4 DEF Transfer, OwnerInv
  <2>2. q.by # q.to => role'[q.to] = "OWNER"
    BY <1>1, <2>1 DEF Transferred
  <2>3. q.by # q.to => q.to \in Owners'
    BY <1>1, <2>1, <2>2 DEF Owners, Member
  <2> QED BY <2>1, <2>3
<1>5. CASE ChangeRole(r)
  <2>1. /\ role' = [role EXCEPT ![q.by] = q.role] /\ UNCHANGED <<left, demoted>>
        /\ q.op = "change" /\ Member(q.by) /\ LeavesOwner(q)
    BY <1>5 DEF ChangeRole, OwnerInv, MemberDoing
  <2>2. \A v \in Owners \ {q.by} : v \in Owners'
    BY <1>1, <2>1 DEF Owners, Member
  <2>3. CASE q.role = "OWNER"
    BY <1>1, <2>1, <2>3 DEF Owners, Member
  <2>4. CASE q.role # "OWNER"
    BY <1>2, <2>1, <2>2, <2>4 DEF LeavesOwner, OtherOwners, Owners
  <2> QED BY <2>3, <2>4
<1>6. CASE Accept(r) /\ Free(q.row, "ACCEPTED")
  <2>1. /\ role' = [role EXCEPT ![q.by] = q.role] /\ left' = left \ {q.by}
        /\ demoted' = (demoted \/ q.by \in Owners)
    BY <1>6 DEF Accept
  <2>2. \A v \in Owners \ {q.by} : v \in Owners'
    BY <1>1, <2>1 DEF Owners, Member
  <2> QED BY <1>2, <2>1, <2>2
<1>7. CASE Accept(r) /\ ~ Free(q.row, "ACCEPTED")
  <2>1. UNCHANGED <<role, left, demoted>>
    BY <1>7 DEF Accept
  <2> QED BY <1>2, <2>1 DEF Owners, Member
<1> QED BY <1>3, <1>4, <1>5, <1>6, <1>7
        DEF Acts, Changing, MemberDoing, Invite, Resend, Revoke, Expire, Joined, Pin

\* While changes of the membership do not overlap, an owner remains.
LEMMA OwnerNext ==
  AccountShape /\ OwnerInv /\ [AccountNext]_accountVars => OwnerInv'
<1> SUFFICES ASSUME AccountShape, [AccountNext]_accountVars, OwnerInv,
                    "members" \notin memberCrossed'
             PROVE  OwnerInv'
  BY DEF OwnerInv
<1> USE DEF AccountShape
<1>1. ASSUME UNCHANGED <<role, left, demoted, memberRequest, memberCrossed>> PROVE OwnerInv'
  BY <1>1 DEF OwnerInv, Changing, MemberDoing, Member, LeavesOwner, OtherOwners, Owners
<1>2. CASE UNCHANGED accountVars \/ Lapse
  BY <1>1, <1>2 DEF accountVars, memberRows, Lapse
<1>3. ASSUME UNCHANGED <<role, left>>
      PROVE  /\ \A u : Member(u)' <=> Member(u)
             /\ Owners' = Owners
             /\ \A s \in MemberHandlers :
                  memberRequest'[s] = memberRequest[s] =>
                    (LeavesOwner(memberRequest[s])' <=> LeavesOwner(memberRequest[s]))
  BY <1>3 DEF Owners, Member, LeavesOwner, OtherOwners
<1>4. ASSUME NEW r \in MemberHandlers, MemberFind(r) PROVE OwnerInv'
  <2> DEFINE q == memberRequest'[r]
  <2>1. /\ q # Rest /\ Passes(q) /\ memberRequest[r] = Rest
        /\ \A s \in MemberHandlers \ {r} : memberRequest'[s] = memberRequest[s]
        /\ memberCrossed' = memberCrossed \cup MemberCrossings(r, q)
        /\ UNCHANGED <<role, left, demoted>>
    BY <1>4, FindFacts
  <2>2. "members" \notin memberCrossed /\ "members" \notin MemberCrossings(r, q)
    BY <2>1
  <2>3. \A s \in MemberHandlers \ {r} :
          ~ (Changing(s) /\ q.op \in {"leave", "transfer", "change", "accept"})
    BY <2>2, MeetingsCross DEF MemberDoing, Changing
  <2>4. \A s \in MemberHandlers \ {r} :
          /\ Changing(s)' <=> Changing(s)
          /\ \A op : MemberDoing(s, op)' <=> MemberDoing(s, op)
    BY <2>1 DEF MemberDoing, Changing
  <2>5. /\ Changing(r)' <=> q.op \in {"leave", "transfer", "change", "accept"}
        /\ \A op : MemberDoing(r, op)' <=> q.op = op
    BY <2>1 DEF MemberDoing, Changing
  <2>6. /\ MemberDoing(r, "leave")' \/ MemberDoing(r, "change")' =>
             Member(memberRequest[r].by)' /\ LeavesOwner(memberRequest[r])'
        /\ MemberDoing(r, "transfer")' =>
             memberRequest'[r].by \in Owners' /\ Member(memberRequest[r].to)'
    BY <2>1, <2>5 DEF Passes, Owners, Member, LeavesOwner, OtherOwners
  <2>7. \A s \in MemberHandlers \ {r} :
          /\ MemberDoing(s, "leave")' \/ MemberDoing(s, "change")' =>
               Member(memberRequest[s].by)' /\ LeavesOwner(memberRequest[s])'
          /\ MemberDoing(s, "transfer")' =>
               memberRequest'[s].by \in Owners' /\ Member(memberRequest[s].to)'
    BY <1>3, <2>1, <2>2, <2>4 DEF OwnerInv, Member
  <2>8. \A s, t \in MemberHandlers : Changing(s)' /\ Changing(t)' => s = t
    BY <2>2, <2>3, <2>4, <2>5 DEF OwnerInv
  <2>9. Owners' # {} \/ demoted'
    BY <1>3, <2>1, <2>2 DEF OwnerInv
  <2> QED BY <2>6, <2>7, <2>8, <2>9 DEF OwnerInv
<1>5. ASSUME NEW r \in MemberHandlers, Acts(r) PROVE OwnerInv'
  <2>1. /\ \A s \in MemberHandlers \ {r} : memberRequest'[s] = memberRequest[s]
        /\ memberRequest'[r] # Rest => memberRequest'[r].op \in {"joined", "switch"}
        /\ memberCrossed' = memberCrossed
    BY <1>5, ActFacts
  <2>2. /\ ~ Changing(r)'
        /\ \A op \in {"leave", "change", "transfer"} : ~ MemberDoing(r, op)'
        /\ \A s \in MemberHandlers \ {r} :
             /\ Changing(s)' <=> Changing(s)
             /\ \A op : MemberDoing(s, op)' <=> MemberDoing(s, op)
    BY <2>1 DEF Changing, MemberDoing
  <2>3. CASE Changing(r)
    <3>1. \A s \in MemberHandlers : ~ Changing(s)'
      BY <2>1, <2>2, <2>3 DEF OwnerInv
    <3>2. Owners' # {} \/ demoted'
      BY <1>5, <2>1, <2>3, OwnerLeft
    <3> QED BY <3>1, <3>2 DEF OwnerInv, Changing
  <2>4. CASE ~ Changing(r)
    <3>1. UNCHANGED <<role, left, demoted>>
      BY <1>5, <2>4 DEF Acts, LeaveOrg, Transfer, ChangeRole, Invite, Resend, Revoke, Expire, Accept,
                        Joined, Pin, memberRows, Changing
    <3>2. \A s \in MemberHandlers \ {r} :
            /\ MemberDoing(s, "leave")' \/ MemberDoing(s, "change")' =>
                 Member(memberRequest[s].by)' /\ LeavesOwner(memberRequest[s])'
            /\ MemberDoing(s, "transfer")' =>
                 memberRequest'[s].by \in Owners' /\ Member(memberRequest[s].to)'
      BY <1>3, <2>1, <2>2, <3>1 DEF OwnerInv, Member
    <3>3. Owners' # {} \/ demoted'
      BY <1>3, <2>1, <3>1 DEF OwnerInv
    <3> QED BY <2>1, <2>2, <3>2, <3>3 DEF OwnerInv
  <2> QED BY <2>3, <2>4
<1> QED BY <1>2, <1>4, <1>5 DEF AccountNext, Acts

LEMMA AccountInitIInv == AccountInit => AccountIInv
<1> SUFFICES ASSUME AccountInit PROVE AccountIInv
  OBVIOUS
<1>8. role \in [Users -> Role \cup {"none"}] /\ left = {} /\ pinned = {} /\ demoted \in BOOLEAN
  BY DEF AccountInit, Role
<1>9. /\ invites \in Seq(Invitation) /\ DOMAIN invites = {}
      /\ joins \in Seq(Nat) /\ Len(joins) = Len(invites)
  BY DEF AccountInit
<1>10. memberCrossed = {} /\ memberRequests \in 0..MaxMemberRequests
  BY AccountAssumption DEF AccountInit
<1>11. /\ memberRequest \in [MemberHandlers -> MemberRequest \cup {Rest}]
       /\ \A r \in MemberHandlers : memberRequest[r] = Rest
  BY DEF AccountInit
<1>1. AccountTypeOK
  BY <1>8, <1>9, <1>10, <1>11 DEF AccountTypeOK
<1>2. \A r \in MemberHandlers : \A op : ~ MemberDoing(r, op)
  BY DEF AccountInit, MemberDoing
<1>3. Founder \in Owners
  BY AccountAssumption DEF AccountInit, Owners, Member
<1>4. OwnerInv
  BY <1>2, <1>3 DEF OwnerInv, Changing
<1>5. InvitationInv
  BY <1>2 DEF AccountInit, InvitationInv, Inviting, AboutInvitation
<1>6. SessionInv
  BY <1>2 DEF AccountInit, SessionInv, Entering
<1>7. RequestsFit
  BY <1>2 DEF RequestsFit, Inviting, AboutInvitation
<1> QED BY <1>1, <1>4, <1>5, <1>6, <1>7 DEF AccountIInv, AccountShape

\* All of it is inductive.
LEMMA AccountInvariant == AccountSpec => []AccountIInv
<1>1. AccountIInv /\ [AccountNext]_accountVars => AccountIInv'
  BY AccountShapeNext, OwnerNext, InvitationNext, SessionNext DEF AccountIInv
<1> QED BY AccountInitIInv, <1>1, PTL DEF AccountSpec

\* Members, invitations and requests are what they are declared to be, and an address has
\* one invitation of each status at most.
THEOREM AccountTypeCorrect == AccountSpec => []AccountTypeOK
<1>1. AccountIInv => AccountTypeOK
  BY DEF AccountIInv, AccountShape
<1> QED BY AccountInvariant, <1>1, PTL

\* For any users and any number of requests at a time: an owner remains, an invitation is
\* used once, and a session is where its user is a member, with the overlaps that are named.
THEOREM MembersAreSound == AccountSpec => []MembersSound
<1>1. AccountIInv => OwnerRemains /\ PinnedIsMember
  BY DEF AccountIInv, OwnerInv, SessionInv, OwnerRemains, PinnedIsMember
<1>2. AccountIInv => InvitationUsedOnce
  BY DEF AccountIInv, AccountShape, InvitationInv, InvitationUsedOnce
<1>3. AccountIInv => MembersSound
  BY <1>1, <1>2 DEF MembersSound
<1> QED BY AccountInvariant, <1>3, PTL
=============================================================================
