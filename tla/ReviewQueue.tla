----------------------------- MODULE ReviewQueue -----------------------------
(***************************************************************************)
(* The review queue of generated campaign assets                           *)
(* (apps/api/src/modules/marketing/review-queue.controller.ts), with the   *)
(* generation that fills it (ai/campaign-generation.service.ts), the        *)
(* pictures kept from the media library (ai/media.controller.ts) and the    *)
(* storage its artwork is written to (infrastructure/storage.ts).           *)
(*                                                                         *)
(* Every request reads the row in one statement and writes it, by its id    *)
(* alone, in a later one; a drawing has the provider and the storage        *)
(* between the two. Words are version numbers; a picture is an address and  *)
(* the number of the drawing stored there. An address is an asset's and a   *)
(* variant's, the same in every drawing, and the media library lists it     *)
(* once a drawing is attached: from then on another asset may keep it too.  *)
(* Nothing in the repository gives an asset the status DRAFT, PUBLISHING or  *)
(* PUBLISHED, so the guards on them never bind and are not here.            *)
(***************************************************************************)
EXTENDS Naturals, FiniteSets, Sequences

CONSTANTS
  Assets,      \* the rows of campaign_asset there may be
  Variants,    \* the pictures one drawing asks for: two of a photograph, one of a poster
  Library,     \* the address of a picture made outside a campaign
  Requests,    \* the requests that may be in progress at the same time
  Nothing,     \* no request, no picture
  ReviewFaults,      \* the kinds of fault that happen
  MaxReviewTrouble   \* bound: how many requests and faults one behaviour has

ReviewFaultKinds == {"crash", "provider", "write"}

ASSUME ReviewAssumption ==
  /\ Library \notin Assets \X Variants
  /\ Nothing \notin Requests \cup (Assets \X Variants) \cup {Library}
  /\ ReviewFaults \subseteq ReviewFaultKinds
  /\ MaxReviewTrouble \in Nat

VARIABLES
  kind,       \* [Assets -> {"absent", "copy", "artwork"}]
  status,     \* [Assets -> Status]
  deleted,    \* the assets with deleted_at set
  words,      \* [Assets -> Nat]: what a post made of the asset would say
  media,      \* [Assets -> Url or Nothing]: media_url
  offered,    \* [Assets -> SUBSET Url]: ai_versions.variants
  file,       \* [Assets -> [Variants -> Nat]]: the drawing stored under each address, 0 for none
  request,    \* [Requests -> what a request in progress has found, or Nothing]
  todo,       \* [Requests -> SUBSET Variants]: the pictures a drawing still waits for
  landed,     \* [Requests -> SUBSET Variants]: the pictures it has stored
  gallery,    \* SUBSET Url: the addresses that have a row of media_asset
  posts,      \* [Assets -> Seq([words, url, sent])]: the social posts made of the asset
  shown,      \* [Assets -> SUBSET Shot]: history, the pictures that were published
  approvals,  \* [Assets -> Nat]: history, how often the asset was approved
  vetted,     \* [Assets -> [words, pictures]]: history, what the approvals had read
  drawings,   \* [Assets -> Nat]: history, how many drawings were begun
  forced,     \* history: the assets on which somebody asked for another drawing
  instructed, \* history: those on which the wording of the prompt was changed that way
  bulked,     \* history: those approved in bulk
  crossed,    \* [Assets -> SUBSET Crossing]: history, the kinds of requests that overlapped
  trouble     \* history: requests and faults so far

rowVars == <<kind, status, deleted, words, media, offered>>
drawVars == <<file, todo, landed>>
postVars == <<gallery, posts, shown>>
reviewHistory == <<approvals, vetted, drawings, forced, instructed, bulked, crossed>>
reviewVars == <<rowVars, drawVars, request, postVars, reviewHistory, trouble>>

\* The addresses of an asset's own drawings, all there are, and what one shows.
Own(a) == {a} \X Variants
Url == (Assets \X Variants) \cup {Library}
Shot == Url \X Nat
Status == {"GENERATED", "NEEDS_REVIEW", "APPROVED", "REJECTED", "SCHEDULED", "FAILED"}
Op == {"edit", "rewrite", "redraw", "again", "draw", "force", "failing", "approve", "reject",
       "publish", "schedule", "choose", "duplicate", "remove", "keep"}
Crossing == {"publishes", "wordings", "drawings", "choices", "keeps"}

\* What a request in progress has found, and what a post says and shows.
ReviewRequest ==
  {q \in [op : Op, on : Assets, status : Status, words : Nat, media : Url \cup {Nothing},
          offered : SUBSET Url, pictures : SUBSET Shot, drawing : Nat] :
     q.op = "keep" => q.media # Nothing}
AssetPost == [words : Nat, url : Url \cup {Nothing}, sent : BOOLEAN]

ReviewTypeOK ==
  /\ kind \in [Assets -> {"absent", "copy", "artwork"}]
  /\ status \in [Assets -> Status]
  /\ deleted \subseteq Assets
  /\ words \in [Assets -> Nat]
  /\ media \in [Assets -> Url \cup {Nothing}]
  /\ offered \in [Assets -> SUBSET Url]
  /\ file \in [Assets -> [Variants -> Nat]]
  /\ request \in [Requests -> ReviewRequest \cup {Nothing}]
  /\ todo \in [Requests -> SUBSET Variants]
  /\ landed \in [Requests -> SUBSET Variants]
  /\ gallery \subseteq Url
  /\ posts \in [Assets -> Seq(AssetPost)]
  /\ shown \in [Assets -> SUBSET Shot]
  /\ approvals \in [Assets -> Nat]
  /\ vetted \in [Assets -> [words : SUBSET Nat, pictures : SUBSET Shot]]
  /\ drawings \in [Assets -> Nat]
  /\ forced \cup instructed \cup bulked \subseteq Assets
  /\ crossed \in [Assets -> SUBSET Crossing]
  /\ trouble \in 0..MaxReviewTrouble

ReviewInit ==
  /\ kind = [a \in Assets |-> "absent"]
  /\ status = [a \in Assets |-> "GENERATED"]
  /\ deleted = {}
  /\ words = [a \in Assets |-> 0]
  /\ media = [a \in Assets |-> Nothing]
  /\ offered = [a \in Assets |-> {}]
  /\ file = [a \in Assets |-> [v \in Variants |-> 0]]
  /\ request = [r \in Requests |-> Nothing]
  /\ todo = [r \in Requests |-> {}]
  /\ landed = [r \in Requests |-> {}]
  /\ gallery = {Library}
  /\ posts = [a \in Assets |-> << >>]
  /\ shown = [a \in Assets |-> {}]
  /\ approvals = [a \in Assets |-> 0]
  /\ vetted = [a \in Assets |-> [words |-> {}, pictures |-> {}]]
  /\ drawings = [a \in Assets |-> 0]
  /\ forced = {}
  /\ instructed = {}
  /\ bulked = {}
  /\ crossed = [a \in Assets |-> {}]
  /\ trouble = 0

Spend == trouble < MaxReviewTrouble /\ trouble' = trouble + 1
ReviewFault(k) == k \in ReviewFaults /\ Spend

-----------------------------------------------------------------------------
(* The rows.                                                               *)

Visible(a) == kind[a] # "absent" /\ a \notin deleted

\* What an address shows; a picture made outside a campaign is never drawn again.
Picture(url) == <<url, IF url = Library THEN 0 ELSE file[url[1]][url[2]]>>

\* The pictures of an asset: the one it has, and those it may have instead.
Faces(a) == (offered[a] \cup {media[a]}) \ {Nothing}
Pictures(a) == {Picture(url) : url \in Faces(a)}

SetStatus(a, s) == status' = [status EXCEPT ![a] = s]

\* generate(): the campaign and its assets, one transaction after the model answered.
\* Assets share nothing, so a campaign of one is enough (bound).
Generate ==
  /\ \A a \in Assets : kind[a] = "absent"
  /\ \E a \in Assets, k \in {"copy", "artwork"} :
       /\ kind' = [kind EXCEPT ![a] = k]
       /\ words' = [words EXCEPT ![a] = 1]
  /\ UNCHANGED <<status, deleted, media, offered, drawVars, request, postVars, reviewHistory,
                 trouble>>

-----------------------------------------------------------------------------
(* A request finds the row ...                                             *)

Approvable(a) ==
  /\ status[a] \in {"GENERATED", "NEEDS_REVIEW", "REJECTED", "FAILED"}
  /\ kind[a] = "artwork" => media[a] # Nothing

\* Seeded fault: an asset that has artwork is drawn again.
CanDrawAgain(a, anew) == kind[a] = "artwork" /\ status[a] # "REJECTED"

\* An asset that has artwork keeps it, unless another is asked for.
CanDraw(a, anew) ==
  /\ kind[a] = "artwork"
  /\ status[a] # "REJECTED"
  /\ media[a] = Nothing \/ anew

\* Seeded fault: what is scheduled already may be published.
PublishableTwice(a) == status[a] \in {"APPROVED", "SCHEDULED"}

Publishable(a) == status[a] = "APPROVED"

Allowed(op, a) ==
  CASE op = "approve"  -> Approvable(a)
    [] op = "reject"   -> status[a] \in {"GENERATED", "NEEDS_REVIEW", "APPROVED", "SCHEDULED"}
    [] op = "publish"  -> Publishable(a)
    [] op = "schedule" -> status[a] \in {"APPROVED", "SCHEDULED"}
    [] op = "choose"   -> offered[a] # {}
    [] op = "rewrite"  -> kind[a] = "copy"
    [] op = "redraw"   -> kind[a] = "artwork"
    [] op = "draw"     -> CanDraw(a, FALSE)
    [] op = "force"    -> CanDraw(a, TRUE)
    [] OTHER           -> op \in {"edit", "duplicate", "remove"}

Doing(r, op) == request[r] # Nothing /\ request[r].op = op

Drawing(r) == Doing(r, "draw") \/ Doing(r, "force")

\* What the requests in progress on a are doing, r left out.
Beside(r, a) ==
  {request[q].op : q \in {q \in Requests \ {r} : request[q] # Nothing /\ request[q].on = a}}

\* The ways in which a request of kind op overlaps those.
Crossings(op, beside) ==
  LET drawing == {"draw", "force", "failing"}
      wording == {"edit", "rewrite"}
      Meet(S, T) == (op \in S /\ beside \cap T # {}) \/ (op \in T /\ beside \cap S # {})
  IN {x \in Crossing : \/ x = "publishes" /\ Meet({"publish"}, {"publish"})
                       \/ x = "wordings" /\ Meet({"approve"}, wording)
                       \/ x = "drawings" /\ Meet(drawing, drawing)
                       \/ x = "choices" /\ Meet({"choose"}, drawing)}

Cross(a, found) == crossed' = [crossed EXCEPT ![a] = @ \cup found]

Found(op, a) ==
  [op |-> op, on |-> a, status |-> status[a], words |-> words[a], media |-> media[a],
   offered |-> IF op = "choose" THEN offered[a] ELSE {}, pictures |-> Pictures(a),
   drawing |-> IF op \in {"draw", "force"} THEN drawings[a] + 1 ELSE 0]

Find(r, op, a) ==
  /\ request[r] = Nothing
  /\ Visible(a)
  /\ Allowed(op, a)
  /\ Spend
  /\ request' = [request EXCEPT ![r] = Found(op, a)]
  /\ todo' = [todo EXCEPT ![r] = IF op \in {"draw", "force"} THEN Variants ELSE {}]
  /\ drawings' = [drawings EXCEPT ![a] = @ + (IF op \in {"draw", "force"} THEN 1 ELSE 0)]
  /\ forced' = IF op = "force" THEN forced \cup {a} ELSE forced
  /\ Cross(a, Crossings(op, Beside(r, a)))
  /\ UNCHANGED <<rowVars, file, landed, postVars, approvals, vetted, instructed, bulked>>

(* ... and writes it, whatever it is by then.                              *)

Answer(r) ==
  /\ request' = [request EXCEPT ![r] = Nothing]
  /\ todo' = [todo EXCEPT ![r] = {}]
  /\ landed' = [landed EXCEPT ![r] = {}]

\* The statements that change nothing but the status.
Move(r, op, s) ==
  /\ Doing(r, op)
  /\ SetStatus(request[r].on, s)
  /\ Answer(r)
  /\ UNCHANGED <<kind, deleted, words, media, offered, file, postVars, drawings, forced,
                 instructed, bulked, crossed, trouble>>

Approve(r) ==
  /\ Move(r, "approve", "APPROVED")
  /\ LET q == request[r]
     IN /\ approvals' = [approvals EXCEPT ![q.on] = @ + 1]
        /\ vetted' = [vetted EXCEPT ![q.on] = [words |-> @.words \cup {q.words},
                                               pictures |-> @.pictures \cup q.pictures]]

Reject(r) == Move(r, "reject", "REJECTED") /\ UNCHANGED <<approvals, vetted>>

\* schedule() sets a date and makes no post.
Schedule(r) == Move(r, "schedule", "SCHEDULED") /\ UNCHANGED <<approvals, vetted>>

\* bulk(): one statement over the ids, that asks for no status and no picture.
Bulk(a, s) ==
  /\ Visible(a)
  /\ Spend
  /\ SetStatus(a, s)
  /\ IF s = "APPROVED"
       THEN /\ approvals' = [approvals EXCEPT ![a] = @ + 1]
            /\ vetted' = [vetted EXCEPT ![a] = [words |-> @.words \cup {words[a]},
                                                pictures |-> @.pictures \cup Pictures(a)]]
            /\ bulked' = bulked \cup {a}
       ELSE UNCHANGED <<approvals, vetted, bulked>>
  /\ Cross(a, Crossings("approve", Beside(Nothing, a)))
  /\ UNCHANGED <<kind, deleted, words, media, offered, drawVars, request, postVars, drawings,
                 forced, instructed>>

\* Seeded fault: an edit leaves the decision it found.
EditedKept(found, now) == now

\* An edit takes back the decision it found, and touches no other status.
Edited(found, now) == IF found \in {"APPROVED", "REJECTED"} THEN "NEEDS_REVIEW" ELSE now

Edit(r) ==
  /\ Doing(r, "edit")
  /\ LET a == request[r].on
     IN /\ words' = [words EXCEPT ![a] = @ + 1]
        /\ SetStatus(a, Edited(request[r].status, status[a]))
  /\ Answer(r)
  /\ UNCHANGED <<kind, deleted, media, offered, file, postVars, reviewHistory, trouble>>

\* regenerate() on copy: the model's new text.
Rewrite(r) ==
  /\ Doing(r, "rewrite")
  /\ LET a == request[r].on
     IN words' = [words EXCEPT ![a] = @ + 1] /\ SetStatus(a, "GENERATED")
  /\ Answer(r)
  /\ UNCHANGED <<kind, deleted, media, offered, file, postVars, reviewHistory, trouble>>

ChooseVariant(r) ==
  /\ Doing(r, "choose")
  /\ \E url \in request[r].offered : media' = [media EXCEPT ![request[r].on] = url]
  /\ Answer(r)
  /\ UNCHANGED <<kind, status, deleted, words, offered, file, postVars, reviewHistory, trouble>>

\* publish(): the post says and shows what was read; the asset is SCHEDULED.
Publish(r) ==
  /\ Doing(r, "publish")
  /\ LET q == request[r]
     IN /\ posts' = [posts EXCEPT
             ![q.on] = Append(@, [words |-> q.words, url |-> q.media, sent |-> FALSE])]
        /\ SetStatus(q.on, "SCHEDULED")
  /\ Answer(r)
  /\ UNCHANGED <<kind, deleted, words, media, offered, file, gallery, shown, reviewHistory,
                 trouble>>

\* The copy has the words and no picture.
Duplicate(r) ==
  /\ Doing(r, "duplicate")
  /\ \E a \in Assets :
       /\ kind[a] = "absent"
       /\ kind' = [kind EXCEPT ![a] = kind[request[r].on]]
       /\ words' = [words EXCEPT ![a] = request[r].words]
  /\ Answer(r)
  /\ UNCHANGED <<status, deleted, media, offered, file, postVars, reviewHistory, trouble>>

Remove(r) ==
  /\ Doing(r, "remove")
  /\ deleted' = deleted \cup {request[r].on}
  /\ Answer(r)
  /\ UNCHANGED <<kind, status, words, media, offered, file, postVars, reviewHistory, trouble>>

\* No asset shows the picture.
Unkept(url) == \A a \in Assets \ deleted : media[a] # url

\* Another request is keeping it.
Keeping(url) == \E q \in Requests : Doing(q, "keep") /\ request[q].media = url

FoundKept(a, url) ==
  [Found("keep", a) EXCEPT !.media = url, !.pictures = {Picture(url)}]

\* keep(): any picture of the media library, a drawing made for another asset among them,
\* becomes an asset, approved by the person who keeps it, unless an asset shows it already.
FindKept(r, url) ==
  /\ request[r] = Nothing
  /\ url \in gallery
  /\ Unkept(url)
  /\ Spend
  /\ \E a \in Assets :
       /\ kind[a] = "absent"
       /\ request' = [request EXCEPT ![r] = FoundKept(a, url)]
  /\ crossed' = [a \in Assets |-> IF Keeping(url) THEN crossed[a] \cup {"keeps"} ELSE crossed[a]]
  /\ UNCHANGED <<rowVars, drawVars, postVars, approvals, vetted, drawings, forced, instructed,
                 bulked>>

\* The new asset refers to the address, and copies no file.
Keep(r) ==
  /\ Doing(r, "keep")
  /\ \E a \in Assets :
       /\ kind[a] = "absent"
       /\ kind' = [kind EXCEPT ![a] = "artwork"]
       /\ SetStatus(a, "APPROVED")
       /\ media' = [media EXCEPT ![a] = request[r].media]
       /\ offered' = [offered EXCEPT ![a] = {request[r].media}]
       /\ approvals' = [approvals EXCEPT ![a] = @ + 1]
       /\ vetted' = [vetted EXCEPT ![a] = [words |-> {0}, pictures |-> request[r].pictures]]
  /\ Answer(r)
  /\ UNCHANGED <<deleted, words, file, postVars, drawings, forced, instructed, bulked, crossed,
                 trouble>>

-----------------------------------------------------------------------------
(* Drawing.                                                                *)

\* regenerate() on artwork: an instruction is added to the stored prompt, and whatever
\* the decision on the asset is, it stands meanwhile.
Instruct(r) ==
  /\ Doing(r, "redraw")
  /\ LET a == request[r].on
     IN \/ /\ words' = [words EXCEPT ![a] = @ + 1]
           /\ instructed' = instructed \cup {a}
        \/ UNCHANGED <<words, instructed>>
  /\ request' = [request EXCEPT ![r].op = "again"]
  /\ UNCHANGED <<kind, status, deleted, media, offered, drawVars, postVars, approvals, vetted,
                 drawings, forced, bulked, crossed, trouble>>

\* It then goes through generateMedia, which reads the row once more.
DrawAnew(r) ==
  /\ Doing(r, "again")
  /\ LET a == request[r].on
     IN IF Visible(a) /\ CanDraw(a, TRUE)
          THEN /\ request' = [request EXCEPT ![r] = Found("force", a)]
               /\ todo' = [todo EXCEPT ![r] = Variants]
               /\ drawings' = [drawings EXCEPT ![a] = @ + 1]
               /\ forced' = forced \cup {a}
               /\ Cross(a, Crossings("force", Beside(r, a)))
               /\ UNCHANGED landed
          ELSE Answer(r) /\ UNCHANGED <<drawings, forced, crossed>>
  /\ UNCHANGED <<rowVars, file, postVars, approvals, vetted, instructed, bulked, trouble>>

\* Each picture that arrives is stored at once, over the one that is there; one that
\* fails is left out of the answer.
StorePicture(r, v) ==
  /\ Drawing(r)
  /\ v \in todo[r]
  /\ todo' = [todo EXCEPT ![r] = @ \ {v}]
  /\ \/ /\ file' = [file EXCEPT ![request[r].on][v] = request[r].drawing]
        /\ landed' = [landed EXCEPT ![r] = @ \cup {v}]
        /\ UNCHANGED trouble
     \/ ReviewFault("provider") /\ UNCHANGED <<file, landed>>
  /\ UNCHANGED <<rowVars, request, postVars, reviewHistory>>

\* The pictures get their rows in the media library, the first becomes the asset's, and
\* the asset goes back to review.
Attach(r) ==
  /\ Drawing(r)
  /\ todo[r] = {}
  /\ landed[r] # {}
  /\ LET a == request[r].on
     IN /\ offered' = [offered EXCEPT ![a] = {a} \X landed[r]]
        /\ \E v \in landed[r] :
             /\ \A u \in landed[r] : v <= u
             /\ media' = [media EXCEPT ![a] = <<a, v>>]
        /\ gallery' = gallery \cup ({a} \X landed[r])
        /\ SetStatus(a, "NEEDS_REVIEW")
  /\ Answer(r)
  /\ UNCHANGED <<kind, deleted, words, file, posts, shown, reviewHistory, trouble>>

\* No picture at all, or a failing transaction: recordingFailure reads whether there is
\* a picture ...
DrawingFails(r) ==
  /\ Drawing(r)
  /\ todo[r] = {}
  /\ IF landed[r] = {} THEN UNCHANGED trouble ELSE ReviewFault("write")
  /\ request' = [request EXCEPT ![r].op = "failing", ![r].media = media[request[r].on]]
  /\ UNCHANGED <<rowVars, drawVars, postVars, reviewHistory>>

\* A failed retry does not undo a drawing that succeeded.
StatusFailed(found, now) == IF found = Nothing THEN "FAILED" ELSE now

\* ... and writes the reason; a failure to do so is only logged.
RecordFailure(r) ==
  /\ Doing(r, "failing")
  /\ LET a == request[r].on
     IN \/ SetStatus(a, StatusFailed(request[r].media, status[a])) /\ UNCHANGED trouble
        \/ ReviewFault("write") /\ UNCHANGED status
  /\ Answer(r)
  /\ UNCHANGED <<kind, deleted, words, media, offered, file, postVars, reviewHistory>>

\* The process dies; what the request had stored stays.
ReviewCrash(r) ==
  /\ request[r] # Nothing
  /\ ReviewFault("crash")
  /\ Answer(r)
  /\ UNCHANGED <<rowVars, file, postVars, reviewHistory>>

\* The social worker publishes a post with what its picture's address shows by then.
Deliver(a) ==
  /\ \E i \in DOMAIN posts[a] :
       /\ ~ posts[a][i].sent
       /\ posts' = [posts EXCEPT ![a][i].sent = TRUE]
       /\ shown' = [shown EXCEPT ![a] = @ \cup
                      (IF posts[a][i].url = Nothing THEN {} ELSE {Picture(posts[a][i].url)})]
  /\ UNCHANGED <<rowVars, drawVars, gallery, request, reviewHistory, trouble>>

Handle(r) ==
  \/ \E op \in Op, a \in Assets : Find(r, op, a)
  \/ Approve(r) \/ Reject(r) \/ Schedule(r) \/ Edit(r) \/ Rewrite(r) \/ ChooseVariant(r)
  \/ Publish(r) \/ Duplicate(r) \/ Remove(r) \/ Keep(r)
  \/ \E url \in Url : FindKept(r, url)
  \/ Instruct(r) \/ DrawAnew(r)
  \/ \E v \in Variants : StorePicture(r, v)
  \/ Attach(r) \/ DrawingFails(r) \/ RecordFailure(r) \/ ReviewCrash(r)

ReviewNext ==
  \/ Generate
  \/ \E a \in Assets : Bulk(a, "APPROVED") \/ Bulk(a, "REJECTED") \/ Deliver(a)
  \/ \E r \in Requests : Handle(r)

ReviewSpec == ReviewInit /\ [][ReviewNext]_reviewVars

-----------------------------------------------------------------------------
\* An asset is handed to the publisher at most once per approval, unless two requests to
\* publish it overlapped: no sequence of edits, redraws, rejections and schedules makes one
\* approval worth two posts (review-queue.controller.ts:1278 "Only finally-approved assets
\* can be published").
PostsWithinApprovals ==
  \A a \in Assets : Len(posts[a]) <= approvals[a] \/ "publishes" \in crossed[a]

\* Nobody asked for another drawing of the asset, and no two drawings of it overlapped; the
\* picture at an address is then not drawn over.
Undisturbed(a) == a \notin forced /\ "drawings" \notin crossed[a]
Settled(url) == url = Library \/ Undisturbed(url[1])

\* "Nothing reaches a customer's audience without a person approving it here"
\* (review-queue.controller.ts:210). A post says what some approval had read, unless the
\* prompt of its artwork was added to or an approval overlapped a new wording; a post of
\* artwork has a picture, unless it was approved in bulk; and the picture an audience sees
\* is one an approval of this asset had read, unless the asset whose address it is, which
\* may be another one where a drawing was kept, was drawn again on request or by two
\* drawings that overlapped.
AssetWasApproved ==
  \A a \in Assets :
    /\ \A i \in DOMAIN posts[a] :
         /\ posts[a][i].words \in vetted[a].words \/ a \in instructed \/ "wordings" \in crossed[a]
         /\ kind[a] = "artwork" => posts[a][i].url # Nothing \/ a \in bulked
    /\ \A p \in shown[a] : p \in vetted[a].pictures \/ ~ Settled(p[1])

\* "A failed retry must not undo a successful generation" (review-queue.controller.ts:264):
\* an asset that shows a picture is not FAILED, unless two drawings of it overlapped, and
\* one looked for the picture before the other had written it.
FailureLeavesArtwork ==
  \A a \in Assets :
    status[a] = "FAILED" /\ media[a] # Nothing => "drawings" \in crossed[a]

\* "An asset that already has artwork keeps it" (review-queue.controller.ts:933): the files
\* of an asset that has a picture, or whose picture another asset has kept, are written
\* again only when somebody asks for another drawing of it, or when two drawings overlapped.
ArtworkKept ==
  [][\A a, b \in Assets :
       /\ media[a] # Nothing \/ media[b] \in Own(a)
       /\ file'[a] # file[a]
       => ~ Undisturbed(a)]_reviewVars

\* "Pressing keep twice on the same picture is a double click, not a request for two
\* copies" (media.controller.ts:152): no two assets have kept one picture, unless two keeps
\* of a picture overlapped, or a choice among the pictures of one of the assets overlapped
\* a drawing and brought back the picture it had before.
KeptOnce ==
  \A a, b \in Assets \ deleted :
    /\ media[a] = media[b]
    /\ media[a] \notin Own(a) \cup Own(b) \cup {Nothing}
    => a = b \/ "keeps" \in crossed[a] \/ "choices" \in crossed[a] \cup crossed[b]

\* All three: an approval of an asset is worth one post, failures leave artwork alone, and
\* a picture is kept once.
ReviewSound == PostsWithinApprovals /\ FailureLeavesArtwork /\ KeptOnce
=============================================================================
