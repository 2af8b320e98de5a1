----------------------------- MODULE MCWorkspace -----------------------------
(* How organisations are kept apart, and what the team of one works with:      *)
(* batches of posters, lists, and the inbox. The four share nothing, so a      *)
(* behaviour is about one of them and the others rest.                        *)
(*                                                                            *)
(* Tenants: two organisations, two tasks, two connections. Posters: a batch of *)
(* one, which is edited, reviewed and published, or of two, one of which is    *)
(* edited, with fewer requests and faults (MaxBatchTrouble); one job more than *)
(* the batch needs. List: two rows of one time, pages of one, and a search     *)
(* that finds one of them. Inbox: two conversations, two messages, pages of    *)
(* one.                                                                       *)
EXTENDS TenantScope, CreativePipeline, Inbox, Listing, TLC

CONSTANTS
  x1, x2, o1, o2,
  c1, c2, w1, w2, t1, t2, square, MaxBatchTrouble

\* Two tasks and their connections, two requests, two conversations: their names are the
\* same, so that exchanging the two is a symmetry of all of them.
MCPair == {x1, x2}
MCOrgs == {o1, o2}

MCCreatives == {c1, c2}
MCReviewed == {c1}
MCWords == {w1, w2}
MCTemplates == {t1, t2}
MCRatios == {square}
Symmetry == Permutations(MCPair)

\* Every batch begins with it: what the words and the template are called tells nothing.
FirstLook == [words |-> w1, template |-> t1, ratio |-> square]
MCJobs == 1..3
MCPolicyAttempts == [j \in Jobs |-> 5]

MCCalls == 1..3
MCRows == [time : {1}, id : {1, 2}]
MCNames == {[time : {1}, id : {2}]}

VARIABLE subject  \* which of the four this is a behaviour about

Init ==
  /\ subject \in {"tenants", "posters", "list", "inbox"}
  /\ ScopeInit
  /\ CreativeInit
  /\ ListingInit
  /\ InboxInit
  /\ subject # "tenants" => process = "api" /\ role = "app" /\ listed
  /\ subject # "list" => standing = {}

TenantStep ==
  subject = "tenants" /\ ScopeNext /\ UNCHANGED <<subject, creativeVars, listingVars, inboxVars>>
PosterStep ==
  /\ subject = "posters"
  /\ CreativeNext
  /\ status'[c2] # "absent" => trouble' <= MaxBatchTrouble
  /\ CreateBatch => \A c \in Members' : look'[c] = FirstLook
  /\ UNCHANGED <<subject, scopeVars, listingVars, inboxVars>>
ListStep ==
  subject = "list" /\ ListingNext /\ UNCHANGED <<subject, scopeVars, creativeVars, inboxVars>>
ChatStep ==
  subject = "inbox" /\ InboxNext
    /\ UNCHANGED <<subject, scopeVars, creativeVars, listingVars>>

Spec ==
  Init /\ [][TenantStep \/ PosterStep \/ ListStep \/ ChatStep]_
              <<subject, scopeVars, creativeVars, listingVars, inboxVars>>

\* The variables of what this is a behaviour about keep their types; the others rest.
WorkspaceTypeOK ==
  /\ subject = "tenants" => ScopeTypeOK
  /\ subject = "posters" => CreativeTypeOK
  /\ subject = "list" => ListingTypeOK
  /\ subject = "inbox" => InboxTypeOK
=============================================================================
