----------------------------- MODULE Entitlements -----------------------------
(***************************************************************************)
(* What one organisation is entitled to: the platform plane that writes it *)
(* (provisioning.service.ts, platform.controller.ts), the resolver that     *)
(* computes it (packages/database/src/entitlements.ts) and the cache every   *)
(* request reads it through (entitlement.service.ts, entitlement.guard.ts).  *)
(*                                                                         *)
(* A request that finds the cache warm changes nothing, so only misses are   *)
(* modelled. Limits and feature configuration travel with the features and   *)
(* are left out, and so are expiring assignments, which nothing creates.     *)
(***************************************************************************)
EXTENDS Naturals

CONSTANTS
  Features,       \* the ids of the feature registry
  Needs,          \* [Features -> SUBSET Features]: manifest.dependencies
  Plans,          \* the plan ids
  Bundle,         \* [Plans -> SUBSET Features]: plan.featureIds, closed under Needs
  Admins,         \* the platform requests that may be in progress together
  Callers,        \* the tenant requests that may be in progress together
  Absent,         \* no row, no snapshot, nobody
  CacheFaults,    \* the kinds of fault that happen
  MaxChanges,     \* bound: how many platform requests are made
  MaxCacheFaults  \* bound: how many faults happen

\* Whatever S needs, and what that needs: resolveDependencies().
Closed(S) == \A f \in S : Needs[f] \subseteq S
Closure(S) == {f \in Features : \A T \in SUBSET Features : S \subseteq T /\ Closed(T) => f \in T}

OrgStatus == {"TRIAL", "ACTIVE", "SUSPENDED", "DELETED"}
Row == [enabled : BOOLEAN, source : {"PLAN", "GRANT"}]
OrgRow == [status : OrgStatus, plan : Plans]
Snapshot == [status : OrgStatus, features : SUBSET Features]

\* What a resolution has read, of the organisation and then of its assignments, and
\* whether that is no more; and a platform request before and after its commit.
Resolution == [org : OrgRow \cup {Absent}, read : Snapshot \cup {Absent}, old : BOOLEAN]
Reading == [step : {"reading"}, wanted : SUBSET Features, found : SUBSET Features]
Committed == [step |-> "committed"]

ASSUME EntitlementAssumption ==
  /\ Needs \in [Features -> SUBSET Features]
  /\ Bundle \in [Plans -> SUBSET Features]
  /\ \A p \in Plans : Closed(Bundle[p])
  /\ CacheFaults \subseteq {"redis", "crash"}
  /\ MaxChanges \in Nat /\ MaxCacheFaults \in Nat
  /\ Absent \notin Row \cup OrgRow \cup Snapshot \cup Resolution \cup Reading \cup {Committed}

VARIABLES
  orgStatus,   \* organization.status
  orgPlan,     \* the plan of the subscription
  rows,        \* [Features -> Row or Absent]: feature_assignment
  cached,      \* the snapshot under mos:ent:<organisation>, or Absent
  caller,      \* [Callers -> a resolution in progress, or Absent]
  admin,       \* [Admins -> a platform request in progress, or Absent]
  asked,       \* history: the set the last change asked for, Absent if it named no set
  mixed,       \* history: two changes of the assignments have overlapped
  excuse,      \* history: why the cached snapshot may be an old one
  changes,     \* history: platform requests so far
  cacheFaults  \* history: faults so far

orgRows == <<orgStatus, orgPlan, rows>>
entVars == <<orgRows, cached, caller, admin, asked, mixed, excuse, changes, cacheFaults>>

(***************************************************************************)
(* resolveEntitlements(): the bundle of the plan, the enabled assignments    *)
(* added, the disabled ones removed, and what that needs.                    *)
(***************************************************************************)
Entitled(plan) ==
  Closure({f \in Features : IF rows[f] = Absent THEN f \in Bundle[plan] ELSE rows[f].enabled})

Effective == Entitled(orgPlan)
Current == [status |-> orgStatus, features |-> Effective]

\* provision() with any plan, and with any features whether or not they are the
\* plan's: resolveFeatureSet() closes the set that was named and adds no plan to it.
EntInit ==
  /\ orgStatus \in {"TRIAL", "ACTIVE"}
  /\ orgPlan \in Plans
  /\ \E named \in SUBSET Features :
       rows = [f \in Features |->
                 IF f \notin Closure(named) THEN Absent
                 ELSE [enabled |-> TRUE,
                       source |-> IF f \in Bundle[orgPlan] THEN "PLAN" ELSE "GRANT"]]
  /\ cached = Absent
  /\ caller = [c \in Callers |-> Absent]
  /\ admin = [a \in Admins |-> Absent]
  /\ asked = Absent
  /\ mixed = FALSE
  /\ excuse = "none"
  /\ changes = 0
  /\ cacheFaults = 0

Trouble(kind) ==
  /\ kind \in CacheFaults
  /\ cacheFaults < MaxCacheFaults
  /\ cacheFaults' = cacheFaults + 1

-----------------------------------------------------------------------------
(* A tenant request: EntitlementGuard, EntitlementService.resolve().        *)

\* The cache has nothing, or cannot be read.
Miss(c) ==
  /\ caller[c] = Absent
  /\ \/ cached = Absent /\ UNCHANGED cacheFaults
     \/ cached # Absent /\ Trouble("redis")
  /\ caller' = [caller EXCEPT ![c] = [org |-> Absent, read |-> Absent, old |-> FALSE]]
  /\ UNCHANGED <<orgRows, cached, admin, asked, mixed, excuse, changes>>

\* One transaction, whose statements may each find what was committed since the one
\* before: the organisation with its plan ...
ReadOrg(c) ==
  /\ caller[c] # Absent /\ caller[c].org = Absent
  /\ caller' = [caller EXCEPT ![c].org = [status |-> orgStatus, plan |-> orgPlan]]
  /\ UNCHANGED <<orgRows, cached, admin, asked, mixed, excuse, changes, cacheFaults>>

\* ... and its assignments.
ReadRows(c) ==
  /\ caller[c] # Absent /\ caller[c].org # Absent /\ caller[c].read = Absent
  /\ caller' = [caller EXCEPT ![c].read = [status |-> caller[c].org.status,
                                           features |-> Entitled(caller[c].org.plan)]]
  /\ UNCHANGED <<orgRows, cached, admin, asked, mixed, excuse, changes, cacheFaults>>

\* SET with an expiry, whatever was written meanwhile.
StoreSnapshot(c) ==
  /\ caller[c] # Absent /\ caller[c].read # Absent
  /\ caller' = [caller EXCEPT ![c] = Absent]
  /\ \/ /\ cached' = caller[c].read
        /\ excuse' = IF caller[c].old THEN "overlap" ELSE "none"
        /\ UNCHANGED cacheFaults
     \/ Trouble("redis") /\ UNCHANGED <<cached, excuse>>
  /\ UNCHANGED <<orgRows, admin, asked, mixed, changes>>

\* TTL_SECONDS after the SET.
CacheExpires ==
  /\ cached # Absent
  /\ cached' = Absent
  /\ excuse' = "none"
  /\ UNCHANGED <<orgRows, caller, admin, asked, mixed, changes, cacheFaults>>

-----------------------------------------------------------------------------
(* A platform request: one transaction, then invalidate().                  *)

\* The resolutions that have read the organisation, and those that have its assignments.
HaveOrg == {c \in Callers : caller[c] # Absent /\ caller[c].org # Absent}
HaveRows == {c \in Callers : caller[c] # Absent /\ caller[c].read # Absent}

\* Those in S hold what is about to be replaced.
Overtaken(S) ==
  [c \in Callers |-> IF c \in S THEN [caller[c] EXCEPT !.old = TRUE] ELSE caller[c]]

Commits(a, S) ==
  /\ admin' = [admin EXCEPT ![a] = Committed]
  /\ caller' = Overtaken(S)

Begins(a) ==
  /\ admin[a] = Absent
  /\ changes < MaxChanges
  /\ changes' = changes + 1

\* A change of the assignments that another setFeatures() has already read around.
Mixes(a) ==
  mixed' = (mixed \/ \E b \in Admins \ {a} : admin[b] # Absent /\ admin[b].step = "reading")

\* setStatus().
SetOrgStatus(a) ==
  /\ Begins(a)
  /\ orgStatus' \in OrgStatus
  /\ Commits(a, HaveOrg)
  /\ UNCHANGED <<orgPlan, rows, cached, asked, mixed, excuse, cacheFaults>>

\* changePlan(): the rows the old plan gave go, disabled ones with them, and the
\* new plan's are inserted where no row is left.
ChangePlan(a) ==
  /\ Begins(a)
  /\ orgPlan' \in Plans
  /\ LET kept(f) == rows[f] # Absent /\ rows[f].source # "PLAN"
     IN rows' = [f \in Features |->
                   IF kept(f) THEN rows[f]
                   ELSE IF f \in Bundle[orgPlan'] THEN [enabled |-> TRUE, source |-> "PLAN"]
                   ELSE Absent]
  /\ asked' = Absent
  /\ Mixes(a)
  /\ Commits(a, HaveOrg)
  /\ UNCHANGED <<orgStatus, cached, excuse, cacheFaults>>

\* setFeatures(): the set that was sent, with its dependencies, and the rows there are.
ReadAssignments(a) ==
  /\ Begins(a)
  /\ \E S \in SUBSET Features :
       admin' = [admin EXCEPT ![a] =
                   [step |-> "reading", wanted |-> Closure(S),
                    found |-> {f \in Features : rows[f] # Absent}]]
  /\ UNCHANGED <<orgRows, cached, caller, asked, mixed, excuse, cacheFaults>>

\* The row an upsert leaves: enabled, from where it came.
Granted(f) == [enabled |-> TRUE, source |-> IF rows[f] = Absent THEN "GRANT" ELSE rows[f].source]

\* setFeatures(): disable the rows found that are not wanted, upsert the wanted ones.
SetFeatures(a) ==
  /\ admin[a] # Absent /\ admin[a].step = "reading"
  /\ LET unwanted == {f \in admin[a].found \ admin[a].wanted : rows[f] # Absent}
     IN rows' = [f \in Features |->
                   IF f \in admin[a].wanted THEN Granted(f)
                   ELSE IF f \in unwanted THEN [rows[f] EXCEPT !.enabled = FALSE]
                   ELSE rows[f]]
  /\ asked' = admin[a].wanted
  /\ Mixes(a)
  /\ Commits(a, HaveRows)
  /\ UNCHANGED <<orgStatus, orgPlan, cached, excuse, changes, cacheFaults>>

\* Seeded fault: the snapshot of another status or plan is kept.
InvalidatedNot == UNCHANGED <<cached, excuse>>

\* invalidate() drops the snapshot; when it cannot, or the process dies first,
\* the snapshot stays until it expires.
Invalidated == cached' = Absent /\ excuse' = "none"

Invalidate(a) ==
  /\ admin[a] # Absent /\ admin[a].step = "committed"
  /\ admin' = [admin EXCEPT ![a] = Absent]
  /\ \/ Invalidated /\ UNCHANGED cacheFaults
     \/ /\ Trouble("redis") \/ Trouble("crash")
        /\ excuse' = "not invalidated"
        /\ UNCHANGED cached
  /\ UNCHANGED <<orgRows, caller, asked, mixed, changes>>

EntNext ==
  \/ CacheExpires
  \/ \E c \in Callers : Miss(c) \/ ReadOrg(c) \/ ReadRows(c) \/ StoreSnapshot(c)
  \/ \E a \in Admins :
       SetOrgStatus(a) \/ ChangePlan(a) \/ ReadAssignments(a) \/ SetFeatures(a) \/ Invalidate(a)

EntSpec == EntInit /\ [][EntNext]_entVars

(***************************************************************************)
(* Properties                                                              *)
(***************************************************************************)
\* Every variable keeps its type.
EntTypeOK ==
  /\ orgStatus \in OrgStatus
  /\ orgPlan \in Plans
  /\ rows \in [Features -> Row \cup {Absent}]
  /\ cached \in Snapshot \cup {Absent}
  /\ caller \in [Callers -> Resolution \cup {Absent}]
  /\ admin \in [Admins -> Reading \cup {Committed, Absent}]
  /\ asked = Absent \/ asked \subseteq Features
  /\ mixed \in BOOLEAN
  /\ excuse \in {"none", "overlap", "not invalidated"}
  /\ changes \in 0..MaxChanges
  /\ cacheFaults \in 0..MaxCacheFaults

\* A request is decided on an old status or feature set, or on one that never was, only
\* while the change is still being made, when a resolution of which a statement read
\* before the change stored what it had read after the invalidation, or when the
\* invalidation failed.
StaleNeedsCause ==
  cached = Absent \/ cached = Current \/ excuse # "none"
    \/ \E a \in Admins : admin[a] # Absent /\ admin[a].step = "committed"

\* Unless changes overlapped, an organisation has exactly the features that were
\* last set for it, provided the bundle of its plan has rows to disable.
SetIsGranted ==
  asked # Absent /\ ~ mixed /\ (\A f \in Bundle[orgPlan] : rows[f] # Absent) => Effective = asked

\* Both together: old sets are used for a reason, and what was set is granted.
FeaturesSound == StaleNeedsCause /\ SetIsGranted
=============================================================================
