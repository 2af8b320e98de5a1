------------------------------- MODULE MCTenant -------------------------------
(* What two requests, or two workers, at a time do to one organisation: to the *)
(* assets of its review queue, to an ad campaign, to its ad allowance, to its  *)
(* features, to its members. The five share nothing, so a behaviour is about   *)
(* one of them and the others rest.                                           *)
(*                                                                            *)
(* Assets: two, with artwork of two pictures. Ads: daily budgets on either     *)
(* side of the cap, and a lifetime budget at it. Allowance: three months, so   *)
(* that one can pass without a pass of any worker. Features: deals need        *)
(* pipelines; the small plan has the pipelines, the large one both; it begins *)
(* with a trial, which no rule tells from an active organisation, of the small *)
(* plan. Members: the founder and somebody else.                              *)
EXTENDS Allowance, AdCampaigns, Entitlements, Accounts, ReviewQueue, TLC

CONSTANTS
  r1, r2,
  a1, a2,
  deals, pipelines,
  u1, u2

\* The requests of tenants and of the platform.
MCRequests == {r1, r2}
MCAssets == {a1, a2}
Symmetry == Permutations(MCRequests) \cup Permutations(MCAssets)
MCFeatures == {deals, pipelines}
MCNeeds == [f \in MCFeatures |-> IF f = deals THEN {pipelines} ELSE {}]
MCBundle == [p \in {"small", "large"} |-> IF p = "small" THEN {pipelines} ELSE MCFeatures]
MCUsers == {u1, u2}

VARIABLE about  \* which of the five this is a behaviour about

Init ==
  /\ about \in {"assets", "ads", "allowance", "features", "members"}
  /\ ReviewInit
  /\ AdInit
  /\ AllowanceInit
  /\ EntInit
  /\ AccountInit
  /\ about # "allowance" => enabled
  /\ orgStatus = "TRIAL" /\ orgPlan = "small"
  /\ about # "features" => rows = [f \in Features |-> Absent]

AssetStep ==
  about = "assets" /\ ReviewNext
    /\ UNCHANGED <<about, adVars, allowanceVars, entVars, accountVars>>
CampaignStep ==
  about = "ads" /\ AdNext
    /\ UNCHANGED <<about, reviewVars, allowanceVars, entVars, accountVars>>
AllowanceStep ==
  about = "allowance" /\ AllowanceNext
    /\ UNCHANGED <<about, reviewVars, adVars, entVars, accountVars>>
FeatureStep ==
  about = "features" /\ EntNext
    /\ UNCHANGED <<about, reviewVars, adVars, allowanceVars, accountVars>>
MemberStep ==
  about = "members" /\ AccountNext
    /\ UNCHANGED <<about, reviewVars, adVars, allowanceVars, entVars>>

tenantVars == <<about, reviewVars, adVars, allowanceVars, entVars, accountVars>>

Spec ==
  Init /\ [][AssetStep \/ CampaignStep \/ AllowanceStep \/ FeatureStep \/ MemberStep]_tenantVars

\* The variables of what this is a behaviour about keep their types; the others rest.
TenantTypeOK ==
  /\ about = "assets" => ReviewTypeOK
  /\ about = "ads" => AdTypeOK
  /\ about = "allowance" => AllowanceTypeOK
  /\ about = "features" => EntTypeOK
  /\ about = "members" => AccountTypeOK
=============================================================================
