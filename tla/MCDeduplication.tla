---------------------------- MODULE MCDeduplication ----------------------------
(* The places that recognise, by something they have stored, what they have    *)
(* dealt with before: the idempotency interceptor, with three requests; lead   *)
(* intake from Meta, with two submissions on batches of one event; the forms   *)
(* on the web, two under one slug, with two submissions; the login lockout,    *)
(* with three sign-ins; the index of a knowledge base, with three documents of *)
(* two, one and no chunks. They share nothing, so a behaviour is one of the    *)
(* five and the others rest.                                                   *)
EXTENDS Idempotency, LeadIntake, Lockout, HostedForms, KnowledgeIndex, TLC

CONSTANTS
  r1, r2, r3, b1, b2,
  w1, w2, l1, l2, p1,
  f1, f2, s1, s2,
  d1, d2, d3, e1, e2

MCRequests == {r1, r2, r3}
MCBodies == {b1, b2}
MCWorkers == {w1, w2}
MCLeads == {l1, l2}
MCPeople == {p1}
MCForms == {f1, f2}
MCSubmissions == {s1, s2}
MCDocuments == {d1, d2, d3}
MCLength == d1 :> 2 @@ d2 :> 1 @@ d3 :> 0
MCEdits == {e1, e2}

VARIABLE component  \* which of the five this is a behaviour of

Init ==
  /\ component \in {"keys", "leads", "web", "login", "knowledge"}
  /\ KeyInit
  /\ LeadInit
  /\ FormsInit
  /\ LockoutInit
  /\ KnowledgeInit
  /\ component # "keys" => body = [r \in MCRequests |-> b1]
  /\ component # "leads" => person = [l \in MCLeads |-> NoEmail]
  /\ component # "knowledge" => ~ keyed

KeyStep ==
  component = "keys" /\ KeyNext
    /\ UNCHANGED <<component, leadVars, formVars, lockVars, knowledgeVars>>
IntakeStep ==
  component = "leads" /\ LeadNext
    /\ UNCHANGED <<component, keyVars, formVars, lockVars, knowledgeVars>>
WebStep ==
  component = "web" /\ FormsNext
    /\ UNCHANGED <<component, keyVars, leadVars, lockVars, knowledgeVars>>
LoginStep ==
  component = "login" /\ LockoutNext
    /\ UNCHANGED <<component, keyVars, leadVars, formVars, knowledgeVars>>
KnowledgeStep ==
  component = "knowledge" /\ KnowledgeNext
    /\ UNCHANGED <<component, keyVars, leadVars, formVars, lockVars>>

deduplicationVars == <<component, keyVars, leadVars, formVars, lockVars, knowledgeVars>>

\* The fairness of LeadSpec, LockoutSpec and KnowledgeSpec, of the component that moves.
Moves(c, A) == component = c /\ A

Fairness ==
  /\ \A w \in MCWorkers : WF_leadVars(Moves("leads", Process(w)))
  /\ WF_lockVars(Moves("login", WindowEnds))
  /\ \A r \in MCRequests : WF_lockVars(Moves("login", SignInStep(r)))
  /\ \A d \in MCDocuments : WF_knowledgeVars(Moves("knowledge", EnqueueIndex(d)))
  /\ \A e \in MCEdits : WF_knowledgeVars(Moves("knowledge", Commit(e)))
  /\ \A i \in MCWorkers : WF_knowledgeVars(Moves("knowledge", IndexStep(i)))

Spec ==
  /\ Init
  /\ [][KeyStep \/ IntakeStep \/ WebStep \/ LoginStep \/ KnowledgeStep]_deduplicationVars
  /\ Fairness

\* The variables of the component that moves keep their types; the others rest.
DeduplicationTypeOK ==
  /\ component = "keys" => KeyTypeOK
  /\ component = "leads" => LeadTypeOK
  /\ component = "web" => FormsTypeOK
  /\ component = "login" => LockoutTypeOK
  /\ component = "knowledge" => KnowledgeTypeOK

\* Every recorded lead is settled, a locked account opens again, every document is
\* indexed or given up (LeadIntake.tla, Lockout.tla, KnowledgeIndex.tla).
DeduplicationSettles == []<>(EventsDone /\ Open /\ DocumentsDone)
=============================================================================
