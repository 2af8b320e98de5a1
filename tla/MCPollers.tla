------------------------------ MODULE MCPollers ------------------------------
(* What two worker processes do by themselves, over and over: they relay the   *)
(* outbox, publish scheduled posts and queue the monthly reports. The three    *)
(* share nothing, so a behaviour is about one of them and the others rest.     *)
(*                                                                            *)
(* Outbox: three events, oldest first: one a queue wants, one no queue wants,  *)
(* and one whose name is unknown. Posts: one, for two channels. Reports: those *)
(* of two months, for two clients.                                            *)
EXTENDS Outbox, SocialPublish, ReportDigest

CONSTANTS d1, d2, p1, t1, t2

MCDispatchers == {d1, d2}
MCJobs == {1, 2, 3}
MCKnown == {1, 2}
MCRouted == {1}
MCPolicyAttempts == [j \in Jobs |-> 1]
MCPosts == {p1}
MCTargets == {t1, t2}

VARIABLE subject  \* which of the three this is a behaviour about

Init ==
  /\ subject \in {"outbox", "posts", "reports"}
  /\ OutboxInit
  /\ SocialInit
  /\ DigestInit
  /\ subject # "reports" => wants = {}

OutboxStep == subject = "outbox" /\ OutboxNext /\ UNCHANGED <<subject, socialVars, digestVars>>
SocialStep ==
  subject = "posts" /\ SocialNext /\ UNCHANGED <<subject, outboxVars, digestVars>>
ReportStep ==
  subject = "reports" /\ DigestNext /\ UNCHANGED <<subject, outboxVars, socialVars>>

\* The fairness of OutboxSpec, SocialSpec and DigestSpec, of the loop that moves.
Moves(c, A) == subject = c /\ A

Fairness ==
  /\ \A e \in Events : WF_outboxVars(Moves("outbox", Elapse(e)))
  /\ \A p \in Posts :
       /\ WF_socialVars(Moves("posts", SocialElapse(p)))
       /\ WF_socialVars(Moves("posts", Ages(p)))
       /\ WF_socialVars(Moves("posts", PublishNow(p)))
       /\ WF_socialVars(Moves("posts", RemovePost(p)))
  /\ \A d \in MCDispatchers :
       /\ WF_outboxVars(Moves("outbox", Claims(d) \/ Relays(d)))
       /\ WF_outboxVars(Moves("outbox", Exit(d) \/ Restart(d)))
       /\ SF_socialVars(Moves("posts", Ticks(d)))
       /\ WF_socialVars(Moves("posts", SocialRestart(d)))
       /\ WF_socialVars(Moves("posts", SocialExit(d)))
       /\ WF_digestVars(Moves("reports", Tick(d)))
       /\ WF_digestVars(Moves("reports", PollerStep(d)))

Spec ==
  /\ Init
  /\ [][OutboxStep \/ SocialStep \/ ReportStep]_<<subject, outboxVars, socialVars, digestVars>>
  /\ Fairness

\* The variables of the loop that moves keep their types; the others rest.
PollersTypeOK ==
  /\ subject = "outbox" => OutboxTypeOK /\ QueueTypeOK
  /\ subject = "posts" => SocialTypeOK
  /\ subject = "reports" => DigestTypeOK

\* Every event leaves the relay, every post comes to an end, and every report that is
\* wanted is made (EventRelay.tla, SocialPublish.tla, ReportDigest.tla).
PollersSettle == []<>(Relay!Quiet /\ PostsDone /\ ReportsDone)
=============================================================================
