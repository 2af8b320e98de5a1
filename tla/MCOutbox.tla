------------------------------ MODULE MCOutbox ------------------------------
(* Three events, oldest first: one a queue wants, one no queue wants, and one    *)
(* whose name is unknown.                                                        *)
EXTENDS Outbox

CONSTANTS d1, d2

MCDispatchers == {d1, d2}
MCJobs == {1, 2, 3}
MCKnown == {1, 2}
MCRouted == {1}
MCPolicyAttempts == [j \in Jobs |-> 1]
=============================================================================
