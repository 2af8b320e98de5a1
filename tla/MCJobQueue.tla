----------------------------- MODULE MCJobQueue -----------------------------
(* A queue small enough for TLC: two jobs with a tenant, one without.        *)
EXTENDS JobQueue

CONSTANTS j1, j2, j3

MCJobs == {j1, j2, j3}
MCTenantless == {j3}

\* j1 on a queue that allows one attempt (telephony), j2 and j3 on one that allows
\* three (scheduled-triggers).
MCPolicyAttempts == [j \in Jobs |-> IF j = j1 THEN 1 ELSE 3]
=============================================================================
