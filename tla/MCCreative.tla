----------------------------- MODULE MCCreative -----------------------------
(* A batch of one poster, which is edited, reviewed and published, or of two, *)
(* which are edited only; one job more than the batch needs.                  *)
EXTENDS CreativePipeline, TLC

CONSTANTS c1, c2, r1, r2, w1, w2, t1, t2, square

MCCreatives == {c1, c2}
MCReviewed == {c1}
MCRequests == {r1, r2}
MCWords == {w1, w2}
MCTemplates == {t1, t2}
MCRatios == {square}
MCJobs == 1..3
Symmetry ==
  Permutations(MCRequests) \cup Permutations(MCWords) \cup Permutations(MCTemplates)
MCPolicyAttempts == [j \in Jobs |-> 5]
=============================================================================
