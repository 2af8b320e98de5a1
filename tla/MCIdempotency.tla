---------------------------- MODULE MCIdempotency ----------------------------
(* Three requests with one key and two different bodies.                        *)
EXTENDS Idempotency, TLC

CONSTANTS r1, r2, r3, b1, b2

MCRequests == {r1, r2, r3}
MCBodies == {b1, b2}
MCOneBody == {b1}
MCSymmetry == Permutations(MCRequests)
=============================================================================
