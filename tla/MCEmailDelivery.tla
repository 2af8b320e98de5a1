--------------------------- MODULE MCEmailDelivery ---------------------------
(* Two pollers, both, one or none of them with an API key, and two messages.    *)
EXTENDS EmailDelivery

CONSTANTS w1, w2, m1, m2

MCWorkers == {w1, w2}
MCSends == {m1, m2}
MCConfigurations == {{}, {w1}, {w1, w2}}
=============================================================================
