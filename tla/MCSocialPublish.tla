--------------------------- MODULE MCSocialPublish ---------------------------
(* Two pollers, one post for two channels.                                     *)
EXTENDS SocialPublish

CONSTANTS w1, w2, p1, t1, t2

MCWorkers == {w1, w2}
MCPosts == {p1}
MCTargets == {t1, t2}
=============================================================================
