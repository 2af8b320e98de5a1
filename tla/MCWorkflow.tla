----------------------------- MODULE MCWorkflow -----------------------------
(* Three graphs of two actions, a condition and a delay, each beginning with an *)
(* action: the delay and an action behind it; the condition and a delay with    *)
(* nothing behind it; the two actions in a cycle.                               *)
EXTENDS Workflow

CONSTANTS a, b, c, d

MCJobs == 1..4
MCPolicyAttempts == [j \in Jobs |-> 3]
MCNodes == {a, b, c, d}
MCKind == [n \in MCNodes |-> CASE n = c -> "condition" [] n = d -> "delay" [] OTHER -> "action"]

Delayed == [n \in MCNodes |-> CASE n = a -> d [] n = d -> b [] OTHER -> NoNode]
DelayLast == [n \in MCNodes |-> CASE n = a -> c [] n = c -> d [] OTHER -> NoNode]
Cycle == [n \in MCNodes |-> CASE n = a -> b [] n = b -> a [] OTHER -> NoNode]
MCGraphs == {Delayed, DelayLast, Cycle}
=============================================================================
