----------------------------- MODULE EventRelay -----------------------------
(***************************************************************************)
(* What the event bus promises of every event, in the words of the header  *)
(* of apps/worker/src/outbox-dispatcher.ts: once the business change has   *)
(* committed, its event is delivered to its queue, acknowledged when no    *)
(* queue wants it, or parked for a human.  A relay that may lose events    *)
(* has one more outcome.                                                   *)
(***************************************************************************)
CONSTANTS
  Events,      \* the event ids
  NoConsumer,  \* the events no queue wants, a subset of Events
  Lossy        \* BOOLEAN: whether the relay may lose events at all

VARIABLE fate    \* [Events -> Fate]

Fate == {"unborn", "held", "delivered", "acknowledged", "parked", "lost"}

Init == fate = [e \in Events |-> "unborn"]

Moves(e, from, to) == fate[e] = from /\ fate' = [fate EXCEPT ![e] = to]

Accept(e) == Moves(e, "unborn", "held")
Deliver(e) == e \notin NoConsumer /\ Moves(e, "held", "delivered")

\* The relay is done with several events at once: it parks those in P; of those in
\* S, the ones nobody wants are acknowledged and the others are lost.
Release(S, P) ==
  /\ \A e \in S \cup P : fate[e] = "held"
  /\ S \subseteq NoConsumer \/ Lossy
  /\ P \cap NoConsumer = {}
  /\ fate' = [e \in Events |->
                CASE e \in P -> "parked"
                  [] e \in S \ P -> IF e \in NoConsumer THEN "acknowledged" ELSE "lost"
                  [] OTHER -> fate[e]]

Next ==
  \/ \E e \in Events : Accept(e) \/ Deliver(e)
  \/ \E S, P \in SUBSET Events : Release(S, P)

Spec == Init /\ [][Next]_fate

\* Every accepted event is eventually off the relay's hands: an event is held once,
\* so it is enough that again and again none is.
Quiet == \A e \in Events : fate[e] # "held"
Settles == []<>Quiet

\* The promise of a relay that is not lossy.
NothingLost == \A e \in Events : fate[e] # "lost"
=============================================================================
