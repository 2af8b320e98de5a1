------------------------ MODULE EmailDeliveryProofs ------------------------
(***************************************************************************)
(* Proofs about EmailDelivery: its type invariant, with the bound on       *)
(* attempts, and EmailsSound, for any number of pollers and messages and   *)
(* any number of faults.                                                   *)
(*                                                                         *)
(* The argument is a budget. A row that is owed an attempt, and a worker   *)
(* that carries a message not yet accepted, each stand for one copy that   *)
(* may still go out. No step creates such a claim out of nothing: it moves *)
(* one from the queue to a worker, from a worker to the provider or back,  *)
(* or a fault adds one.                                                    *)
(***************************************************************************)
EXTENDS EmailDelivery, FiniteSetTheorems, TLAPS

\* The steps of a worker whose row is not written to its end.
Working == {"claimed", "sending", "accepted", "undelivered", "catch"}

\* Of these, the steps before the provider has taken this worker's message.
Carrying == {"claimed", "sending", "undelivered", "catch"}

HeldRows == {s \in Sends : \E w \in Workers : at[w] = s /\ pc[w] \in Working}

\* Rows that a poller will try without a further fault.
OwedRows ==
  {s \in Sends : \/ status[s] = "QUEUED"
                 \/ status[s] = "SENDING" /\ (stale[s] \/ s \notin HeldRows)}

Spared == {s \in Sends : s \in OwedRows \/ status[s] = "FAILED"}
SentRows == {s \in Sends : status[s] = "SENT"}
OnTheirWay == SentRows \cup OwedRows \cup HeldRows

Carriers(s) == {w \in Workers : at[w] = s /\ pc[w] \in Carrying}
Retriers(s) == {w \in Carriers(s) : pc[w] # "claimed" /\ seen[w] < MaxAttempts}
Busy == {w \in Workers : pc[w] \in Working}
Counting == {w \in Workers : pc[w] = "counting"}

\* 1 for a member, 0 for another.
Ind(S, x) == IF x \in S THEN 1 ELSE 0

-----------------------------------------------------------------------------
(* The inductive invariant.                                                *)

EmailTypes ==
  /\ status \in [Sends -> SendStatus]
  /\ attempts \in [Sends -> Nat]
  /\ stale \in [Sends -> BOOLEAN]
  /\ sent \in Nat
  /\ bounced \in Nat
  /\ configured \in Configurations
  /\ mode \in [Workers -> Mode]
  /\ pc \in [Workers -> Step]
  /\ todo \in [Workers -> SUBSET Sends]
  /\ at \in [Workers -> Sends \cup {NoSend}]
  /\ seen \in [Workers -> Nat]
  /\ accepted \in [Sends -> Nat]
  /\ faults \in 0..MaxFaults

\* A worker is at a row exactly in the steps of the loop's body, and only at a row that
\* exists; what is marked as sent, or about to be, was accepted.
LoopInv ==
  /\ \A w \in Workers :
       /\ at[w] = NoSend <=> pc[w] \in {"idle", "polling", "loop"}
       /\ at[w] # NoSend => status[at[w]] # "absent"
       /\ pc[w] \in {"accepted", "counting"} => accepted[at[w]] > 0
  /\ \A s \in Sends :
       /\ status[s] = "absent" => accepted[s] = 0 /\ attempts[s] = 0
       /\ status[s] = "SENT" => accepted[s] > 0

\* The copies that went out and those that may still go out, or were spared by a failure.
CopyBudget ==
  \A s \in Sends :
    accepted[s] + Ind(Spared, s) + Cardinality(Carriers(s)) <= 1 + faults

\* Once the attempts are used up, each further one is paid for by a fault.
RetryBudget ==
  \A s \in Sends :
    attempts[s] >= MaxAttempts =>
      attempts[s] + Ind(OwedRows, s) + Cardinality(Retriers(s)) <= MaxAttempts + faults

\* A worker or an owed row has its row in OnTheirWay to itself, and so has every count,
\* up to the faults.
CountBudget ==
  /\ sent + Cardinality(Counting) + Cardinality(Busy) + Cardinality(OwedRows)
       <= Cardinality(OnTheirWay) + faults
  /\ Cardinality(SentRows) <= sent + Cardinality(Counting) + faults

EmailInv == EmailTypes /\ LoopInv
Budgets == CopyBudget /\ RetryBudget /\ CountBudget

-----------------------------------------------------------------------------
(* The loop's own invariant.                                               *)

\* Nothing has happened yet.
LEMMA EmailInvInit == EmailInit => EmailInv
<1> SUFFICES ASSUME EmailInit PROVE EmailInv
  OBVIOUS
<1>1. EmailTypes
  BY EmailAssumption
  DEF EmailInit, EmailAssumption, EmailTypes, SendStatus, Mode, Step
<1>2. LoopInv
  BY EmailAssumption DEF EmailInit, EmailAssumption, LoopInv
<1> QED BY <1>1, <1>2 DEF EmailInv

\* A fault leaves the counter of faults in its range.
LEMMA FaultCounts ==
  ASSUME NEW kind, Fault(kind), faults \in 0..MaxFaults
  PROVE  faults' = faults + 1 /\ faults' \in 0..MaxFaults
BY EmailAssumption DEF Fault, EmailAssumption

\* A write to a row leaves rows of the same shape.
LEMMA SetRowTypes ==
  ASSUME EmailTypes, NEW s \in Sends, NEW to \in SendStatus, SetRow(s, to)
  PROVE  status' \in [Sends -> SendStatus] /\ stale' \in [Sends -> BOOLEAN]
BY DEF EmailTypes, SetRow

\* A worker beyond its loop's head is at a row.
LEMMA AtRow ==
  ASSUME EmailInv, NEW w \in Workers, pc[w] \notin {"idle", "polling", "loop"}
  PROVE  at[w] \in Sends
BY DEF EmailInv, EmailTypes, LoopInv

\* Every step keeps the loop's invariant.
LEMMA EmailInvStep == EmailInv /\ [EmailNext]_emailVars => EmailInv'
<1> SUFFICES ASSUME EmailInv, [EmailNext]_emailVars PROVE EmailInv'
  OBVIOUS
<1> USE DEF EmailInv, SendStatus, Mode, Step
<1>1. CASE UNCHANGED emailVars
  BY <1>1 DEF emailVars, rowVars, loopVars, EmailTypes, LoopInv
<1>2. ASSUME NEW S \in SUBSET Sends, Launch(S), UNCHANGED configured PROVE EmailInv'
  <2>1. EmailTypes'
    BY <1>2 DEF Launch, loopVars, EmailTypes
  <2>2. LoopInv'
    BY <1>2 DEF Launch, loopVars, EmailTypes, LoopInv
  <2> QED BY <2>1, <2>2
<1>3. ASSUME NEW s \in Sends, Ages(s), UNCHANGED configured PROVE EmailInv'
  <2>1. EmailTypes'
    BY <1>3, FaultCounts DEF Ages, loopVars, EmailTypes
  <2>2. LoopInv'
    BY <1>3 DEF Ages, loopVars, EmailTypes, LoopInv
  <2> QED BY <2>1, <2>2
<1>4. ASSUME NEW w \in Workers, Reclaim(w), UNCHANGED configured PROVE EmailInv'
  <2>1. EmailTypes'
    BY <1>4 DEF Reclaim, Goto, EmailTypes
  <2>2. LoopInv'
    BY <1>4 DEF Reclaim, Goto, EmailTypes, LoopInv
  <2> QED BY <2>1, <2>2
<1>5. ASSUME NEW w \in Workers, Poll(w), UNCHANGED configured PROVE EmailInv'
  <2>1. EmailTypes'
    BY <1>5 DEF Poll, rowVars, EmailTypes
  <2>2. LoopInv'
    BY <1>5 DEF Poll, rowVars, EmailTypes, LoopInv
  <2> QED BY <2>1, <2>2
<1>6. ASSUME NEW w \in Workers, NEW s \in Sends, Claim(w, s), UNCHANGED configured PROVE EmailInv'
  <2>1. EmailTypes'
    <3>1. status' \in [Sends -> SendStatus] /\ stale' \in [Sends -> BOOLEAN]
      BY <1>6, SetRowTypes DEF Claim, rowVars, EmailTypes
    <3> QED BY <1>6, <3>1 DEF Claim, rowVars, EmailTypes
  <2>2. LoopInv'
    BY <1>6, EmailAssumption DEF Claim, SetRow, rowVars, EmailTypes, LoopInv, EmailAssumption
  <2> QED BY <2>1, <2>2
<1>7. ASSUME NEW w \in Workers, Read(w) \/ ReadFails(w), UNCHANGED configured PROVE EmailInv'
  <2>1. EmailTypes'
    BY <1>7, FaultCounts DEF Read, ReadFails, rowVars, EmailTypes, LoopInv
  <2>2. LoopInv'
    BY <1>7 DEF Read, ReadFails, rowVars, EmailTypes, LoopInv
  <2> QED BY <2>1, <2>2
<1>8. ASSUME NEW w \in Workers, Send(w) \/ AnswerLost(w), UNCHANGED configured PROVE EmailInv'
  <2>1. EmailTypes'
    BY <1>8, FaultCounts DEF Send, AnswerLost, Goto, Accepted, rowVars, EmailTypes, LoopInv
  <2>2. LoopInv'
    BY <1>8 DEF Send, AnswerLost, Goto, Accepted, rowVars, EmailTypes, LoopInv
  <2> QED BY <2>1, <2>2
<1>9. ASSUME NEW w \in Workers, MarkSent(w) \/ MarkUndelivered(w), UNCHANGED configured
      PROVE  EmailInv'
  <2>1. EmailTypes'
    <3>1. status' \in [Sends -> SendStatus] /\ stale' \in [Sends -> BOOLEAN]
      BY <1>9, AtRow, SetRowTypes DEF MarkSent, MarkUndelivered
    <3> QED BY <1>9, <3>1 DEF MarkSent, MarkUndelivered, Goto, Continue, EmailTypes
  <2>2. LoopInv'
    BY <1>9 DEF MarkSent, MarkUndelivered, SetRow, Goto, Continue, EmailTypes, LoopInv
  <2> QED BY <2>1, <2>2
<1>10. ASSUME NEW w \in Workers, CountSent(w) \/ CountBounce(w), UNCHANGED configured
       PROVE  EmailInv'
  <2>1. EmailTypes'
    BY <1>10 DEF CountSent, CountBounce, Continue, rowVars, EmailTypes
  <2>2. LoopInv'
    BY <1>10 DEF CountSent, CountBounce, Continue, rowVars, EmailTypes, LoopInv
  <2> QED BY <2>1, <2>2
<1>11. ASSUME NEW w \in Workers, WriteFails(w), UNCHANGED configured PROVE EmailInv'
  <2>1. EmailTypes'
    <3>1. status' \in [Sends -> SendStatus] /\ stale' \in [Sends -> BOOLEAN]
      BY <1>11, AtRow, SetRowTypes DEF WriteFails, EmailTypes
    <3> QED BY <1>11, <3>1, FaultCounts DEF WriteFails, Goto, EmailTypes
  <2>2. LoopInv'
    BY <1>11 DEF WriteFails, SetRow, Goto, EmailTypes, LoopInv
  <2> QED BY <2>1, <2>2
<1>12. ASSUME NEW w \in Workers, Catch(w) \/ CatchWriteFails(w), UNCHANGED configured
       PROVE  EmailInv'
  <2>1. EmailTypes'
    <3>1. status' \in [Sends -> SendStatus] /\ stale' \in [Sends -> BOOLEAN]
      BY <1>12, AtRow, SetRowTypes DEF Catch, CatchWriteFails, rowVars, EmailTypes
    <3>2. faults' \in 0..MaxFaults
      BY <1>12, FaultCounts DEF Catch, CatchWriteFails, EmailTypes
    <3> QED BY <1>12, <3>1, <3>2 DEF Catch, CatchWriteFails, Goto, Continue, rowVars, EmailTypes
  <2>2. LoopInv'
    BY <1>12 DEF Catch, CatchWriteFails, SetRow, Goto, Continue, rowVars, EmailTypes, LoopInv
  <2> QED BY <2>1, <2>2
<1>13. ASSUME NEW w \in Workers, Exit(w) \/ Crash(w), UNCHANGED configured PROVE EmailInv'
  <2>1. EmailTypes'
    BY <1>13, FaultCounts DEF Exit, Crash, Dies, rowVars, EmailTypes
  <2>2. LoopInv'
    BY <1>13 DEF Exit, Crash, Dies, rowVars, EmailTypes, LoopInv
  <2> QED BY <2>1, <2>2
<1>14. ASSUME NEW w \in Workers, Stop(w) \/ Restart(w), UNCHANGED configured PROVE EmailInv'
  <2>1. EmailTypes'
    BY <1>14 DEF Stop, Restart, loopVars, rowVars, EmailTypes
  <2>2. LoopInv'
    BY <1>14 DEF Stop, Restart, loopVars, rowVars, EmailTypes, LoopInv
  <2> QED BY <2>1, <2>2
<1> QED
  BY <1>1, <1>2, <1>3, <1>4, <1>5, <1>6, <1>7, <1>8, <1>9, <1>10, <1>11, <1>12, <1>13, <1>14
  DEF EmailNext, Ticks, Fails

-----------------------------------------------------------------------------
(* Counting.                                                               *)

\* Everything that is counted is finite.
LEMMA AllFinite ==
  /\ IsFiniteSet(Counting) /\ IsFiniteSet(Busy)
  /\ IsFiniteSet(OwedRows) /\ IsFiniteSet(SentRows) /\ IsFiniteSet(HeldRows)
  /\ IsFiniteSet(OnTheirWay)
  /\ \A s \in Sends : IsFiniteSet(Carriers(s)) /\ IsFiniteSet(Retriers(s))
<1>1. IsFiniteSet(Workers) /\ IsFiniteSet(Sends)
  BY EmailAssumption DEF EmailAssumption
<1>2. \A S : S \subseteq Workers \/ S \subseteq Sends => IsFiniteSet(S)
  BY <1>1, FS_Subset
<1> QED
  BY <1>2
  DEF Counting, Busy, OwedRows, SentRows, HeldRows, OnTheirWay, Carriers, Retriers

\* Sets that agree but for x: their sizes differ by whether x is a member.
LEMMA Recount ==
  ASSUME NEW S, NEW T, NEW x, IsFiniteSet(S), \A y : y # x => (y \in T <=> y \in S)
  PROVE  /\ Cardinality(S) \in Nat /\ Cardinality(T) \in Nat
         /\ Cardinality(T) + Ind(S, x) = Cardinality(S) + Ind(T, x)
<1>1. CASE T = S
  BY <1>1, FS_CardinalityType DEF Ind
<1>2. CASE x \in T /\ x \notin S
  <2>1. T = S \cup {x}
    BY <1>2
  <2> QED BY <1>2, <2>1, FS_AddElement, FS_CardinalityType DEF Ind
<1>3. CASE x \in S /\ x \notin T
  <2>1. S = T \cup {x} /\ T \subseteq S
    BY <1>3
  <2>2. IsFiniteSet(T)
    BY <2>1, FS_Subset
  <2> QED BY <1>3, <2>1, <2>2, FS_AddElement, FS_CardinalityType DEF Ind
<1> QED BY <1>1, <1>2, <1>3

\* A step in which only the worker w changes, between its loop and the row s, and only
\* the row s.
Touches(w, s) ==
  /\ at[w] \in {s, NoSend} /\ at'[w] \in {s, NoSend}
  /\ \A v \in Workers \ {w} : at'[v] = at[v] /\ pc'[v] = pc[v] /\ seen'[v] = seen[v]
  /\ \A r \in Sends \ {s} :
       /\ status'[r] = status[r] /\ stale'[r] = stale[r]
       /\ attempts'[r] = attempts[r] /\ accepted'[r] = accepted[r]

\* Such a step changes no other row's claims, and those of s by what w does.
LEMMA TouchedRows ==
  ASSUME NEW w \in Workers, NEW s \in Sends, Touches(w, s)
  PROVE  /\ \A r : r # s => /\ r \in HeldRows' <=> r \in HeldRows
                            /\ r \in OwedRows' <=> r \in OwedRows
                            /\ r \in Spared' <=> r \in Spared
                            /\ r \in SentRows' <=> r \in SentRows
                            /\ r \in OnTheirWay' <=> r \in OnTheirWay
         /\ \A r \in Sends : r # s => /\ Carriers(r)' = Carriers(r)
                                      /\ Retriers(r)' = Retriers(r)
<1>1. \A r : r # s => (r \in HeldRows' <=> r \in HeldRows)
  BY EmailAssumption DEF Touches, HeldRows, EmailAssumption
<1>2. \A r : r # s => /\ r \in OwedRows' <=> r \in OwedRows
                      /\ r \in SentRows' <=> r \in SentRows
  BY <1>1 DEF Touches, OwedRows, SentRows
<1>3. \A r : r # s => (r \in Spared' <=> r \in Spared)
  BY <1>2 DEF Touches, Spared
<1>4. \A r \in Sends : r # s => Carriers(r)' = Carriers(r)
  BY EmailAssumption DEF Touches, Carriers, EmailAssumption
<1>5. \A r \in Sends : r # s => Retriers(r)' = Retriers(r)
  BY <1>4, EmailAssumption DEF Touches, Retriers, Carriers, EmailAssumption
<1> QED BY <1>1, <1>2, <1>3, <1>4, <1>5 DEF OnTheirWay

\* How the sizes change in such a step.
LEMMA TouchedSizes ==
  ASSUME NEW w \in Workers, NEW s \in Sends, Touches(w, s)
  PROVE  /\ Cardinality(Carriers(s)') + Ind(Carriers(s), w)
              = Cardinality(Carriers(s)) + Ind(Carriers(s)', w)
         /\ Cardinality(Retriers(s)') + Ind(Retriers(s), w)
              = Cardinality(Retriers(s)) + Ind(Retriers(s)', w)
         /\ Cardinality(Counting') + Ind(Counting, w) = Cardinality(Counting) + Ind(Counting', w)
         /\ Cardinality(Busy') + Ind(Busy, w) = Cardinality(Busy) + Ind(Busy', w)
         /\ Cardinality(OwedRows') + Ind(OwedRows, s) = Cardinality(OwedRows) + Ind(OwedRows', s)
         /\ Cardinality(SentRows') + Ind(SentRows, s) = Cardinality(SentRows) + Ind(SentRows', s)
         /\ Cardinality(OnTheirWay') + Ind(OnTheirWay, s)
              = Cardinality(OnTheirWay) + Ind(OnTheirWay', s)
<1>1. \A v : v # w => /\ v \in Carriers(s)' <=> v \in Carriers(s)
                      /\ v \in Retriers(s)' <=> v \in Retriers(s)
                      /\ v \in Counting' <=> v \in Counting
                      /\ v \in Busy' <=> v \in Busy
  BY DEF Touches, Carriers, Retriers, Counting, Busy
<1>2. /\ IsFiniteSet(Carriers(s)) /\ IsFiniteSet(Retriers(s))
      /\ IsFiniteSet(Counting) /\ IsFiniteSet(Busy)
      /\ IsFiniteSet(OwedRows) /\ IsFiniteSet(SentRows) /\ IsFiniteSet(OnTheirWay)
  BY AllFinite
<1> QED BY <1>1, <1>2, TouchedRows, Recount

\* The sizes are numbers.
LEMMA SizesAreNatural ==
  /\ Cardinality(Counting) \in Nat /\ Cardinality(Busy) \in Nat
  /\ Cardinality(OwedRows) \in Nat /\ Cardinality(SentRows) \in Nat
  /\ Cardinality(OnTheirWay) \in Nat
  /\ \A s \in Sends : Cardinality(Carriers(s)) \in Nat /\ Cardinality(Retriers(s)) \in Nat
BY AllFinite, FS_CardinalityType

\* And they are after every step.
LEMMA SizesStayNatural ==
  /\ Cardinality(Counting') \in Nat /\ Cardinality(Busy') \in Nat
  /\ Cardinality(OwedRows') \in Nat /\ Cardinality(SentRows') \in Nat
  /\ Cardinality(OnTheirWay') \in Nat
  /\ \A s \in Sends : Cardinality(Carriers(s)') \in Nat /\ Cardinality(Retriers(s)') \in Nat
<1> DEFINE Natural ==
      /\ Cardinality(Counting) \in Nat /\ Cardinality(Busy) \in Nat
      /\ Cardinality(OwedRows) \in Nat /\ Cardinality(SentRows) \in Nat
      /\ Cardinality(OnTheirWay) \in Nat
      /\ \A s \in Sends : Cardinality(Carriers(s)) \in Nat /\ Cardinality(Retriers(s)) \in Nat
<1>1. Natural
  BY SizesAreNatural
<1>2. Natural'
  BY <1>1, PTL
<1> QED BY <1>2

-----------------------------------------------------------------------------
(* One step of one worker at one row.                                      *)

\* What the worker w and the row s stand for together: copies, ...
Copies(w, s) == accepted[s] + Ind(Spared, s) + Ind(Carriers(s), w)

\* ... attempts, ...
Tries(w, s) == attempts[s] + Ind(OwedRows, s) + Ind(Retriers(s), w)

\* ... counts and what covers them.
Counts(w, s) == sent + Ind(Counting, w) + Ind(Busy, w) + Ind(OwedRows, s)

\* The budget of copies survives a step that spends no more than its faults.
LEMMA CopyStep ==
  ASSUME EmailInv, EmailInv', CopyBudget, NEW w \in Workers, NEW s \in Sends, Touches(w, s),
         Copies(w, s)' + faults <= Copies(w, s) + faults', faults <= faults'
  PROVE  CopyBudget'
<1> USE DEF EmailInv, EmailTypes
<1> SUFFICES ASSUME NEW r \in Sends
             PROVE  accepted'[r] + Ind(Spared', r) + Cardinality(Carriers(r)') <= 1 + faults'
  BY DEF CopyBudget
<1>1. CASE r # s
  BY <1>1, TouchedRows, SizesAreNatural DEF CopyBudget, Touches, Ind
<1>2. CASE r = s
  <2>1. Cardinality(Carriers(s)) \in Nat /\ Cardinality(Carriers(s)') \in Nat
    BY SizesAreNatural, SizesStayNatural
  <2> QED BY <1>2, <2>1, TouchedSizes DEF CopyBudget, Copies, Ind
<1> QED BY <1>1, <1>2

\* The budget of attempts survives a step that spends no more than its faults, or that
\* takes the last attempt of a row with a claim that it gives up.
LEMMA RetryStep ==
  ASSUME EmailInv, EmailInv', CopyBudget, RetryBudget,
         NEW w \in Workers, NEW s \in Sends, Touches(w, s), faults <= faults',
         \/ attempts'[s] = attempts[s] /\ attempts[s] < MaxAttempts
         \/ attempts'[s] = attempts[s] /\ Tries(w, s)' + faults <= Tries(w, s) + faults'
         \/ /\ attempts'[s] = attempts[s] + 1 /\ faults' = faults
            /\ s \in OwedRows /\ s \notin OwedRows'
            /\ w \notin Retriers(s) /\ w \notin Retriers(s)'
  PROVE  RetryBudget'
<1> USE DEF EmailInv, EmailTypes
<1> SUFFICES ASSUME NEW r \in Sends, attempts'[r] >= MaxAttempts
             PROVE  attempts'[r] + Ind(OwedRows', r) + Cardinality(Retriers(r)')
                      <= MaxAttempts + faults'
  BY DEF RetryBudget
<1>m. MaxAttempts \in Nat
  BY EmailAssumption DEF EmailAssumption
<1>1. CASE r # s
  BY <1>m, <1>1, TouchedRows, SizesAreNatural DEF RetryBudget, Touches, Ind
<1>2. CASE r = s /\ attempts'[s] = attempts[s]
  <2>1. Cardinality(Retriers(s)) \in Nat /\ Cardinality(Retriers(s)') \in Nat
    BY SizesAreNatural, SizesStayNatural
  <2> QED BY <1>m, <1>2, <2>1, TouchedSizes DEF RetryBudget, Tries, Ind
<1>3. CASE r = s /\ attempts'[s] = attempts[s] + 1
  <2>1. Cardinality(Retriers(s)) \in Nat /\ Cardinality(Retriers(s)') = Cardinality(Retriers(s))
    BY <1>3, SizesAreNatural, SizesStayNatural, TouchedSizes DEF Tries, Ind
  <2>2. Ind(OwedRows, s) = 1 /\ Ind(OwedRows', s) = 0 /\ Ind(Spared, s) = 1
    BY <1>3 DEF Ind, Spared
  <2>3. Cardinality(Retriers(s)) <= Cardinality(Carriers(s)) /\ Cardinality(Carriers(s)) \in Nat
    BY AllFinite, FS_Subset, FS_CardinalityType DEF Retriers
  <2>4. CASE attempts[s] >= MaxAttempts
    BY <1>m, <1>3, <2>1, <2>2, <2>4 DEF RetryBudget
  <2>5. CASE attempts[s] + 1 = MaxAttempts
    BY <1>m, <1>3, <2>1, <2>2, <2>3, <2>5 DEF CopyBudget
  <2> QED BY <1>m, <1>3, <2>4, <2>5
<1> QED BY <1>1, <1>2, <1>3

\* The counters' budget survives a step that spends no more than its faults.
LEMMA CountStep ==
  ASSUME EmailInv, EmailInv', CountBudget,
         NEW w \in Workers, NEW s \in Sends, Touches(w, s), faults <= faults',
         Counts(w, s)' + Ind(OnTheirWay, s) + faults
           <= Counts(w, s) + Ind(OnTheirWay', s) + faults',
         sent + Ind(Counting, w) + Ind(SentRows', s) + faults
           <= sent' + Ind(Counting', w) + Ind(SentRows, s) + faults'
  PROVE  CountBudget'
<1>1. \A S, x : Ind(S, x) \in {0, 1}
  BY DEF Ind
<1>2. sent \in Nat /\ sent' \in Nat /\ faults \in Nat /\ faults' \in Nat
  BY DEF EmailInv, EmailTypes
<1>3. /\ Cardinality(Counting') + Ind(Counting, w) = Cardinality(Counting) + Ind(Counting', w)
      /\ Cardinality(Busy') + Ind(Busy, w) = Cardinality(Busy) + Ind(Busy', w)
      /\ Cardinality(OwedRows') + Ind(OwedRows, s) = Cardinality(OwedRows) + Ind(OwedRows', s)
      /\ Cardinality(SentRows') + Ind(SentRows, s) = Cardinality(SentRows) + Ind(SentRows', s)
      /\ Cardinality(OnTheirWay') + Ind(OnTheirWay, s)
           = Cardinality(OnTheirWay) + Ind(OnTheirWay', s)
  BY TouchedSizes
<1>4. sent' + Cardinality(Counting') + Cardinality(Busy') + Cardinality(OwedRows')
        <= Cardinality(OnTheirWay') + faults'
  BY <1>1, <1>2, <1>3, SizesAreNatural, SizesStayNatural DEF CountBudget, Counts
<1>5. Cardinality(SentRows') <= sent' + Cardinality(Counting') + faults'
  BY <1>1, <1>2, <1>3, SizesAreNatural, SizesStayNatural DEF CountBudget
<1> QED BY <1>4, <1>5 DEF CountBudget

\* All that the three budgets ask of a step of the worker w at the row s.
Covered(w, s) ==
  /\ Touches(w, s)
  /\ faults <= faults'
  /\ Copies(w, s)' + faults <= Copies(w, s) + faults'
  /\ \/ attempts'[s] = attempts[s] /\ attempts[s] < MaxAttempts
     \/ attempts'[s] = attempts[s] /\ Tries(w, s)' + faults <= Tries(w, s) + faults'
     \/ /\ attempts'[s] = attempts[s] + 1 /\ faults' = faults
        /\ s \in OwedRows /\ s \notin OwedRows'
        /\ w \notin Retriers(s) /\ w \notin Retriers(s)'
  /\ Counts(w, s)' + Ind(OnTheirWay, s) + faults <= Counts(w, s) + Ind(OnTheirWay', s) + faults'
  /\ sent + Ind(Counting, w) + Ind(SentRows', s) + faults
       <= sent' + Ind(Counting', w) + Ind(SentRows, s) + faults'

\* A covered step keeps the budgets.
LEMMA CoveredStep ==
  ASSUME EmailInv, EmailInv', Budgets, NEW w \in Workers, NEW s \in Sends, Covered(w, s)
  PROVE  Budgets'
BY CopyStep, RetryStep, CountStep DEF Covered, Budgets

\* So does a step that leaves every claim as it is.
LEMMA SameClaims ==
  ASSUME EmailInv, EmailInv', Budgets, UNCHANGED <<attempts, accepted, sent>>, faults <= faults',
         UNCHANGED <<OwedRows, Spared, SentRows, OnTheirWay, Counting, Busy>>,
         \A s \in Sends : Carriers(s)' = Carriers(s) /\ Retriers(s)' = Retriers(s)
  PROVE  Budgets'
<1> USE DEF EmailInv, EmailTypes
<1>1. CopyBudget'
  BY SizesAreNatural DEF Budgets, CopyBudget, Ind
<1>2. RetryBudget'
  BY SizesAreNatural, EmailAssumption DEF Budgets, RetryBudget, Ind, EmailAssumption
<1>3. CountBudget'
  BY SizesAreNatural DEF Budgets, CountBudget
<1> QED BY <1>1, <1>2, <1>3 DEF Budgets

\* In particular a step that writes no row and moves a worker only between its loops.
LEMMA QuietStep ==
  ASSUME EmailInv, EmailInv', Budgets, UNCHANGED <<rowVars, accepted, sent>>, faults <= faults',
         \A v \in Workers :
           \/ at'[v] = at[v] /\ pc'[v] = pc[v] /\ seen'[v] = seen[v]
           \/ at[v] = NoSend /\ at'[v] = NoSend
  PROVE  Budgets'
<1>0. \A v \in Workers :
        /\ at[v] = NoSend => pc[v] \notin Working /\ pc[v] # "counting"
        /\ at'[v] = NoSend => pc'[v] \notin Working /\ pc'[v] # "counting"
  BY DEF EmailInv, LoopInv, Working
<1>1. HeldRows' = HeldRows /\ Counting' = Counting /\ Busy' = Busy
  BY <1>0, EmailAssumption DEF HeldRows, Counting, Busy, EmailAssumption
<1>2. UNCHANGED <<OwedRows, Spared, SentRows, OnTheirWay>>
  BY <1>1 DEF OwedRows, Spared, SentRows, OnTheirWay, rowVars
<1>3. \A s \in Sends : Carriers(s)' = Carriers(s) /\ Retriers(s)' = Retriers(s)
  BY EmailAssumption DEF Carriers, Retriers, EmailAssumption
<1> QED BY <1>1, <1>2, <1>3, SameClaims DEF rowVars

\* Who holds the row s: somebody else, before and after, or w.
LEMMA OthersHold ==
  ASSUME NEW w \in Workers, NEW s \in Sends, Touches(w, s)
  PROVE  \E h \in BOOLEAN :
           /\ s \in HeldRows <=> h \/ (at[w] = s /\ pc[w] \in Working)
           /\ s \in HeldRows' <=> h \/ (at'[w] = s /\ pc'[w] \in Working)
<1> DEFINE h == \E v \in Workers \ {w} : at[v] = s /\ pc[v] \in Working
<1>1. s \in HeldRows <=> h \/ (at[w] = s /\ pc[w] \in Working)
  BY DEF HeldRows
<1>2. s \in HeldRows' <=> h \/ (at'[w] = s /\ pc'[w] \in Working)
  BY DEF HeldRows, Touches
<1> QED BY <1>1, <1>2

\* A claim turns the row's own claim into the worker's.
LEMMA ClaimCovered ==
  ASSUME EmailInv, EmailInv', NEW w \in Workers, NEW s \in Sends,
         Claim(w, s), status[s] = "QUEUED"
  PROVE  Covered(w, s)
<1> USE DEF EmailInv, EmailTypes
<1>1. Touches(w, s)
  BY EmailAssumption
  DEF Claim, SetRow, Touches, LoopInv, EmailAssumption
<1>2. PICK h \in BOOLEAN :
        /\ s \in HeldRows <=> h \/ (at[w] = s /\ pc[w] \in Working)
        /\ s \in HeldRows' <=> h \/ (at'[w] = s /\ pc'[w] \in Working)
  BY <1>1, OthersHold
<1> QED
  BY <1>1, <1>2, EmailAssumption
  DEF Claim, SetRow, LoopInv, Covered, Copies, Tries, Counts, Ind,
      OwedRows, Spared, SentRows, OnTheirWay, Carriers, Retriers, Counting, Busy,
      Working, Carrying, EmailAssumption

\* What w and s claim, in terms of them alone; others says whether another worker holds s.
ClaimsOf(w, s, others) ==
  /\ s \in OwedRows <=>
       \/ status[s] = "QUEUED"
       \/ status[s] = "SENDING" /\ (stale[s] \/ ~ (others \/ pc[w] \in Working))
  /\ s \in Spared <=> s \in OwedRows \/ status[s] = "FAILED"
  /\ s \in SentRows <=> status[s] = "SENT"
  /\ s \in OnTheirWay <=>
       status[s] \in {"SENT", "QUEUED"} \/ s \in OwedRows \/ others \/ pc[w] \in Working
  /\ w \in Carriers(s) <=> pc[w] \in Carrying
  /\ w \in Retriers(s) <=> pc[w] \in Carrying \ {"claimed"} /\ seen[w] < MaxAttempts
  /\ w \in Counting <=> pc[w] = "counting"
  /\ w \in Busy <=> pc[w] \in Working

Rests(s) == status'[s] = status[s] /\ stale'[s] = stale[s]

\* A worker at a row claims just that.
LEMMA ClaimsAtRow ==
  ASSUME EmailInv, EmailInv', NEW w \in Workers, NEW s \in Sends, Touches(w, s), at[w] = s
  PROVE  \E others \in BOOLEAN : ClaimsOf(w, s, others) /\ ClaimsOf(w, s, others)'
<1>1. PICK h \in BOOLEAN :
        /\ s \in HeldRows <=> h \/ (at[w] = s /\ pc[w] \in Working)
        /\ s \in HeldRows' <=> h \/ (at'[w] = s /\ pc'[w] \in Working)
  BY OthersHold
<1>2. pc'[w] \in Working => at'[w] = s
  BY DEF EmailInv, LoopInv, Touches, Working
<1>3. ClaimsOf(w, s, h)
  BY <1>1
  DEF ClaimsOf, OwedRows, Spared, SentRows, OnTheirWay, Carriers, Retriers, Counting, Busy
<1>4. ClaimsOf(w, s, h)'
  BY <1>1, <1>2
  DEF ClaimsOf, OwedRows, Spared, SentRows, OnTheirWay, Carriers, Retriers, Counting, Busy,
      Working, Carrying
<1> QED BY <1>3, <1>4

\* The read moves nothing; when it fails, the claim it strands is owed again, by a fault.
LEMMA ReadCovered ==
  ASSUME EmailInv, EmailInv', NEW w \in Workers, NEW s \in Sends, at[w] = s,
         Read(w) \/ ReadFails(w)
  PROVE  Covered(w, s)
<1>1. Touches(w, s)
  BY DEF EmailInv, EmailTypes, Touches,
         Read, ReadFails, Fault, rowVars
<1>2. /\ pc[w] = "claimed"
      /\ attempts'[s] = attempts[s]
      /\ accepted'[s] = accepted[s]
      /\ sent' = sent
      /\ Rests(s)
      /\ \/ pc'[w] = "sending" /\ seen'[w] = attempts[s] /\ faults' = faults
         \/ pc'[w] = "idle" /\ faults' = faults + 1
  BY EmailAssumption
  DEF EmailInv, EmailTypes, LoopInv, EmailAssumption, Rests,
      Read, ReadFails, Fault, rowVars
<1>3. PICK others \in BOOLEAN : ClaimsOf(w, s, others) /\ ClaimsOf(w, s, others)'
  BY <1>1, ClaimsAtRow
<1>4. /\ faults \in Nat /\ sent \in Nat /\ accepted[s] \in Nat /\ attempts[s] \in Nat
      /\ status[s] # "absent"
  BY EmailAssumption DEF EmailInv, EmailTypes, LoopInv, EmailAssumption
<1> QED
  BY <1>1, <1>2, <1>3, <1>4
  DEF Covered, Copies, Tries, Counts, ClaimsOf, Rests, Ind, Working, Carrying

\* The worker's claim becomes the copy it sends, unless the answer is lost, by a fault.
LEMMA SendCovered ==
  ASSUME EmailInv, EmailInv', NEW w \in Workers, NEW s \in Sends, at[w] = s,
         Send(w) \/ AnswerLost(w)
  PROVE  Covered(w, s)
<1>1. Touches(w, s)
  BY DEF EmailInv, EmailTypes, Touches,
         Send, AnswerLost, Accepted, Goto, Fault, rowVars
<1>2. /\ pc[w] = "sending" /\ seen'[w] = seen[w]
      /\ attempts'[s] = attempts[s]
      /\ sent' = sent
      /\ Rests(s)
      /\ \/ pc'[w] = "accepted" /\ accepted'[s] = accepted[s] + 1 /\ faults' = faults
         \/ pc'[w] \in {"catch", "undelivered"} /\ accepted'[s] = accepted[s] /\ faults' = faults
         \/ pc'[w] = "catch" /\ accepted'[s] = accepted[s] + 1 /\ faults' = faults + 1
  BY EmailAssumption
  DEF EmailInv, EmailTypes, LoopInv, EmailAssumption, Rests,
      Send, AnswerLost, Accepted, Goto, Fault, rowVars
<1>3. PICK others \in BOOLEAN : ClaimsOf(w, s, others) /\ ClaimsOf(w, s, others)'
  BY <1>1, ClaimsAtRow
<1>4. /\ faults \in Nat /\ sent \in Nat /\ accepted[s] \in Nat /\ attempts[s] \in Nat
      /\ status[s] # "absent"
  BY EmailAssumption DEF EmailInv, EmailTypes, LoopInv, EmailAssumption
<1> QED
  BY <1>1, <1>2, <1>3, <1>4
  DEF Covered, Copies, Tries, Counts, ClaimsOf, Rests, Ind, Working, Carrying

\* What the loop writes of a finished row ends the row's own claim, if any.
LEMMA MarkCovered ==
  ASSUME EmailInv, EmailInv', NEW w \in Workers, NEW s \in Sends, at[w] = s,
         MarkSent(w) \/ MarkUndelivered(w)
  PROVE  Covered(w, s)
<1>1. Touches(w, s)
  BY DEF EmailInv, EmailTypes, Touches,
         MarkSent, MarkUndelivered, SetRow, Goto, Continue
<1>2. /\ attempts'[s] = attempts[s]
      /\ accepted'[s] = accepted[s]
      /\ sent' = sent
      /\ faults' = faults
      /\ \/ pc[w] = "accepted" /\ pc'[w] = "counting" /\ status'[s] = "SENT"
         \/ pc[w] = "undelivered" /\ pc'[w] \in {"idle", "loop"} /\ status'[s] = "FAILED"
  BY EmailAssumption
  DEF EmailInv, EmailTypes, LoopInv, EmailAssumption, Rests,
      MarkSent, MarkUndelivered, SetRow, Goto, Continue
<1>3. PICK others \in BOOLEAN : ClaimsOf(w, s, others) /\ ClaimsOf(w, s, others)'
  BY <1>1, ClaimsAtRow
<1>4. /\ faults \in Nat /\ sent \in Nat /\ accepted[s] \in Nat /\ attempts[s] \in Nat
      /\ status[s] # "absent"
  BY EmailAssumption DEF EmailInv, EmailTypes, LoopInv, EmailAssumption
<1> QED
  BY <1>1, <1>2, <1>3, <1>4
  DEF Covered, Copies, Tries, Counts, ClaimsOf, Rests, Ind, Working, Carrying

\* A count moves from the worker to the campaign.
LEMMA CountCovered ==
  ASSUME EmailInv, EmailInv', NEW w \in Workers, NEW s \in Sends, at[w] = s,
         CountSent(w) \/ CountBounce(w)
  PROVE  Covered(w, s)
<1>1. Touches(w, s)
  BY DEF EmailInv, EmailTypes, Touches,
         CountSent, CountBounce, Continue, rowVars
<1>2. /\ attempts'[s] = attempts[s]
      /\ accepted'[s] = accepted[s]
      /\ faults' = faults
      /\ Rests(s)
      /\ pc'[w] \in {"idle", "loop"}
      /\ \/ pc[w] = "counting" /\ sent' = sent + 1
         \/ pc[w] = "bouncing" /\ sent' = sent
  BY EmailAssumption
  DEF EmailInv, EmailTypes, LoopInv, EmailAssumption, Rests,
      CountSent, CountBounce, Continue, rowVars
<1>3. PICK others \in BOOLEAN : ClaimsOf(w, s, others) /\ ClaimsOf(w, s, others)'
  BY <1>1, ClaimsAtRow
<1>4. /\ faults \in Nat /\ sent \in Nat /\ accepted[s] \in Nat /\ attempts[s] \in Nat
      /\ status[s] # "absent"
  BY EmailAssumption DEF EmailInv, EmailTypes, LoopInv, EmailAssumption
<1> QED
  BY <1>1, <1>2, <1>3, <1>4
  DEF Covered, Copies, Tries, Counts, ClaimsOf, Rests, Ind, Working, Carrying

\* A failed write gives the worker a claim anew, which the fault pays for.
LEMMA WriteFailsCovered ==
  ASSUME EmailInv, EmailInv', NEW w \in Workers, NEW s \in Sends, at[w] = s,
         WriteFails(w)
  PROVE  Covered(w, s)
<1>1. Touches(w, s)
  BY DEF EmailInv, EmailTypes, Touches,
         WriteFails, SetRow, Goto, Fault
<1>2. /\ attempts'[s] = attempts[s]
      /\ accepted'[s] = accepted[s]
      /\ faults' = faults + 1
      /\ pc'[w] = "catch" /\ seen'[w] = seen[w]
      /\ \/ pc[w] = "accepted" /\ status'[s] = "SENT" /\ sent' = sent
         \/ pc[w] = "undelivered" /\ status'[s] = "FAILED" /\ sent' = sent
         \/ pc[w] \in {"accepted", "undelivered"} /\ Rests(s) /\ sent' = sent
         \/ pc[w] = "counting" /\ Rests(s) /\ sent' \in {sent, sent + 1}
  BY EmailAssumption
  DEF EmailInv, EmailTypes, LoopInv, EmailAssumption, Rests,
      WriteFails, SetRow, Goto, Fault
<1>3. PICK others \in BOOLEAN : ClaimsOf(w, s, others) /\ ClaimsOf(w, s, others)'
  BY <1>1, ClaimsAtRow
<1>4. /\ faults \in Nat /\ sent \in Nat /\ accepted[s] \in Nat /\ attempts[s] \in Nat
      /\ status[s] # "absent"
  BY EmailAssumption DEF EmailInv, EmailTypes, LoopInv, EmailAssumption
<1> QED
  BY <1>1, <1>2, <1>3, <1>4
  DEF Covered, Copies, Tries, Counts, ClaimsOf, Rests, Ind, Working, Carrying

\* The catch block gives the worker's claim back to the row, or ends it.
LEMMA CatchCovered ==
  ASSUME EmailInv, EmailInv', NEW w \in Workers, NEW s \in Sends, at[w] = s,
         Catch(w) \/ CatchWriteFails(w)
  PROVE  Covered(w, s)
<1>1. Touches(w, s)
  BY DEF EmailInv, EmailTypes, Touches,
         Catch, CatchWriteFails, GiveUp, SetRow, Goto, Continue, Fault, rowVars
<1>2. /\ attempts'[s] = attempts[s]
      /\ accepted'[s] = accepted[s]
      /\ sent' = sent
      /\ \/ pc[w] = "catch" /\ pc'[w] = "bouncing" /\ status'[s] = "FAILED" /\ faults' = faults
         \/ pc[w] = "catch" /\ pc'[w] \in {"idle", "loop"} /\ status'[s] = "QUEUED"
            /\ seen[w] < MaxAttempts /\ faults' = faults
         \/ pc[w] \in {"catch", "bouncing"} /\ pc'[w] \in {"idle", "loop", "bouncing"}
            /\ Rests(s) /\ faults' = faults + 1
  BY EmailAssumption
  DEF EmailInv, EmailTypes, LoopInv, EmailAssumption, Rests,
      Catch, CatchWriteFails, GiveUp, SetRow, Goto, Continue, Fault, rowVars
<1>3. PICK others \in BOOLEAN : ClaimsOf(w, s, others) /\ ClaimsOf(w, s, others)'
  BY <1>1, ClaimsAtRow
<1>4. /\ faults \in Nat /\ sent \in Nat /\ accepted[s] \in Nat /\ attempts[s] \in Nat
      /\ status[s] # "absent"
  BY EmailAssumption DEF EmailInv, EmailTypes, LoopInv, EmailAssumption
<1> QED
  BY <1>1, <1>2, <1>3, <1>4
  DEF Covered, Copies, Tries, Counts, ClaimsOf, Rests, Ind, Working, Carrying

\* The claim that a dying worker strands is owed again, and the death is a fault.
LEMMA DiesCovered ==
  ASSUME EmailInv, EmailInv', NEW w \in Workers, NEW s \in Sends, at[w] = s,
         Exit(w) \/ Crash(w)
  PROVE  Covered(w, s)
<1>1. Touches(w, s)
  BY DEF EmailInv, EmailTypes, Touches,
         Exit, Crash, Dies, Fault, rowVars
<1>2. /\ attempts'[s] = attempts[s]
      /\ accepted'[s] = accepted[s]
      /\ sent' = sent
      /\ Rests(s)
      /\ pc[w] # "idle" /\ pc'[w] = "idle" /\ faults' = faults + 1
  BY EmailAssumption
  DEF EmailInv, EmailTypes, LoopInv, EmailAssumption, Rests,
      Exit, Crash, Dies, Fault, rowVars
<1>3. PICK others \in BOOLEAN : ClaimsOf(w, s, others) /\ ClaimsOf(w, s, others)'
  BY <1>1, ClaimsAtRow
<1>4. /\ faults \in Nat /\ sent \in Nat /\ accepted[s] \in Nat /\ attempts[s] \in Nat
      /\ status[s] # "absent"
  BY EmailAssumption DEF EmailInv, EmailTypes, LoopInv, EmailAssumption
<1> QED
  BY <1>1, <1>2, <1>3, <1>4
  DEF Covered, Copies, Tries, Counts, ClaimsOf, Rests, Ind, Working, Carrying

-----------------------------------------------------------------------------
(* The steps that are no single worker's at a single row.                  *)

\* A launch gives each new row one claim and its place in OnTheirWay.
LEMMA LaunchStep ==
  ASSUME EmailInv, EmailInv', Budgets, NEW S \in SUBSET Sends, Launch(S)
  PROVE  Budgets'
<1>0. /\ UNCHANGED <<attempts, sent, accepted, faults, pc, at, seen, stale>>
      /\ \A s \in Sends : status'[s] = IF s \in S THEN "QUEUED" ELSE status[s]
      /\ \A s \in S : s \in Sends /\ status[s] = "absent"
  BY DEF Launch, loopVars
<1>1. /\ UNCHANGED <<HeldRows, Counting, Busy>>
      /\ \A s \in Sends : Carriers(s)' = Carriers(s) /\ Retriers(s)' = Retriers(s)
  BY <1>0 DEF HeldRows, Counting, Busy, Carriers, Retriers
<1>2. \A w \in Workers : at[w] \notin S
  BY <1>0, EmailAssumption DEF EmailInv, LoopInv, EmailTypes, EmailAssumption
<1>3. /\ SentRows' = SentRows
      /\ OwedRows' = OwedRows \cup S /\ Spared' = Spared \cup S
      /\ OnTheirWay' = OnTheirWay \cup S
      /\ S \cap OwedRows = {} /\ S \cap OnTheirWay = {}
      /\ \A s \in S : Carriers(s) = {} /\ Retriers(s) = {}
  <2>1. SentRows' = SentRows /\ S \cap SentRows = {} /\ S \cap HeldRows = {}
    BY <1>0, <1>2 DEF SentRows, HeldRows
  <2>2. OwedRows' = OwedRows \cup S /\ S \cap OwedRows = {}
    BY <1>0, <1>1 DEF OwedRows
  <2>3. Spared' = Spared \cup S
    BY <1>0, <2>2 DEF Spared
  <2> QED BY <1>1, <1>2, <2>1, <2>2, <2>3 DEF OnTheirWay, Carriers, Retriers
<1>4. IsFiniteSet(S) /\ Cardinality({}) = 0
  BY EmailAssumption, FS_Subset, FS_EmptySet DEF EmailAssumption
<1>5. CopyBudget'
  <2> SUFFICES ASSUME NEW s \in Sends
               PROVE  accepted'[s] + Ind(Spared', s) + Cardinality(Carriers(s)') <= 1 + faults'
    BY DEF CopyBudget
  <2>1. CASE s \in S
    <3>1. accepted[s] = 0 /\ faults \in Nat
      BY <1>0, <2>1 DEF EmailInv, LoopInv, EmailTypes
    <3> QED BY <1>0, <1>1, <1>3, <1>4, <2>1, <3>1 DEF Ind
  <2>2. CASE s \notin S
    BY <1>0, <1>1, <1>3, <2>2 DEF Budgets, CopyBudget, Ind
  <2> QED BY <2>1, <2>2
<1>6. RetryBudget'
  <2> SUFFICES ASSUME NEW s \in Sends, attempts'[s] >= MaxAttempts
               PROVE  attempts'[s] + Ind(OwedRows', s) + Cardinality(Retriers(s)')
                        <= MaxAttempts + faults'
    BY DEF RetryBudget
  <2>1. s \notin S
    BY <1>0, EmailAssumption DEF EmailInv, LoopInv, EmailAssumption
  <2> QED BY <1>0, <1>1, <1>3, <2>1 DEF Budgets, RetryBudget, Ind
<1>7. CountBudget'
  <2>1. /\ Cardinality(OwedRows') = Cardinality(OwedRows) + Cardinality(S)
        /\ Cardinality(OnTheirWay') = Cardinality(OnTheirWay) + Cardinality(S)
        /\ Cardinality(S) \in Nat
    <3>1. IsFiniteSet(OwedRows) /\ IsFiniteSet(OnTheirWay)
      BY AllFinite
    <3>2. OwedRows \cap S = {} /\ OnTheirWay \cap S = {}
      BY <1>3
    <3>3. /\ Cardinality(OwedRows) \in Nat /\ Cardinality(OnTheirWay) \in Nat
          /\ Cardinality(S) \in Nat
      BY <1>4, <3>1, FS_CardinalityType
    <3>4. Cardinality(OwedRows \cup S) =
            Cardinality(OwedRows) + Cardinality(S) - Cardinality(OwedRows \cap S)
      BY <1>4, <3>1, FS_Union
    <3>5. Cardinality(OnTheirWay \cup S) =
            Cardinality(OnTheirWay) + Cardinality(S) - Cardinality(OnTheirWay \cap S)
      BY <1>4, <3>1, FS_Union
    <3>6. Cardinality(OwedRows \cap S) = 0 /\ Cardinality(OnTheirWay \cap S) = 0
      BY <1>4, <3>2
    <3> QED BY <1>3, <3>3, <3>4, <3>5, <3>6
  <2>2. sent \in Nat /\ faults \in Nat
    BY DEF EmailInv, EmailTypes
  <2> QED BY <1>0, <1>1, <1>3, <2>1, <2>2, SizesAreNatural DEF Budgets, CountBudget
<1> QED BY <1>5, <1>6, <1>7 DEF Budgets

\* Time passes over a row without a claim's appearing: nobody holds the row, which is owed
\* already, or somebody is at it and a fault pays.
LEMMA AgesStep ==
  ASSUME EmailInv, EmailInv', Budgets, NEW s \in Sends, Ages(s)
  PROVE  Budgets'
<1>0. /\ UNCHANGED <<status, attempts, sent, accepted, pc, at, seen>>
      /\ status[s] = "SENDING" /\ stale' = [stale EXCEPT ![s] = TRUE]
  BY DEF Ages, loopVars
<1>1. CASE \E w \in Workers : at[w] = s
  <2>1. PICK w \in Workers : at[w] = s
    BY <1>1
  <2>2. Touches(w, s) /\ faults' = faults + 1
    BY <1>0, <1>1, <2>1 DEF Touches, Ages, Fault, EmailInv, EmailTypes
  <2>3. PICK others \in BOOLEAN : ClaimsOf(w, s, others) /\ ClaimsOf(w, s, others)'
    BY <2>1, <2>2, ClaimsAtRow
  <2>4. faults \in Nat /\ sent \in Nat /\ accepted[s] \in Nat /\ attempts[s] \in Nat
    BY DEF EmailInv, EmailTypes
  <2>5. Covered(w, s)
    BY <1>0, <2>2, <2>3, <2>4
    DEF Covered, Copies, Tries, Counts, ClaimsOf, Ind, Working, Carrying
  <2> QED BY <2>5, CoveredStep
<1>2. CASE ~ \E w \in Workers : at[w] = s
  <2>1. /\ UNCHANGED <<HeldRows, Counting, Busy, SentRows>>
        /\ \A r \in Sends : Carriers(r)' = Carriers(r) /\ Retriers(r)' = Retriers(r)
    BY <1>0 DEF HeldRows, Counting, Busy, SentRows, Carriers, Retriers
  <2>2. OwedRows' = OwedRows
    <3>1. s \notin HeldRows
      BY <1>2 DEF HeldRows
    <3> QED BY <1>0, <2>1, <3>1 DEF OwedRows, EmailInv, EmailTypes
  <2>3. UNCHANGED <<Spared, OnTheirWay>> /\ faults' = faults
    BY <1>0, <1>2, <2>1, <2>2 DEF Spared, OnTheirWay, Ages
  <2>4. faults \in Nat
    BY DEF EmailInv, EmailTypes
  <2> QED BY <1>0, <2>1, <2>2, <2>3, <2>4, SameClaims
<1> QED BY <1>1, <1>2

\* The row of an abandoned claim is owed as before when it returns to the queue.
LEMMA ReclaimStep ==
  ASSUME EmailInv, EmailInv', Budgets, NEW w \in Workers, Reclaim(w)
  PROVE  Budgets'
<1>0. /\ UNCHANGED <<attempts, sent, accepted, at, seen, faults>>
      /\ pc[w] = "idle" /\ pc' = [pc EXCEPT ![w] = "polling"]
      /\ \A s \in Sends :
           /\ status'[s] = IF status[s] = "SENDING" /\ stale[s] THEN "QUEUED" ELSE status[s]
           /\ stale'[s] = IF status[s] = "SENDING" /\ stale[s] THEN FALSE ELSE stale[s]
  BY DEF Reclaim, Goto
<1>1. pc \in [Workers -> Step] /\ faults \in Nat
  BY DEF EmailInv, EmailTypes
<1>2. /\ UNCHANGED <<HeldRows, Counting, Busy, SentRows>>
      /\ \A r \in Sends : Carriers(r)' = Carriers(r) /\ Retriers(r)' = Retriers(r)
  BY <1>0, <1>1
  DEF HeldRows, Counting, Busy, SentRows, Carriers, Retriers, Working, Carrying
<1>3. OwedRows' = OwedRows
  BY <1>0, <1>2 DEF OwedRows
<1>4. UNCHANGED <<Spared, OnTheirWay>>
  BY <1>0, <1>2, <1>3 DEF Spared, OnTheirWay
<1> QED BY <1>0, <1>1, <1>2, <1>3, <1>4, SameClaims

\* A worker that is not at a row leaves its loop, or looks at a row it does not get.
LEMMA LoopStep ==
  ASSUME EmailInv, EmailInv', Budgets, NEW w \in Workers, at[w] = NoSend,
         \/ Poll(w) \/ Stop(w) \/ Restart(w) \/ Exit(w) \/ Crash(w)
         \/ \E s \in Sends : Claim(w, s) /\ status[s] # "QUEUED"
  PROVE  Budgets'
<1>1. /\ UNCHANGED <<rowVars, accepted, sent>> /\ (faults' = faults \/ faults' = faults + 1)
      /\ at'[w] = NoSend
      /\ \A v \in Workers \ {w} : at'[v] = at[v] /\ pc'[v] = pc[v] /\ seen'[v] = seen[v]
  BY DEF EmailInv, EmailTypes, Poll, Stop, Restart, Exit, Crash, Dies, Claim, Fault,
         rowVars, loopVars
<1>2. faults <= faults'
  BY <1>1 DEF EmailInv, EmailTypes
<1> QED BY <1>1, <1>2, QuietStep

\* Stopping or restarting a process moves nothing that its poller holds.
LEMMA ModeStep ==
  ASSUME EmailInv, EmailInv', Budgets, NEW w \in Workers, Stop(w) \/ Restart(w)
  PROVE  Budgets'
<1>1. UNCHANGED <<rowVars, accepted, sent, at, pc, seen, faults>> /\ faults <= faults'
  BY DEF EmailInv, EmailTypes, Stop, Restart, loopVars
<1> QED BY <1>1, QuietStep

\* Every step keeps the budgets.
LEMMA BudgetStep == EmailInv /\ EmailInv' /\ Budgets /\ [EmailNext]_emailVars => Budgets'
<1> SUFFICES ASSUME EmailInv, EmailInv', Budgets, [EmailNext]_emailVars PROVE Budgets'
  OBVIOUS
<1>1. CASE UNCHANGED emailVars
  <2>1. UNCHANGED <<rowVars, accepted, sent, at, pc, seen, faults>> /\ faults <= faults'
    BY <1>1 DEF EmailInv, EmailTypes, emailVars, loopVars
  <2> QED BY <2>1, QuietStep
<1>2. ASSUME NEW S \in SUBSET Sends, Launch(S) PROVE Budgets'
  BY <1>2, LaunchStep
<1>3. ASSUME NEW s \in Sends, Ages(s) PROVE Budgets'
  BY <1>3, AgesStep
<1>4. ASSUME NEW w \in Workers, Ticks(w) PROVE Budgets'
  <2>1. CASE Reclaim(w)
    BY <2>1, ReclaimStep
  <2>2. CASE Poll(w)
    <3>1. at[w] = NoSend
      BY <2>2 DEF Poll, EmailInv, LoopInv
    <3> QED BY <2>2, <3>1, LoopStep
  <2>3. ASSUME NEW s \in Sends, Claim(w, s) PROVE Budgets'
    <3>1. at[w] = NoSend
      BY <2>3 DEF Claim, EmailInv, LoopInv
    <3> QED BY <2>3, <3>1, LoopStep, ClaimCovered, CoveredStep
  <2>4. CASE Read(w) \/ Send(w) \/ MarkSent(w) \/ CountSent(w) \/ MarkUndelivered(w)
             \/ Catch(w) \/ CountBounce(w)
    <3>1. at[w] \in Sends
      BY <2>4, AtRow DEF Read, Send, MarkSent, CountSent, MarkUndelivered, Catch, CountBounce
    <3>2. Covered(w, at[w])
      BY <2>4, <3>1, ReadCovered, SendCovered, MarkCovered, CountCovered, CatchCovered
    <3> QED BY <3>1, <3>2, CoveredStep
  <2> QED BY <1>4, <2>1, <2>2, <2>3, <2>4 DEF Ticks
<1>5. ASSUME NEW w \in Workers, Fails(w) PROVE Budgets'
  <2>1. CASE ReadFails(w) \/ AnswerLost(w) \/ WriteFails(w) \/ CatchWriteFails(w)
    <3>1. at[w] \in Sends
      BY <2>1, AtRow DEF ReadFails, AnswerLost, WriteFails, CatchWriteFails
    <3>2. Covered(w, at[w])
      BY <2>1, <3>1, ReadCovered, SendCovered, WriteFailsCovered, CatchCovered
    <3> QED BY <3>1, <3>2, CoveredStep
  <2>2. CASE Crash(w) /\ at[w] = NoSend
    BY <2>2, LoopStep
  <2>3. CASE Crash(w) /\ at[w] # NoSend
    <3>1. at[w] \in Sends /\ Covered(w, at[w])
      BY <2>3, DiesCovered DEF EmailInv, EmailTypes
    <3> QED BY <3>1, CoveredStep
  <2> QED BY <1>5, <2>1, <2>2, <2>3 DEF Fails
<1>6. ASSUME NEW w \in Workers, Exit(w) PROVE Budgets'
  <2>1. CASE at[w] = NoSend
    BY <1>6, <2>1, LoopStep
  <2>2. CASE at[w] # NoSend
    <3>1. at[w] \in Sends /\ Covered(w, at[w])
      BY <1>6, <2>2, DiesCovered DEF EmailInv, EmailTypes
    <3> QED BY <3>1, CoveredStep
  <2> QED BY <2>1, <2>2
<1>7. ASSUME NEW w \in Workers, Stop(w) \/ Restart(w) PROVE Budgets'
  BY <1>7, ModeStep
<1> QED BY <1>1, <1>2, <1>3, <1>4, <1>5, <1>6, <1>7 DEF EmailNext

\* No row, no claim: the budgets hold before the first launch.
LEMMA BudgetInit == EmailInit => Budgets
<1> SUFFICES ASSUME EmailInit PROVE Budgets
  OBVIOUS
<1>1. /\ OwedRows = {} /\ SentRows = {} /\ Spared = {} /\ Counting = {} /\ Busy = {}
      /\ \A s \in Sends : Carriers(s) = {} /\ Retriers(s) = {}
  BY DEF EmailInit, OwedRows, SentRows, Spared, Counting, Busy, Carriers, Retriers,
         Working, Carrying
<1>2. HeldRows = {}
  BY DEF EmailInit, HeldRows, Working
<1>3. OnTheirWay = {} /\ Cardinality({}) = 0
  BY <1>1, <1>2, FS_EmptySet DEF OnTheirWay
<1>4. CopyBudget
  BY <1>1, <1>3 DEF EmailInit, CopyBudget, Ind
<1>5. RetryBudget
  BY <1>1, <1>3, EmailAssumption DEF EmailInit, RetryBudget, Ind, EmailAssumption
<1>6. CountBudget
  BY <1>1, <1>3 DEF EmailInit, CountBudget
<1> QED BY <1>4, <1>5, <1>6 DEF Budgets

-----------------------------------------------------------------------------
(* Theorems.                                                               *)

\* The invariant and the budgets hold for ever.
THEOREM BudgetsKept == EmailSafe => [](EmailInv /\ Budgets)
BY EmailInvInit, EmailInvStep, BudgetInit, BudgetStep, PTL DEF EmailSafe

\* Every value keeps its type, and a row is attempted at most MAX_EMAIL_ATTEMPTS times but
\* for the faults.
THEOREM EmailTypeCorrect == EmailSafe => []EmailTypeOK
<1>1. EmailInv /\ Budgets => EmailTypeOK
  <2> SUFFICES ASSUME EmailInv, Budgets, NEW s \in Sends
               PROVE  attempts[s] <= MaxAttempts + faults
    BY DEF EmailInv, EmailTypes, EmailTypeOK
  <2>1. attempts[s] \in Nat /\ faults \in Nat /\ MaxAttempts \in Nat
    BY EmailAssumption DEF EmailInv, EmailTypes, EmailAssumption
  <2>2. Ind(OwedRows, s) \in {0, 1}
    BY DEF Ind
  <2> QED BY <2>1, <2>2, SizesAreNatural DEF Budgets, RetryBudget
<1> QED BY <1>1, BudgetsKept, PTL

\* The rows on their way are sent, owed or held, and each worker holds one row.
LEMMA OnTheirWayCounted ==
  Cardinality(OnTheirWay)
    <= Cardinality(SentRows) + Cardinality(OwedRows) + Cardinality(Busy)
<1> DEFINE worked == {at[w] : w \in Busy}
           rowOf == [w \in Busy |-> at[w]]
<1>1. rowOf \in Surjection(Busy, worked) /\ HeldRows \subseteq worked
  BY DEF Surjection, HeldRows, Busy
<1>2. IsFiniteSet(worked) /\ Cardinality(worked) <= Cardinality(Busy)
  BY <1>1, AllFinite, FS_Surjection
<1>3. Cardinality(HeldRows) <= Cardinality(Busy)
  <2>1. /\ Cardinality(HeldRows) <= Cardinality(worked)
        /\ Cardinality(HeldRows) \in Nat /\ Cardinality(worked) \in Nat
    BY <1>1, <1>2, AllFinite, FS_Subset, FS_CardinalityType
  <2> QED BY <1>2, <2>1, SizesAreNatural
<1>4. \A S, T : IsFiniteSet(S) /\ IsFiniteSet(T)
                  => /\ IsFiniteSet(S \cup T)
                     /\ Cardinality(S \cup T) <= Cardinality(S) + Cardinality(T)
  <2> SUFFICES ASSUME NEW S, NEW T, IsFiniteSet(S), IsFiniteSet(T)
               PROVE  /\ IsFiniteSet(S \cup T)
                      /\ Cardinality(S \cup T) <= Cardinality(S) + Cardinality(T)
    OBVIOUS
  <2>1. IsFiniteSet(S \cap T) /\ Cardinality(S \cap T) \in Nat
    BY FS_Subset, FS_CardinalityType
  <2>2. /\ IsFiniteSet(S \cup T)
        /\ Cardinality(S \cup T) = Cardinality(S) + Cardinality(T) - Cardinality(S \cap T)
    BY FS_Union
  <2>3. Cardinality(S) \in Nat /\ Cardinality(T) \in Nat
    BY FS_CardinalityType
  <2> QED BY <2>1, <2>2, <2>3
<1>5. Cardinality(SentRows \cup OwedRows) \in Nat /\ Cardinality(HeldRows) \in Nat
  BY <1>4, AllFinite, FS_CardinalityType
<1> QED BY <1>3, <1>4, <1>5, AllFinite, SizesAreNatural DEF OnTheirWay

\* Extra copies need faults, rows say what became of their messages, and the counters follow
\* the rows, for any number of workers, messages and faults.
THEOREM EmailsAreSound == EmailSafe => []EmailsSound
<1> SUFFICES EmailInv /\ Budgets => EmailsSound
  BY BudgetsKept, PTL
<1> SUFFICES ASSUME EmailInv, Budgets PROVE EmailsSound
  OBVIOUS
<1>1. \A s \in Sends : accepted[s] + Ind(Spared, s) <= 1 + faults
  BY SizesAreNatural DEF Budgets, CopyBudget, EmailInv, EmailTypes, Ind
<1>2. ExtraCopiesNeedFaults
  BY <1>1 DEF ExtraCopiesNeedFaults, EmailInv, EmailTypes, Ind
<1>3. HonestOutcome
  BY <1>1 DEF HonestOutcome, EmailInv, EmailTypes, LoopInv, Spared, Ind
<1>4. CountersFollow
  <2>1. Cardinality(SentRows) <= sent + Cardinality(Counting) + faults
    BY DEF Budgets, CountBudget
  <2>2. sent + Cardinality(Counting) <= Cardinality(SentRows) + faults
    BY SizesAreNatural, OnTheirWayCounted DEF Budgets, CountBudget, EmailInv, EmailTypes
  <2> QED BY <2>1, <2>2 DEF CountersFollow, Uncounted, SentRows, Counting
<1> QED BY <1>2, <1>3, <1>4 DEF EmailsSound
=============================================================================
