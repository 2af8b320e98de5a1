--------------------------- MODULE MarketingProofs ----------------------------
(* Proofs about the marketing of an organisation: Allowance, with any number   *)
(* of workers, months and thresholds and any spend, and ReviewQueue, with any  *)
(* number of assets, pictures, requests and faults.                            *)
EXTENDS Allowance, ReviewQueue, WellFoundedInduction, FiniteSetTheorems, TLAPS

-----------------------------------------------------------------------------
(* The ad allowance.                                                         *)

RowsTyped ==
  /\ month \in Months
  /\ spend \in [Months -> 0..MaxSpend]
  /\ total \in 0..MaxSpend
  /\ totalOf \in 0..MaxMonth
  /\ ledger \in [Months -> SUBSET (0..MaxSpend)]
  /\ \A m \in Months : ledger[m] = {} \/ \E a \in 0..MaxSpend : ledger[m] = {a}
  /\ alerted \in [Months -> SUBSET Thresholds]
  /\ enabled \in BOOLEAN
  /\ reported \in [Months -> SUBSET (0..MaxSpend)]
  /\ told \in [Months -> [Thresholds -> Nat]]
  /\ recorded \subseteq Months
  /\ overlap \in BOOLEAN
  /\ faults \in 0..MaxTrouble

PassTyped ==
  /\ pc \in [Workers -> Step]
  /\ now \in [Workers -> 0..MaxMonth]
  /\ ended \in [Workers -> 0..MaxMonth]
  /\ sends \in [Workers -> BOOLEAN]
  /\ sum \in [Workers -> 0..MaxSpend]
  /\ plan \in [Workers -> SUBSET Thresholds]

AllowanceTyped == RowsTyped /\ PassTyped

\* What a pass remembers at the steps that use it.
PassInv ==
  \A w \in Workers :
    /\ w \in Busy => now[w] \in Months
    /\ pc[w] \in {"closing", "upserting"} => ended[w] \in Months
    /\ pc[w] \in {"firing", "telling"} => plan[w] # {}
    /\ sends[w] => enabled

\* The figures it carries were read from the rows of their month.
FiguresInv ==
  /\ \A m \in Months : spend[m] \in reported[m]
  /\ \A w \in Workers :
       /\ pc[w] = "upserting" => sum[w] \in reported[ended[w]]
       /\ pc[w] = "storing" => sum[w] \in reported[now[w]]
  /\ FiguresOfTheirMonth

\* A worker that is about to tell the client owns the record of the alert, and nobody
\* told before.
AlertsInv ==
  /\ \A w \in Workers :
       pc[w] = "telling" =>
         /\ sends[w]
         /\ Lowest(plan[w]) \in alerted[now[w]]
         /\ told[now[w]][Lowest(plan[w])] = 0
  /\ \A v, w \in Workers :
       pc[v] = "telling" /\ pc[w] = "telling" /\ now[v] = now[w]
       /\ Lowest(plan[v]) = Lowest(plan[w])
         => v = w
  /\ AlertsAtMostOnce

\* While no passes have overlapped, the one in progress closes the month whose total it
\* is about to overwrite.
ClosingInv ==
  /\ ~ overlap => \A v, w \in Busy : v = w
  /\ ~ overlap => \A w \in Workers :
       /\ pc[w] \in {"closing", "upserting"} => ended[w] = totalOf
       /\ pc[w] \in {"summing", "storing"} =>
            totalOf = 0 \/ totalOf = now[w] \/ ledger[totalOf] # {}
  /\ recorded \cap {0} = {}
  /\ ShownMonthsAreClosed

AllowanceInv == AllowanceTyped /\ PassInv /\ FiguresInv /\ AlertsInv /\ ClosingInv

-----------------------------------------------------------------------------
\* The lowest of the thresholds still to announce is one of them.
LEMMA LowestMember ==
  ASSUME NEW S \in SUBSET Thresholds, S # {}
  PROVE  Lowest(S) \in S
<1>1. S \subseteq Nat
  BY AllowanceAssumption DEF AllowanceAssumption
<1> DEFINE R == OpToRel(<, Nat)
<1>2. \E x \in S : \A y \in S : ~ (<<y, x>> \in R)
  <2>1. IsWellFoundedOn(R, Nat)
    BY NatLessThanWellFounded
  <2> HIDE DEF R
  <2> QED
    BY <1>1, <2>1, WFMin
<1>3. PICK x \in S : \A y \in S : ~ (<<y, x>> \in R)
  BY <1>2
<1>4. \A y \in S : x <= y
  <2>1. \A y \in Nat : y < x => <<y, x>> \in R
    BY <1>1, <1>3 DEF OpToRel
  <2> HIDE DEF R
  <2>2. ASSUME NEW y \in S PROVE x <= y
    <3>1. x \in Nat /\ y \in Nat /\ ~ (y < x)
      BY <1>1, <1>3, <2>1
    <3> QED
      BY <3>1
  <2> QED
    BY <2>2
<1> QED
  BY <1>3, <1>4 DEF Lowest

\* The bounds are natural numbers, and months are counted from one.
LEMMA Bounds ==
  /\ MaxMonth \in Nat \ {0} /\ MaxSpend \in Nat /\ MaxTrouble \in Nat
  /\ Months = 1..MaxMonth /\ Months \subseteq 0..MaxMonth /\ 0 \notin Months
  /\ Months \subseteq Nat
BY AllowanceAssumption DEF AllowanceAssumption, Months

\* Before the first pass nothing is stored.
LEMMA AllowanceInvInit == AllowanceInit => AllowanceInv
<1> SUFFICES ASSUME AllowanceInit PROVE AllowanceInv
  OBVIOUS
<1>1. RowsTyped
  <2>1. /\ spend \in [Months -> 0..MaxSpend]
        /\ reported \in [Months -> SUBSET (0..MaxSpend)]
    BY Bounds DEF AllowanceInit
  <2>2. /\ ledger \in [Months -> SUBSET (0..MaxSpend)]
        /\ alerted \in [Months -> SUBSET Thresholds]
        /\ \A m \in Months : ledger[m] = {}
    BY DEF AllowanceInit
  <2>3. told \in [Months -> [Thresholds -> Nat]]
    BY DEF AllowanceInit
  <2>4. /\ month \in Months /\ total \in 0..MaxSpend /\ totalOf \in 0..MaxMonth
        /\ faults \in 0..MaxTrouble
    BY Bounds DEF AllowanceInit
  <2>5. enabled \in BOOLEAN /\ overlap \in BOOLEAN /\ recorded \subseteq Months
    BY DEF AllowanceInit
  <2> QED
    BY <2>1, <2>2, <2>3, <2>4, <2>5 DEF RowsTyped
<1>2. PassTyped /\ PassInv
  <2>1. sends \in [Workers -> BOOLEAN]
    BY Zenon DEF AllowanceInit
  <2> QED
    BY <2>1, Bounds DEF AllowanceInit, PassTyped, PassInv, Step, Busy
<1>3. FiguresInv
  BY DEF AllowanceInit, FiguresInv, FiguresOfTheirMonth
<1>4. AlertsInv
  BY DEF AllowanceInit, AlertsInv, AlertsAtMostOnce
<1>5. ClosingInv
  BY DEF AllowanceInit, ClosingInv, ShownMonthsAreClosed, Busy
<1> QED
  BY <1>1, <1>2, <1>3, <1>4, <1>5 DEF AllowanceInv, AllowanceTyped

\* A fault is counted.
LEMMA FaultCounted ==
  ASSUME RowsTyped, NEW k, Fault(k)
  PROVE  faults' \in 0..MaxTrouble
  BY Bounds DEF RowsTyped, Fault

-----------------------------------------------------------------------------
(* Time and Meta.                                                          *)

\* No pass looks at the clock after its first step.
LEMMA AllowanceInvMonthTurns ==
  ASSUME AllowanceInv, MonthTurns
  PROVE  AllowanceInv'
<1> USE DEF AllowanceInv, MonthTurns, orgVars, passVars, historyVars
<1>1. AllowanceTyped'
  <2>1. month' \in Months
    BY Bounds DEF AllowanceTyped, RowsTyped
  <2> QED
    BY <2>1 DEF AllowanceTyped, RowsTyped, PassTyped
<1>2. PassInv' /\ FiguresInv' /\ AlertsInv' /\ ClosingInv'
  BY DEF PassInv, FiguresInv, FiguresOfTheirMonth, AlertsInv, AlertsAtMostOnce, ClosingInv,
         ShownMonthsAreClosed, Busy
<1> QED
  BY <1>1, <1>2

\* A new figure joins those that Meta has reported; what was read before stays one of
\* them.
LEMMA AllowanceInvSync ==
  ASSUME AllowanceInv, NEW m \in Months, Sync(m)
  PROVE  AllowanceInv'
<1> USE DEF AllowanceInv, Sync, orgVars, passVars
<1>1. AllowanceTyped'
  <2>1. faults' \in 0..MaxTrouble
    BY FaultCounted DEF AllowanceTyped, RowsTyped
  <2>2. spend' \in [Months -> 0..MaxSpend] /\ reported' \in [Months -> SUBSET (0..MaxSpend)]
    BY DEF AllowanceTyped, RowsTyped
  <2> QED
    BY <2>1, <2>2 DEF AllowanceTyped, RowsTyped, PassTyped
<1>2. FiguresInv'
  BY Bounds
     DEF AllowanceTyped, RowsTyped, PassTyped, PassInv, FiguresInv, FiguresOfTheirMonth, Busy
<1>3. PassInv' /\ AlertsInv' /\ ClosingInv'
  BY DEF PassInv, AlertsInv, AlertsAtMostOnce, ClosingInv, ShownMonthsAreClosed, Busy
<1> QED
  BY <1>1, <1>2, <1>3

-----------------------------------------------------------------------------
(* One pass.                                                               *)

\* A pass that begins while another is in progress makes them overlap.
LEMMA AllowanceInvBegin ==
  ASSUME AllowanceInv, NEW w \in Workers, Begin(w)
  PROVE  AllowanceInv'
<1> USE DEF AllowanceInv, Begin, Goto, orgVars, passVars, historyVars
<1>1. AllowanceTyped'
  BY Bounds DEF AllowanceTyped, RowsTyped, PassTyped, PassInv, Step, Busy
<1>2. PassInv'
  BY Bounds DEF AllowanceTyped, RowsTyped, PassTyped, PassInv, Busy
<1>3. FiguresInv'
  BY Bounds
     DEF AllowanceTyped, RowsTyped, PassTyped, PassInv, FiguresInv, FiguresOfTheirMonth, Busy
<1>4. AlertsInv'
  BY DEF AllowanceTyped, RowsTyped, PassTyped, PassInv, AlertsInv, AlertsAtMostOnce, Busy
<1>5. ClosingInv'
  BY Bounds
     DEF AllowanceTyped, RowsTyped, PassTyped, PassInv, ClosingInv, ShownMonthsAreClosed, Busy
<1> QED
  BY <1>1, <1>2, <1>3, <1>4, <1>5

\* The month whose total is stored is the one to close, if it is another.
LEMMA AllowanceInvRead ==
  ASSUME AllowanceInv, NEW w \in Workers, Read(w)
  PROVE  AllowanceInv'
<1> USE DEF AllowanceInv, Read, Ended, Goto, orgVars, passVars, historyVars
<1>1. AllowanceTyped'
  <2>1. sends' \in [Workers -> BOOLEAN]
    BY Zenon DEF AllowanceTyped, RowsTyped, PassTyped
  <2>2. now' = now /\ sum' = sum /\ plan' = plan
    OBVIOUS
  <2>3. pc' \in [Workers -> Step] /\ ended' \in [Workers -> 0..MaxMonth]
    BY DEF AllowanceTyped, RowsTyped, PassTyped, Step
  <2> QED
    BY <2>1, <2>2, <2>3 DEF AllowanceTyped, RowsTyped, PassTyped
<1>2. PassInv'
  <2>1. \A v \in Workers : sends'[v] => enabled'
    BY Zenon DEF AllowanceTyped, RowsTyped, PassTyped, PassInv
  <2>2. now[w] \in Months
    BY DEF PassInv, Busy
  <2>3. ASSUME NEW v \in Workers PROVE v \in Busy' => v \in Busy
    BY DEF Busy, AllowanceTyped, PassTyped
  <2>4. ASSUME NEW v \in Workers
        PROVE  pc'[v] \in {"closing", "upserting"} => ended'[v] \in Months
    <3>1. totalOf # 0 => totalOf \in Months
      BY Bounds DEF AllowanceTyped, RowsTyped
    <3>2. CASE v = w
      BY <3>1, <3>2 DEF AllowanceTyped, PassTyped
    <3>3. CASE v # w
      BY <3>3 DEF AllowanceTyped, PassTyped, PassInv
    <3> QED
      BY <3>2, <3>3
  <2>5. \A v \in Workers : pc'[v] \in {"firing", "telling"} => plan'[v] # {}
    BY DEF AllowanceTyped, PassTyped, PassInv
  <2> QED
    BY <2>1, <2>3, <2>4, <2>5 DEF PassInv
<1>3. FiguresInv'
  BY Bounds
     DEF AllowanceTyped, RowsTyped, PassTyped, PassInv, FiguresInv, FiguresOfTheirMonth, Busy
<1>4. AlertsInv'
  BY DEF AllowanceTyped, RowsTyped, PassTyped, PassInv, AlertsInv, AlertsAtMostOnce, Busy
<1>5. ClosingInv'
  <2>1. Busy' = Busy
    BY DEF Busy, AllowanceTyped, PassTyped
  <2>2. \A v \in Workers \ {w} : pc'[v] = pc[v] /\ ended'[v] = ended[v]
    BY DEF AllowanceTyped, PassTyped
  <2>3. pc'[w] \in {"closing", "upserting"} => ended'[w] = totalOf
    BY DEF AllowanceTyped, PassTyped
  <2>4. pc'[w] \in {"summing", "storing"} => totalOf = 0 \/ totalOf = now[w]
    BY DEF AllowanceTyped, PassTyped
  <2> QED
    BY <2>1, <2>2, <2>3, <2>4 DEF ClosingInv, ShownMonthsAreClosed
<1> QED
  BY <1>1, <1>2, <1>3, <1>4, <1>5

\* The sum of the month to close is what Meta reports for it.
LEMMA AllowanceInvSumEnded ==
  ASSUME AllowanceInv, NEW w \in Workers, SumEnded(w)
  PROVE  AllowanceInv'
<1> USE DEF AllowanceInv, SumEnded, Aggregate, Goto, orgVars, passVars, historyVars
<1>1. AllowanceTyped'
  BY Bounds DEF AllowanceTyped, RowsTyped, PassTyped, PassInv, Step, Busy
<1>2. PassInv'
  BY Bounds DEF AllowanceTyped, RowsTyped, PassTyped, PassInv, Busy
<1>3. FiguresInv'
  BY Bounds
     DEF AllowanceTyped, RowsTyped, PassTyped, PassInv, FiguresInv, FiguresOfTheirMonth, Busy
<1>4. AlertsInv'
  BY DEF AllowanceTyped, RowsTyped, PassTyped, PassInv, AlertsInv, AlertsAtMostOnce, Busy
<1>5. ClosingInv'
  BY Bounds
     DEF AllowanceTyped, RowsTyped, PassTyped, PassInv, ClosingInv, ShownMonthsAreClosed, Busy
<1> QED
  BY <1>1, <1>2, <1>3, <1>4, <1>5

\* The sum of the month of the pass is what Meta reports for it.
LEMMA AllowanceInvSumCurrent ==
  ASSUME AllowanceInv, NEW w \in Workers, SumCurrent(w)
  PROVE  AllowanceInv'
<1> USE DEF AllowanceInv, SumCurrent, Aggregate, Goto, orgVars, passVars, historyVars
<1>1. AllowanceTyped'
  BY Bounds DEF AllowanceTyped, RowsTyped, PassTyped, PassInv, Step, Busy
<1>2. PassInv'
  BY Bounds DEF AllowanceTyped, RowsTyped, PassTyped, PassInv, Busy
<1>3. FiguresInv'
  BY Bounds
     DEF AllowanceTyped, RowsTyped, PassTyped, PassInv, FiguresInv, FiguresOfTheirMonth, Busy
<1>4. AlertsInv'
  BY DEF AllowanceTyped, RowsTyped, PassTyped, PassInv, AlertsInv, AlertsAtMostOnce, Busy
<1>5. ClosingInv'
  BY Bounds
     DEF AllowanceTyped, RowsTyped, PassTyped, PassInv, ClosingInv, ShownMonthsAreClosed, Busy
<1> QED
  BY <1>1, <1>2, <1>3, <1>4, <1>5

\* The ledger row is the sum of its month, whoever wrote it before.
LEMMA AllowanceInvCloseMonth ==
  ASSUME AllowanceInv, NEW w \in Workers, CloseMonth(w)
  PROVE  AllowanceInv'
<1> USE DEF AllowanceInv, CloseMonth, LedgerRow, Goto, orgVars, passVars, historyVars
<1>1. AllowanceTyped'
  <2>1. sum[w] \in 0..MaxSpend /\ ended[w] \in Months
    BY DEF AllowanceTyped, PassTyped, PassInv
  <2>2. ledger' \in [Months -> SUBSET (0..MaxSpend)]
    BY <2>1 DEF AllowanceTyped, RowsTyped
  <2>3. \A m \in Months : ledger'[m] = {} \/ \E a \in 0..MaxSpend : ledger'[m] = {a}
    BY <2>1 DEF AllowanceTyped, RowsTyped
  <2>4. PassTyped'
    BY Bounds DEF AllowanceTyped, PassTyped, Step
  <2> QED
    BY <2>2, <2>3, <2>4 DEF AllowanceTyped, RowsTyped
<1>2. PassInv'
  BY Bounds DEF AllowanceTyped, RowsTyped, PassTyped, PassInv, Busy
<1>3. FiguresInv'
  BY Bounds
     DEF AllowanceTyped, RowsTyped, PassTyped, PassInv, FiguresInv, FiguresOfTheirMonth, Busy
<1>4. AlertsInv'
  BY DEF AllowanceTyped, RowsTyped, PassTyped, PassInv, AlertsInv, AlertsAtMostOnce, Busy
<1>5. ClosingInv'
  <2>1. Busy' = Busy
    BY DEF Busy, AllowanceTyped, PassTyped
  <2>2. ASSUME ~ overlap, NEW v \in Workers
        PROVE  /\ pc'[v] \in {"closing", "upserting"} => ended'[v] = totalOf
               /\ pc'[v] \in {"summing", "storing"} =>
                    totalOf = 0 \/ totalOf = now'[v] \/ ledger'[totalOf] # {}
    <3>1. v = w \/ v \notin Busy
      BY <2>2 DEF ClosingInv, Busy
    <3>2. ended[w] = totalOf /\ totalOf \in Months
      BY <2>2 DEF ClosingInv, PassInv
    <3>3. CASE v = w
      BY <3>2, <3>3 DEF AllowanceTyped, RowsTyped, PassTyped
    <3>4. CASE v # w
      BY <3>1, <3>4 DEF Busy, AllowanceTyped, PassTyped
    <3> QED
      BY <3>3, <3>4
  <2>3. \A m \in Months : ledger[m] # {} => ledger'[m] # {}
    BY DEF AllowanceTyped, RowsTyped
  <2>4. ShownMonthsAreClosed'
    BY <2>3 DEF ClosingInv, ShownMonthsAreClosed, AllowanceTyped, RowsTyped
  <2> QED
    BY <2>1, <2>2, <2>4 DEF ClosingInv
<1> QED
  BY <1>1, <1>2, <1>3, <1>4, <1>5

\* The total moves to the month of the pass; the one before has its ledger row by now.
LEMMA AllowanceInvStore ==
  ASSUME AllowanceInv, NEW w \in Workers, Store(w)
  PROVE  AllowanceInv'
<1> USE DEF AllowanceInv, Store, NewTotal, Goto, orgVars, passVars, historyVars
<1>1. AllowanceTyped'
  BY Bounds DEF AllowanceTyped, RowsTyped, PassTyped, PassInv, Step, Busy
<1>2. PassInv'
  BY Bounds DEF AllowanceTyped, RowsTyped, PassTyped, PassInv, Busy
<1>3. FiguresInv'
  BY Bounds
     DEF AllowanceTyped, RowsTyped, PassTyped, PassInv, FiguresInv, FiguresOfTheirMonth, Busy
<1>4. AlertsInv'
  BY DEF AllowanceTyped, RowsTyped, PassTyped, PassInv, AlertsInv, AlertsAtMostOnce, Busy
<1>5. ClosingInv'
  <2>1. Busy' = Busy /\ now[w] \in Months
    BY DEF Busy, AllowanceTyped, PassTyped, PassInv
  <2>2. ASSUME ~ overlap, NEW v \in Workers
        PROVE  pc'[v] \notin {"closing", "upserting", "summing", "storing"}
    BY <2>2 DEF ClosingInv, Busy, AllowanceTyped, PassTyped
  <2>3. ShownMonthsAreClosed'
    BY DEF ClosingInv, ShownMonthsAreClosed, Busy
  <2>4. recorded' \cap {0} = {}
    BY <2>1, Bounds DEF ClosingInv
  <2> QED
    BY <2>1, <2>2, <2>3, <2>4 DEF ClosingInv
<1> QED
  BY <1>1, <1>2, <1>3, <1>4, <1>5

\* A worker that is started again has no pass.
LEMMA AllowanceInvRestart ==
  ASSUME AllowanceInv, NEW w \in Workers, Restart(w)
  PROVE  AllowanceInv'
<1> USE DEF AllowanceInv, Restart, Goto, orgVars, passVars, historyVars
<1>1. AllowanceTyped'
  BY Bounds DEF AllowanceTyped, RowsTyped, PassTyped, PassInv, Step, Busy
<1>2. PassInv'
  BY Bounds DEF AllowanceTyped, RowsTyped, PassTyped, PassInv, Busy
<1>3. FiguresInv'
  BY Bounds
     DEF AllowanceTyped, RowsTyped, PassTyped, PassInv, FiguresInv, FiguresOfTheirMonth, Busy
<1>4. AlertsInv'
  BY DEF AllowanceTyped, RowsTyped, PassTyped, PassInv, AlertsInv, AlertsAtMostOnce, Busy
<1>5. ClosingInv'
  BY Bounds
     DEF AllowanceTyped, RowsTyped, PassTyped, PassInv, ClosingInv, ShownMonthsAreClosed, Busy
<1> QED
  BY <1>1, <1>2, <1>3, <1>4, <1>5

-----------------------------------------------------------------------------
(* The alerts, and the ends of passes.                                     *)

\* The other passes are where they were.
Others(w) ==
  \A v \in Workers \ {w} :
    /\ pc'[v] = pc[v]
    /\ now'[v] = now[v]
    /\ ended'[v] = ended[v]
    /\ sends'[v] = sends[v]
    /\ sum'[v] = sum[v]
    /\ plan'[v] = plan[v]

\* The pass of w is over, or has thresholds left to announce.
OverOrFiring(w) ==
  /\ \/ pc'[w] \in {"idle", "down"}
     \/ pc'[w] \in {"firing", "telling"} /\ w \in Busy /\ plan'[w] # {} /\ now'[w] = now[w]
  /\ sends'[w] => sends[w]

\* A pass that is left forgets everything.
LEMMA LeaveEnds ==
  ASSUME PassTyped, NEW w \in Workers, NEW step \in {"idle", "down"}, Leave(w, step)
  PROVE  PassTyped' /\ Others(w) /\ OverOrFiring(w) /\ pc'[w] # "telling"
<1>1. sends' \in [Workers -> BOOLEAN] /\ sends'[w] = FALSE
  BY Zenon DEF PassTyped, Leave
<1>2. pc' \in [Workers -> Step] /\ pc'[w] = step
  BY DEF PassTyped, Leave, Goto, Step
<1>3. /\ now' \in [Workers -> 0..MaxMonth]
      /\ ended' \in [Workers -> 0..MaxMonth]
      /\ sum' \in [Workers -> 0..MaxSpend]
      /\ plan' \in [Workers -> SUBSET Thresholds]
  BY Bounds DEF PassTyped, Leave
<1>4. Others(w)
  BY DEF PassTyped, Leave, Goto, Others
<1> QED
  BY <1>1, <1>2, <1>3, <1>4 DEF PassTyped, OverOrFiring

\* After an alert the pass goes on to the next one, or ends.
LEMMA OnwardEnds ==
  ASSUME PassTyped, NEW w \in Workers, pc[w] \in {"firing", "telling"}, plan[w] # {}, Onward(w)
  PROVE  PassTyped' /\ Others(w) /\ OverOrFiring(w) /\ pc'[w] # "telling"
<1>1. CASE plan[w] = {Lowest(plan[w])}
  BY <1>1, LeaveEnds DEF Onward
<1>2. CASE plan[w] # {Lowest(plan[w])}
  <2>1. /\ plan' = [plan EXCEPT ![w] = @ \ {Lowest(@)}]
        /\ pc' = [pc EXCEPT ![w] = "firing"]
        /\ UNCHANGED <<now, ended, sends, sum>>
    BY <1>2 DEF Onward, Goto
  <2>2. plan[w] \ {Lowest(plan[w])} # {}
    BY <1>2
  <2>3. PassTyped'
    BY <2>1 DEF PassTyped, Step
  <2>4. Others(w)
    BY <2>1 DEF PassTyped, Others
  <2>5. OverOrFiring(w) /\ pc'[w] # "telling"
    BY <2>1, <2>2 DEF PassTyped, OverOrFiring, Busy
  <2> QED
    BY <2>3, <2>4, <2>5
<1> QED
  BY <1>1, <1>2

\* Neither disturbs the figures or the closing of months.
LEMMA EndKeepsInv ==
  ASSUME AllowanceInv, NEW w \in Workers, RowsTyped', PassTyped', Others(w), OverOrFiring(w),
         AlertsInv',
         UNCHANGED <<spend, total, totalOf, ledger, enabled, reported, recorded, overlap>>
  PROVE  AllowanceInv'
<1>1. \A v \in Workers : v \in Busy' => v \in Busy
  BY DEF Others, OverOrFiring, Busy
<1>2. PassInv'
  <2>1. ASSUME NEW v \in Workers \ {w}
        PROVE  /\ v \in Busy' => now'[v] \in Months
               /\ pc'[v] \in {"closing", "upserting"} => ended'[v] \in Months
               /\ pc'[v] \in {"firing", "telling"} => plan'[v] # {}
               /\ sends'[v] => enabled'
    BY <1>1 DEF Others, AllowanceInv, PassInv
  <2>2. /\ w \in Busy' => now'[w] \in Months
        /\ pc'[w] \in {"closing", "upserting"} => ended'[w] \in Months
        /\ pc'[w] \in {"firing", "telling"} => plan'[w] # {}
        /\ sends'[w] => enabled'
    BY DEF OverOrFiring, Busy, AllowanceInv, PassInv
  <2> QED
    BY <2>1, <2>2 DEF PassInv
<1>3. FiguresInv'
  BY DEF Others, OverOrFiring, AllowanceInv, FiguresInv, FiguresOfTheirMonth
<1>4. ClosingInv'
  <2>1. ~ overlap => \A u, v \in Busy' : u = v
    BY <1>1 DEF AllowanceInv, ClosingInv, Busy
  <2>2. ~ overlap => \A v \in Workers :
          /\ pc'[v] \in {"closing", "upserting"} => ended'[v] = totalOf
          /\ pc'[v] \in {"summing", "storing"} =>
               totalOf = 0 \/ totalOf = now'[v] \/ ledger[totalOf] # {}
    BY DEF Others, OverOrFiring, AllowanceInv, ClosingInv
  <2> QED
    BY <2>1, <2>2 DEF AllowanceInv, ClosingInv, ShownMonthsAreClosed
<1> QED
  BY <1>2, <1>3, <1>4 DEF AllowanceInv, AllowanceTyped

\* Nothing new is told to anybody by the end of a pass.
LEMMA EndKeepsAlerts ==
  ASSUME AllowanceInv, NEW w \in Workers, Others(w), pc'[w] # "telling",
         UNCHANGED <<told, enabled>>, RowsTyped',
         \A m \in Months : alerted[m] \subseteq alerted'[m]
  PROVE  AlertsInv'
<1>1. \A v \in Workers :
        pc'[v] = "telling" =>
          /\ v # w /\ pc[v] = "telling" /\ now'[v] = now[v] /\ plan'[v] = plan[v]
          /\ sends'[v] = sends[v] /\ now[v] \in Months
  BY DEF Others, AllowanceInv, PassInv, Busy
<1>2. \A v \in Workers :
        pc'[v] = "telling" =>
          /\ sends'[v]
          /\ Lowest(plan'[v]) \in alerted'[now'[v]]
          /\ told'[now'[v]][Lowest(plan'[v])] = 0
  BY <1>1 DEF AllowanceInv, AlertsInv
<1>3. \A v, x \in Workers :
        pc'[v] = "telling" /\ pc'[x] = "telling" /\ now'[v] = now'[x]
        /\ Lowest(plan'[v]) = Lowest(plan'[x]) => v = x
  BY <1>1 DEF AllowanceInv, AlertsInv
<1>4. AlertsAtMostOnce'
  <2>1. ASSUME NEW m \in Months, NEW t \in Thresholds
        PROVE  told'[m][t] <= (IF t \in alerted'[m] /\ enabled' THEN 1 ELSE 0)
    BY DEF AllowanceInv, AlertsInv, AlertsAtMostOnce, AllowanceTyped, RowsTyped
  <2> QED
    BY <2>1 DEF AlertsAtMostOnce
<1> QED
  BY <1>2, <1>3, <1>4 DEF AlertsInv

\* A pass whose thresholds all have their record ends; another starts firing.
LEMMA AllowanceInvPlan ==
  ASSUME AllowanceInv, NEW w \in Workers, Plan(w)
  PROVE  AllowanceInv'
<1> DEFINE fresh == {t \in Thresholds : t <= sum[w]} \ alerted[now[w]]
<1>1. /\ pc[w] = "planning"
      /\ UNCHANGED <<month, spend, total, totalOf, ledger, alerted, enabled, reported, told,
                     recorded, overlap, faults>>
  BY DEF Plan, orgVars, historyVars
<1>2. AllowanceTyped /\ RowsTyped'
  BY <1>1 DEF AllowanceInv, AllowanceTyped, RowsTyped
<1>3. PassTyped' /\ Others(w) /\ OverOrFiring(w) /\ pc'[w] # "telling"
  <2>1. CASE fresh = {}
    <3>1. Leave(w, "idle")
      BY <2>1 DEF Plan
    <3> QED
      BY <3>1, <1>2, LeaveEnds DEF AllowanceTyped
  <2>2. CASE fresh # {}
    <3>1. /\ plan' = [plan EXCEPT ![w] = fresh]
          /\ sum' = [sum EXCEPT ![w] = 0]
          /\ pc' = [pc EXCEPT ![w] = "firing"]
          /\ UNCHANGED <<now, ended, sends>>
      BY <2>2 DEF Plan, Goto
    <3>2. fresh \subseteq Thresholds
      OBVIOUS
    <3> HIDE DEF fresh
    <3>3. PassTyped'
      BY <3>1, <3>2, <1>2, Bounds DEF AllowanceTyped, PassTyped, Step
    <3>4. Others(w)
      BY <3>1, <1>2 DEF AllowanceTyped, PassTyped, Others
    <3>5. OverOrFiring(w) /\ pc'[w] # "telling"
      BY <3>1, <2>2, <1>1, <1>2 DEF AllowanceTyped, PassTyped, OverOrFiring, Busy
    <3> QED
      BY <3>3, <3>4, <3>5
  <2> QED
    BY <2>1, <2>2
<1>4. AlertsInv'
  BY <1>1, <1>2, <1>3, EndKeepsAlerts
<1> QED
  BY <1>1, <1>2, <1>3, <1>4, EndKeepsInv

\* The worker whose insert of the record succeeds is the only one to tell; all others
\* skip the alert.
LEMMA AllowanceInvFire ==
  ASSUME AllowanceInv, NEW w \in Workers, Fire(w)
  PROVE  AllowanceInv'
<1> DEFINE t == Lowest(plan[w])
<1>1. /\ pc[w] = "firing"
      /\ alerted' = [alerted EXCEPT ![now[w]] = @ \cup {t}]
      /\ UNCHANGED <<month, spend, total, totalOf, ledger, enabled, reported, told, recorded,
                     overlap, faults>>
  BY DEF Fire, historyVars
<1>2. now[w] \in Months /\ plan[w] # {} /\ t \in plan[w] /\ t \in Thresholds
  BY <1>1, LowestMember DEF AllowanceInv, AllowanceTyped, PassTyped, PassInv, Busy
<1> HIDE DEF t
<1>3. AllowanceTyped /\ RowsTyped'
  BY <1>1, <1>2 DEF AllowanceInv, AllowanceTyped, RowsTyped
<1>4. /\ \A m \in Months : alerted[m] \subseteq alerted'[m]
      /\ t \in alerted'[now[w]]
  BY <1>1, <1>2, <1>3 DEF AllowanceTyped, RowsTyped
<1>5. CASE Announce(w, t)
  <2>1. /\ pc' = [pc EXCEPT ![w] = "telling"]
        /\ UNCHANGED <<now, ended, sends, sum, plan>>
    BY <1>5 DEF Fire, Goto, passVars, t
  <2>2. PassTyped'
    BY <2>1, <1>3 DEF AllowanceTyped, PassTyped, Step
  <2>3. Others(w)
    BY <2>1, <1>3 DEF AllowanceTyped, PassTyped, Others
  <2>4. OverOrFiring(w)
    BY <2>1, <1>1, <1>2, <1>3 DEF AllowanceTyped, PassTyped, OverOrFiring, Busy
  <2>5. sends[w] /\ t \notin alerted[now[w]]
    BY <1>5 DEF Announce
  <2>6. told[now[w]][t] = 0
    BY <2>5, <1>2, <1>3
       DEF AllowanceInv, AlertsInv, AlertsAtMostOnce, AllowanceTyped, RowsTyped
  <2>7. \A v \in Workers : pc'[v] = "telling" /\ v # w =>
          pc[v] = "telling" /\ now[v] \in Months /\ Lowest(plan[v]) \in alerted[now[v]]
    BY <2>1, <1>3 DEF AllowanceInv, AllowanceTyped, PassTyped, PassInv, AlertsInv, Busy
  <2>8. \A v \in Workers :
          pc'[v] = "telling" =>
            /\ sends'[v]
            /\ Lowest(plan'[v]) \in alerted'[now'[v]]
            /\ told'[now'[v]][Lowest(plan'[v])] = 0
    <3>1. ASSUME NEW v \in Workers, pc'[v] = "telling", v = w
          PROVE  /\ sends'[v]
                 /\ Lowest(plan'[v]) \in alerted'[now'[v]]
                 /\ told'[now'[v]][Lowest(plan'[v])] = 0
      BY <3>1, <2>1, <2>5, <2>6, <1>1, <1>4 DEF t
    <3>2. ASSUME NEW v \in Workers, pc'[v] = "telling", v # w
          PROVE  /\ sends'[v]
                 /\ Lowest(plan'[v]) \in alerted'[now'[v]]
                 /\ told'[now'[v]][Lowest(plan'[v])] = 0
      BY <3>2, <2>1, <2>7, <1>1, <1>4 DEF AllowanceInv, AlertsInv
    <3> QED
      BY <3>1, <3>2
  <2>9. \A v, x \in Workers :
          pc'[v] = "telling" /\ pc'[x] = "telling" /\ now'[v] = now'[x]
          /\ Lowest(plan'[v]) = Lowest(plan'[x]) => v = x
    BY <2>1, <2>5, <2>7 DEF AllowanceInv, AlertsInv, t
  <2>10. AlertsAtMostOnce'
    <3>1. ASSUME NEW m \in Months, NEW u \in Thresholds
          PROVE  told'[m][u] <= (IF u \in alerted'[m] /\ enabled' THEN 1 ELSE 0)
      BY <1>1, <1>3, <1>4
         DEF AllowanceInv, AlertsInv, AlertsAtMostOnce, AllowanceTyped, RowsTyped
    <3> QED
      BY <3>1 DEF AlertsAtMostOnce
  <2>11. AlertsInv'
    BY <2>8, <2>9, <2>10 DEF AlertsInv
  <2> QED
    BY <1>1, <1>3, <2>2, <2>3, <2>4, <2>11, EndKeepsInv
<1>6. CASE ~ Announce(w, t)
  <2>1. Onward(w)
    BY <1>6 DEF Fire, t
  <2>2. PassTyped' /\ Others(w) /\ OverOrFiring(w) /\ pc'[w] # "telling"
    BY <2>1, <1>1, <1>2, <1>3, OnwardEnds DEF AllowanceTyped
  <2>3. AlertsInv'
    BY <1>1, <1>3, <1>4, <2>2, EndKeepsAlerts
  <2> QED
    BY <1>1, <1>3, <2>2, <2>3, EndKeepsInv
<1> QED
  BY <1>5, <1>6

\* The one worker that may tell a client of a threshold does so once.
LEMMA AllowanceInvTell ==
  ASSUME AllowanceInv, NEW w \in Workers, Tell(w)
  PROVE  AllowanceInv'
<1> DEFINE t == Lowest(plan[w])
<1>1. /\ pc[w] = "telling"
      /\ UNCHANGED <<month, spend, total, totalOf, ledger, alerted, enabled, reported, recorded,
                     overlap>>
      /\ told' = [told EXCEPT ![now[w]][t] = @ + 1] \/ UNCHANGED told
      /\ Onward(w) \/ Leave(w, "idle")
      /\ UNCHANGED faults \/ Fault("mail") \/ Fault("write")
  BY DEF Tell, orgVars
<1>2. now[w] \in Months /\ plan[w] # {} /\ t \in Thresholds /\ t \in alerted[now[w]] /\ enabled
      /\ told[now[w]][t] = 0
  BY <1>1, LowestMember DEF AllowanceInv, AllowanceTyped, PassTyped, PassInv, AlertsInv, Busy
<1>3. PassTyped' /\ Others(w) /\ OverOrFiring(w) /\ pc'[w] # "telling"
  BY <1>1, <1>2, OnwardEnds, LeaveEnds DEF AllowanceInv, AllowanceTyped
<1> HIDE DEF t
<1>4. RowsTyped'
  <2>1. faults' \in 0..MaxTrouble
    BY <1>1, FaultCounted DEF AllowanceInv, AllowanceTyped, RowsTyped
  <2>2. told' \in [Months -> [Thresholds -> Nat]]
    <3>1. told \in [Months -> [Thresholds -> Nat]]
      BY DEF AllowanceInv, AllowanceTyped, RowsTyped
    <3>2. [told[now[w]] EXCEPT ![t] = @ + 1] \in [Thresholds -> Nat]
      BY <1>2, <3>1
    <3> QED
      BY <1>1, <1>2, <3>1, <3>2
  <2> QED
    BY <1>1, <2>1, <2>2 DEF AllowanceInv, AllowanceTyped, RowsTyped
<1>5. CASE UNCHANGED told
  <2>1. AlertsInv'
    BY <1>1, <1>3, <1>4, <1>5, EndKeepsAlerts
  <2> QED
    BY <1>1, <1>3, <1>4, <2>1, EndKeepsInv
<1>6. CASE told' = [told EXCEPT ![now[w]][t] = @ + 1]
  <2>1. told'[now[w]][t] = 1
    BY <1>2, <1>6 DEF AllowanceInv, AllowanceTyped, RowsTyped
  <2>2. \A m \in Months, u \in Thresholds :
          m # now[w] \/ u # t => told'[m][u] = told[m][u]
    BY <1>2, <1>6 DEF AllowanceInv, AllowanceTyped, RowsTyped
  <2>3. \A v \in Workers :
          pc'[v] = "telling" =>
            /\ v # w /\ pc[v] = "telling" /\ now'[v] = now[v] /\ plan'[v] = plan[v]
            /\ sends'[v] = sends[v] /\ now[v] \in Months /\ Lowest(plan[v]) \in Thresholds
    <3>1. ASSUME NEW v \in Workers, pc'[v] = "telling"
          PROVE  /\ v # w /\ pc[v] = "telling" /\ now'[v] = now[v] /\ plan'[v] = plan[v]
                 /\ sends'[v] = sends[v] /\ now[v] \in Months
      BY <3>1, <1>3 DEF Others, AllowanceInv, PassInv, Busy
    <3>2. ASSUME NEW v \in Workers, pc'[v] = "telling"
          PROVE  Lowest(plan[v]) \in Thresholds
      BY <3>1, <3>2, LowestMember DEF AllowanceInv, AllowanceTyped, PassTyped, PassInv
    <3> QED
      BY <3>1, <3>2
  <2>4. \A v \in Workers :
          pc'[v] = "telling" => now[v] # now[w] \/ Lowest(plan[v]) # t
    BY <2>3, <1>1 DEF AllowanceInv, AlertsInv, t
  <2>5. \A v \in Workers :
          pc'[v] = "telling" =>
            /\ sends'[v]
            /\ Lowest(plan'[v]) \in alerted'[now'[v]]
            /\ told'[now'[v]][Lowest(plan'[v])] = 0
    BY <1>1, <2>2, <2>3, <2>4 DEF AllowanceInv, AlertsInv
  <2>6. \A v, x \in Workers :
          pc'[v] = "telling" /\ pc'[x] = "telling" /\ now'[v] = now'[x]
          /\ Lowest(plan'[v]) = Lowest(plan'[x]) => v = x
    BY <2>3 DEF AllowanceInv, AlertsInv
  <2>7. AlertsAtMostOnce'
    <3>1. ASSUME NEW m \in Months, NEW u \in Thresholds
          PROVE  told'[m][u] <= (IF u \in alerted'[m] /\ enabled' THEN 1 ELSE 0)
      <4>1. CASE m = now[w] /\ u = t
        BY <4>1, <1>1, <1>2, <2>1
      <4>2. CASE ~ (m = now[w] /\ u = t)
        BY <4>2, <1>1, <2>2 DEF AllowanceInv, AlertsInv, AlertsAtMostOnce
      <4> QED
        BY <4>1, <4>2
    <3> QED
      BY <3>1 DEF AlertsAtMostOnce
  <2>8. AlertsInv'
    BY <2>5, <2>6, <2>7 DEF AlertsInv
  <2> QED
    BY <1>1, <1>3, <1>4, <2>8, EndKeepsInv
<1> QED
  BY <1>1, <1>5, <1>6

\* A failed statement ends the pass, and so does the end of the process.
LEMMA AllowanceInvAbandon ==
  ASSUME AllowanceInv, NEW w \in Workers, Throw(w) \/ Crash(w)
  PROVE  AllowanceInv'
<1>1. /\ UNCHANGED <<month, spend, total, totalOf, ledger, alerted, enabled, reported, told,
                     recorded, overlap>>
      /\ Leave(w, "idle") \/ Leave(w, "down")
      /\ Fault("write") \/ Fault("crash")
  BY DEF Throw, Crash, orgVars, historyVars
<1>2. RowsTyped'
  <2>1. faults' \in 0..MaxTrouble
    BY <1>1, FaultCounted DEF AllowanceInv, AllowanceTyped
  <2> QED
    BY <1>1, <2>1 DEF AllowanceInv, AllowanceTyped, RowsTyped
<1>3. PassTyped' /\ Others(w) /\ OverOrFiring(w) /\ pc'[w] # "telling"
  BY <1>1, LeaveEnds DEF AllowanceInv, AllowanceTyped
<1>4. AlertsInv'
  BY <1>1, <1>2, <1>3, EndKeepsAlerts
<1> QED
  BY <1>1, <1>2, <1>3, <1>4, EndKeepsInv

-----------------------------------------------------------------------------
(* Every behaviour.                                                        *)

\* Every step keeps the invariant.
LEMMA AllowanceInvStep == AllowanceInv /\ [AllowanceNext]_allowanceVars => AllowanceInv'
<1> SUFFICES ASSUME AllowanceInv, [AllowanceNext]_allowanceVars PROVE AllowanceInv'
  OBVIOUS
<1>1. CASE MonthTurns
  BY <1>1, AllowanceInvMonthTurns
<1>2. CASE \E m \in Months : Sync(m)
  BY <1>2, AllowanceInvSync
<1>3. CASE \E w \in Workers : Reconcile(w) \/ Crash(w)
  <2> PICK w \in Workers : Reconcile(w) \/ Crash(w)
    BY <1>3
  <2> QED
    BY AllowanceInvBegin, AllowanceInvRead, AllowanceInvSumEnded, AllowanceInvCloseMonth,
       AllowanceInvSumCurrent, AllowanceInvStore, AllowanceInvPlan, AllowanceInvFire,
       AllowanceInvTell, AllowanceInvAbandon, AllowanceInvRestart
    DEF Reconcile
<1>4. CASE UNCHANGED allowanceVars
  <2> USE <1>4 DEF allowanceVars, orgVars, passVars, historyVars
  <2>1. AllowanceTyped'
    BY DEF AllowanceInv, AllowanceTyped, RowsTyped, PassTyped
  <2>2. PassInv' /\ FiguresInv' /\ AlertsInv' /\ ClosingInv'
    BY DEF AllowanceInv, PassInv, FiguresInv, FiguresOfTheirMonth, AlertsInv, AlertsAtMostOnce,
           ClosingInv, ShownMonthsAreClosed, Busy
  <2> QED
    BY <2>1, <2>2 DEF AllowanceInv
<1> QED
  BY <1>1, <1>2, <1>3, <1>4 DEF AllowanceNext

\* The invariant holds in every state.
LEMMA AllowanceInvAlways == AllowanceSpec => []AllowanceInv
BY AllowanceInvInit, AllowanceInvStep, PTL DEF AllowanceSpec

\* Every variable keeps its type, and a month has at most one ledger row.
THEOREM AllowanceTypeCorrect == AllowanceSpec => []AllowanceTypeOK
<1>1. AllowanceInv => AllowanceTypeOK
  <2> SUFFICES ASSUME AllowanceInv PROVE AllowanceTypeOK
    OBVIOUS
  <2>1. ASSUME NEW m \in Months PROVE Cardinality(ledger[m]) <= 1
    <3>1. CASE ledger[m] = {}
      BY <3>1, FS_EmptySet
    <3>2. CASE \E a \in 0..MaxSpend : ledger[m] = {a}
      BY <3>2, FS_Singleton
    <3> QED
      BY <3>1, <3>2 DEF AllowanceInv, AllowanceTyped, RowsTyped
  <2> QED
    BY <2>1 DEF AllowanceInv, AllowanceTyped, RowsTyped, PassTyped, AllowanceTypeOK
<1> QED
  BY <1>1, AllowanceInvAlways, PTL

\* However many workers race for an alert, crash at it or fail behind it, a client hears
\* of a threshold once a month at most (allowance-alerts.ts, fireAllowanceAlerts).
THEOREM AlertedOnce == AllowanceSpec => []AlertsAtMostOnce
<1>1. AllowanceInv => AlertsAtMostOnce
  BY DEF AllowanceInv, AlertsInv
<1> QED
  BY <1>1, AllowanceInvAlways, PTL

\* No figure mixes two months or counts a restated day twice, whatever passes interleave
\* (allowance-accumulator.ts, reconcileOrg).
THEOREM FiguresAreReported == AllowanceSpec => []FiguresOfTheirMonth
<1>1. AllowanceInv => FiguresOfTheirMonth
  BY DEF AllowanceInv, FiguresInv
<1> QED
  BY <1>1, AllowanceInvAlways, PTL

\* While no two passes overlap, no month whose total was shown is left without its ledger
\* row (allowance-accumulator.ts, closeMonth).
THEOREM MonthsAreClosed == AllowanceSpec => []ShownMonthsAreClosed
<1>1. AllowanceInv => ShownMonthsAreClosed
  BY DEF AllowanceInv, ClosingInv
<1> QED
  BY <1>1, AllowanceInvAlways, PTL

-----------------------------------------------------------------------------
(* The review queue.                                                         *)

\* Request r is about asset a, and does op.
BusyWith(r, op, a) == Doing(r, op) /\ request[r].on = a

\* It has a drawing of the asset in progress, or the report of one that failed.
Draws(r, a) == BusyWith(r, "draw", a) \/ BusyWith(r, "force", a) \/ BusyWith(r, "failing", a)

AssetTypes ==
  /\ kind \in [Assets -> {"absent", "copy", "artwork"}]
  /\ status \in [Assets -> Status]
  /\ deleted \subseteq Assets
  /\ words \in [Assets -> Nat]
  /\ media \in [Assets -> Url \cup {Nothing}]
  /\ offered \in [Assets -> SUBSET Url]

DrawTypes ==
  /\ file \in [Assets -> [Variants -> Nat]]
  /\ todo \in [Requests -> SUBSET Variants]
  /\ landed \in [Requests -> SUBSET Variants]

RequestTypes == request \in [Requests -> ReviewRequest \cup {Nothing}]

PostTypes ==
  /\ gallery \subseteq Url
  /\ posts \in [Assets -> Seq(AssetPost)]
  /\ shown \in [Assets -> SUBSET Shot]

ApprovalTypes ==
  /\ approvals \in [Assets -> Nat]
  /\ vetted \in [Assets -> [words : SUBSET Nat, pictures : SUBSET Shot]]

MarkTypes ==
  /\ drawings \in [Assets -> Nat]
  /\ forced \cup instructed \cup bulked \subseteq Assets
  /\ crossed \in [Assets -> SUBSET Crossing]
  /\ trouble \in 0..MaxReviewTrouble

\* The type invariant is that of its parts.
LEMMA ReviewTypeParts ==
  ReviewTypeOK <=> /\ AssetTypes /\ DrawTypes /\ RequestTypes /\ PostTypes /\ ApprovalTypes
                   /\ MarkTypes
  BY DEF ReviewTypeOK, AssetTypes, DrawTypes, RequestTypes, PostTypes, ApprovalTypes, MarkTypes

\* The handlers of a request, one by one, and the rest of the next-state relation.
LEMMA ReviewTypeNextParts ==
  ASSUME (AssetTypes /\ DrawTypes /\ RequestTypes /\ PostTypes /\ ApprovalTypes /\ MarkTypes)'
  PROVE  ReviewTypeOK'
  BY DEF ReviewTypeOK, AssetTypes, DrawTypes, RequestTypes, PostTypes, ApprovalTypes, MarkTypes

\* A change of the operation, or of the picture, leaves a request one.
LEMMA OpChanged ==
  ASSUME NEW q \in ReviewRequest, NEW op \in Op \ {"keep"}, NEW url \in Url \cup {Nothing}
  PROVE  /\ [q EXCEPT !.op = op] \in ReviewRequest
         /\ [q EXCEPT !.op = op, !.media = url] \in ReviewRequest
  BY DEF ReviewRequest

\* An address shows a picture.
LEMMA PictureTyped ==
  ASSUME DrawTypes, NEW url \in Url
  PROVE  Picture(url) \in Shot
<1>1. CASE url = Library
  BY <1>1 DEF Picture, Shot
<1>2. CASE url \in Assets \X Variants
  <2>1. url[1] \in Assets /\ url[2] \in Variants
    BY <1>2
  <2>2. file[url[1]][url[2]] \in Nat
    BY <2>1 DEF DrawTypes
  <2> QED
    BY <2>2 DEF Picture, Shot
<1> QED
  BY <1>1, <1>2 DEF Url

\* The pictures of an asset are at addresses there are.
LEMMA FacesTyped ==
  ASSUME AssetTypes, DrawTypes, NEW a \in Assets
  PROVE  Faces(a) \subseteq Url /\ Pictures(a) \subseteq Shot
<1>1. Faces(a) \subseteq Url
  BY DEF Faces, AssetTypes
<1> QED
  BY <1>1, PictureTyped DEF Pictures

\* What a request finds is of its type.
LEMMA FoundTyped ==
  ASSUME AssetTypes, DrawTypes, MarkTypes, NEW op \in Op \ {"keep"}, NEW a \in Assets
  PROVE  Found(op, a) \in ReviewRequest
<1>1. Pictures(a) \subseteq Shot
  BY FacesTyped
<1>2. (IF op \in {"draw", "force"} THEN drawings[a] + 1 ELSE 0) \in Nat
  BY DEF MarkTypes
<1>3. /\ status[a] \in Status /\ words[a] \in Nat /\ media[a] \in Url \cup {Nothing}
      /\ (IF op = "choose" THEN offered[a] ELSE {}) \subseteq Url
  BY DEF AssetTypes
<1> QED
  BY <1>1, <1>2, <1>3 DEF Found, ReviewRequest

\* So is what a keep finds.
LEMMA FoundKeptTyped ==
  ASSUME AssetTypes, DrawTypes, NEW url \in Url, NEW a \in Assets
  PROVE  FoundKept(a, url) \in ReviewRequest
<1>1. {Picture(url)} \subseteq Shot
  BY PictureTyped
<1>2. url # Nothing
  BY ReviewAssumption DEF ReviewAssumption, Url
<1>3. status[a] \in Status /\ words[a] \in Nat
  BY DEF AssetTypes
<1>4. Pictures(a) \subseteq Shot /\ media[a] \in Url \cup {Nothing}
  BY FacesTyped DEF AssetTypes
<1> DEFINE Fields == [op : Op, on : Assets, status : Status, words : Nat,
                      media : Url \cup {Nothing}, offered : SUBSET Url, pictures : SUBSET Shot,
                      drawing : Nat]
<1>5. Found("keep", a) \in Fields
  BY <1>3, <1>4 DEF Found, Op
<1>6. FoundKept(a, url) \in Fields /\ FoundKept(a, url).media = url
  BY <1>1, <1>5 DEF FoundKept
<1> QED
  BY <1>2, <1>6 DEF ReviewRequest

\* A request in progress is about an asset.
LEMMA RequestTyped ==
  ASSUME RequestTypes, NEW r \in Requests, NEW op, Doing(r, op)
  PROVE  request[r] \in ReviewRequest /\ request[r].on \in Assets
  BY DEF RequestTypes, Doing, ReviewRequest

\* A request that ends leaves every other one as it is.
LEMMA AnswerTyped ==
  ASSUME DrawTypes, RequestTypes, NEW r \in Requests, Answer(r)
  PROVE  /\ RequestTypes'
         /\ todo' \in [Requests -> SUBSET Variants]
         /\ landed' \in [Requests -> SUBSET Variants]
         /\ \A q \in Requests \ {r} : request'[q] = request[q]
         /\ request'[r] = Nothing
  BY DEF DrawTypes, RequestTypes, Answer

\* The crossings of an asset stay crossings.
LEMMA CrossTyped ==
  ASSUME MarkTypes, NEW a, NEW op, NEW S, Cross(a, Crossings(op, S))
  PROVE  /\ crossed' \in [Assets -> SUBSET Crossing]
         /\ \A b \in Assets : crossed[b] \subseteq crossed'[b]
         /\ \A b \in Assets \ {a} : crossed'[b] = crossed[b]
         /\ a \in Assets => crossed'[a] = crossed[a] \cup Crossings(op, S)
<1>1. Crossings(op, S) \subseteq Crossing
  BY DEF Crossings
<1> QED
  BY <1>1 DEF MarkTypes, Cross

\* Faults are counted up to their bound.
LEMMA SpendTyped ==
  ASSUME MarkTypes, Spend
  PROVE  trouble' \in 0..MaxReviewTrouble
  BY ReviewAssumption DEF MarkTypes, Spend, ReviewAssumption

\* A request is found.
LEMMA TypeFind ==
  ASSUME ReviewTypeOK, NEW r \in Requests, NEW op \in Op, NEW a \in Assets, Find(r, op, a)
  PROVE  ReviewTypeOK'
<1> USE ReviewTypeParts
<1>1. RequestTypes'
  <2>1. op # "keep"
    BY DEF Find, Allowed
  <2> QED
    BY <2>1, FoundTyped DEF Find, RequestTypes
<1>2. DrawTypes'
  BY DEF Find, DrawTypes
<1>3. MarkTypes'
  <2>1. crossed' \in [Assets -> SUBSET Crossing]
    BY CrossTyped DEF Find
  <2>2. trouble' \in 0..MaxReviewTrouble
    BY SpendTyped DEF Find
  <2>3. drawings' \in [Assets -> Nat]
    BY DEF Find, MarkTypes
  <2>4. (forced \cup instructed \cup bulked \subseteq Assets)'
    BY DEF Find, MarkTypes
  <2> QED
    BY <2>1, <2>2, <2>3, <2>4 DEF MarkTypes
<1>4. (AssetTypes /\ PostTypes /\ ApprovalTypes)'
  BY DEF Find, AssetTypes, PostTypes, ApprovalTypes, rowVars, postVars
<1> QED
  BY <1>1, <1>2, <1>3, <1>4, ReviewTypeNextParts

\* Nothing of the history but the marks named changes.
LEMMA MarksSame ==
  ASSUME MarkTypes, UNCHANGED <<drawings, forced, instructed, bulked, crossed>>,
         UNCHANGED trouble \/ Spend
  PROVE  MarkTypes'
  BY SpendTyped DEF MarkTypes

\* A request that changes nothing but the status is answered.
LEMMA TypeMove ==
  ASSUME ReviewTypeOK, NEW r \in Requests, NEW op, NEW s \in Status, Move(r, op, s)
  PROVE  (AssetTypes /\ DrawTypes /\ RequestTypes /\ PostTypes /\ MarkTypes)'
<1> USE ReviewTypeParts
<1>1. request[r].on \in Assets
  BY RequestTyped DEF Move
<1>2. (DrawTypes /\ RequestTypes)'
  BY AnswerTyped DEF Move, DrawTypes
<1>3. AssetTypes'
  BY <1>1 DEF Move, AssetTypes, SetStatus
<1>4. PostTypes' /\ MarkTypes'
  BY MarksSame DEF Move, PostTypes, postVars
<1> QED
  BY <1>2, <1>3, <1>4

\* The types after a decision about an asset.
LEMMA TypeDecide ==
  ASSUME ReviewTypeOK, NEW r \in Requests, Approve(r) \/ Reject(r) \/ Schedule(r)
  PROVE  ReviewTypeOK'
<1> USE ReviewTypeParts
<1>1. CASE Approve(r)
  <2>1. request[r] \in ReviewRequest /\ request[r].on \in Assets
    BY <1>1, RequestTyped DEF Approve, Move
  <2>2. request[r].words \in Nat /\ request[r].pictures \subseteq Shot
    BY <2>1 DEF ReviewRequest
  <2>3. ApprovalTypes'
    BY <1>1, <2>1, <2>2 DEF Approve, ApprovalTypes
  <2> QED
    BY <1>1, <2>3, TypeMove, ReviewTypeNextParts DEF Approve, Status
<1>2. CASE Reject(r) \/ Schedule(r)
  <2>1. ApprovalTypes'
    BY <1>2 DEF Reject, Schedule, ApprovalTypes
  <2> QED
    BY <1>2, <2>1, TypeMove, ReviewTypeNextParts DEF Reject, Schedule, Status
<1> QED
  BY <1>1, <1>2

\* The types after a bulk approval.
LEMMA TypeBulk ==
  ASSUME ReviewTypeOK, NEW a \in Assets, NEW s \in Status, Bulk(a, s)
  PROVE  ReviewTypeOK'
<1> USE ReviewTypeParts
<1>1. AssetTypes'
  BY DEF Bulk, AssetTypes, SetStatus
<1>2. ApprovalTypes'
  <2>1. Pictures(a) \subseteq Shot /\ words[a] \in Nat
    BY FacesTyped DEF AssetTypes
  <2> QED
    BY <2>1 DEF Bulk, ApprovalTypes
<1>3. MarkTypes'
  <2>1. crossed' \in [Assets -> SUBSET Crossing]
    BY CrossTyped DEF Bulk
  <2>2. trouble' \in 0..MaxReviewTrouble
    BY SpendTyped DEF Bulk
  <2> QED
    BY <2>1, <2>2 DEF Bulk, MarkTypes
<1>4. (DrawTypes /\ RequestTypes /\ PostTypes)'
  BY DEF Bulk, DrawTypes, RequestTypes, PostTypes, drawVars, postVars
<1> QED
  BY <1>1, <1>2, <1>3, <1>4, ReviewTypeNextParts

\* The requests that write the row and end.
LEMMA TypeWrite ==
  ASSUME ReviewTypeOK, NEW r \in Requests,
         \/ Edit(r) \/ Rewrite(r) \/ ChooseVariant(r) \/ Duplicate(r) \/ Remove(r)
         \/ RecordFailure(r) \/ ReviewCrash(r)
  PROVE  ReviewTypeOK'
<1> USE ReviewTypeParts
<1>1. request[r] \in ReviewRequest /\ request[r].on \in Assets
  <2>1. request[r] # Nothing
    BY DEF Edit, Rewrite, ChooseVariant, Duplicate, Remove, RecordFailure, ReviewCrash, Doing
  <2> QED
    BY <2>1 DEF RequestTypes, ReviewRequest
<1>2. Answer(r) /\ UNCHANGED file
  BY DEF Edit, Rewrite, ChooseVariant, Duplicate, Remove, RecordFailure, ReviewCrash
<1>3. (DrawTypes /\ RequestTypes)'
  BY <1>2, AnswerTyped DEF DrawTypes
<1>4. MarkTypes'
  <2>1. UNCHANGED reviewHistory
    BY DEF Edit, Rewrite, ChooseVariant, Duplicate, Remove, RecordFailure, ReviewCrash
  <2>2. UNCHANGED trouble \/ Spend
    BY DEF Edit, Rewrite, ChooseVariant, Duplicate, Remove, RecordFailure, ReviewCrash,
           ReviewFault
  <2> QED
    BY <2>1, <2>2, MarksSame DEF reviewHistory
<1>5. (PostTypes /\ ApprovalTypes)'
  BY DEF PostTypes, ApprovalTypes, Edit, Rewrite, ChooseVariant, Duplicate, Remove,
         RecordFailure, ReviewCrash, postVars, reviewHistory
<1>6. AssetTypes'
  <2>1. CASE Edit(r)
    BY <1>1, <2>1 DEF Edit, AssetTypes, SetStatus, Edited, Status
  <2>2. CASE Rewrite(r)
    BY <1>1, <2>2 DEF Rewrite, AssetTypes, SetStatus, Status
  <2>3. CASE ChooseVariant(r)
    <3>1. request[r].offered \subseteq Url
      BY <1>1 DEF ReviewRequest
    <3> QED
      BY <1>1, <2>3, <3>1 DEF ChooseVariant, AssetTypes
  <2>4. CASE Duplicate(r)
    <3>1. request[r].words \in Nat
      BY <1>1 DEF ReviewRequest
    <3> QED
      BY <1>1, <2>4, <3>1 DEF Duplicate, AssetTypes
  <2>5. CASE Remove(r)
    BY <1>1, <2>5 DEF Remove, AssetTypes
  <2>6. CASE RecordFailure(r)
    BY <1>1, <2>6 DEF RecordFailure, AssetTypes, SetStatus, StatusFailed, Status
  <2>7. CASE ReviewCrash(r)
    BY <2>7 DEF ReviewCrash, AssetTypes, rowVars
  <2> QED
    BY <2>1, <2>2, <2>3, <2>4, <2>5, <2>6, <2>7
<1> QED
  BY <1>3, <1>4, <1>5, <1>6, ReviewTypeNextParts

\* The types after a publication, a copy or a deletion.
LEMMA TypePublish ==
  ASSUME ReviewTypeOK, NEW r \in Requests, Publish(r)
  PROVE  ReviewTypeOK'
<1> USE ReviewTypeParts
<1>1. request[r] \in ReviewRequest /\ request[r].on \in Assets
  BY RequestTyped DEF Publish
<1>2. PostTypes'
  <2> DEFINE p == [words |-> request[r].words, url |-> request[r].media, sent |-> FALSE]
  <2>1. p \in AssetPost
    BY <1>1 DEF ReviewRequest, AssetPost
  <2>2. Append(posts[request[r].on], p) \in Seq(AssetPost)
    BY <1>1, <2>1 DEF PostTypes
  <2> QED
    BY <1>1, <2>2 DEF Publish, PostTypes
<1>3. AssetTypes'
  BY <1>1 DEF Publish, AssetTypes, SetStatus, Status
<1>4. (DrawTypes /\ RequestTypes)'
  BY AnswerTyped DEF Publish, DrawTypes
<1>5. (ApprovalTypes /\ MarkTypes)'
  BY MarksSame DEF Publish, ApprovalTypes, reviewHistory
<1> QED
  BY <1>2, <1>3, <1>4, <1>5, ReviewTypeNextParts

\* The picture made outside a campaign has an address.
LEMMA LibraryThere == Library \in Url
  BY DEF Url

\* The types after a picture of the library is kept.
LEMMA TypeKeep ==
  ASSUME ReviewTypeOK, NEW r \in Requests, NEW url \in Url, FindKept(r, url) \/ Keep(r)
  PROVE  ReviewTypeOK'
<1> USE ReviewTypeParts
<1>1. CASE FindKept(r, url)
  <2>1. RequestTypes'
    <3>1. PICK a \in Assets : request' = [request EXCEPT ![r] = FoundKept(a, url)]
      BY <1>1 DEF FindKept
    <3>2. FoundKept(a, url) \in ReviewRequest
      BY FoundKeptTyped
    <3> QED
      BY <3>1, <3>2 DEF RequestTypes
  <2>2. MarkTypes'
    <3>1. trouble' \in 0..MaxReviewTrouble
      BY <1>1, SpendTyped DEF FindKept
    <3>2. crossed' \in [Assets -> SUBSET Crossing]
      BY <1>1 DEF FindKept, MarkTypes, Crossing
    <3> QED
      BY <1>1, <3>1, <3>2 DEF FindKept, MarkTypes
  <2>3. (AssetTypes /\ DrawTypes /\ PostTypes /\ ApprovalTypes)'
    BY <1>1 DEF FindKept, AssetTypes, DrawTypes, PostTypes, ApprovalTypes, rowVars, drawVars,
                postVars
  <2> QED
    BY <2>1, <2>2, <2>3, ReviewTypeNextParts
<1>2. CASE Keep(r)
  <2>1. (DrawTypes /\ RequestTypes)'
    BY <1>2, AnswerTyped DEF Keep, DrawTypes
  <2>4. request[r] \in ReviewRequest
    BY <1>2, RequestTyped DEF Keep
  <2>5. request[r].media \in Url /\ request[r].pictures \subseteq Shot
    BY <1>2, <2>4 DEF ReviewRequest, Keep, Doing
  <2>2. (AssetTypes /\ ApprovalTypes)'
    <3>1. PICK a \in Assets :
            /\ kind' = [kind EXCEPT ![a] = "artwork"]
            /\ status' = [status EXCEPT ![a] = "APPROVED"]
            /\ media' = [media EXCEPT ![a] = request[r].media]
            /\ offered' = [offered EXCEPT ![a] = {request[r].media}]
            /\ approvals' = [approvals EXCEPT ![a] = @ + 1]
            /\ vetted' = [vetted EXCEPT ![a] = [words |-> {0}, pictures |-> request[r].pictures]]
      BY <1>2 DEF Keep, SetStatus
    <3>2. UNCHANGED <<deleted, words>>
      BY <1>2 DEF Keep
    <3>3. ApprovalTypes'
      BY <2>5, <3>1 DEF ApprovalTypes
    <3> QED
      BY <2>5, <3>1, <3>2, <3>3 DEF AssetTypes, Status
  <2>3. (PostTypes /\ MarkTypes)'
    BY <1>2, MarksSame DEF Keep, PostTypes, postVars
  <2> QED
    BY <2>1, <2>2, <2>3, ReviewTypeNextParts
<1> QED
  BY <1>1, <1>2

\* The types after a drawing begins.
LEMMA TypeDraw ==
  ASSUME ReviewTypeOK, NEW r \in Requests, Instruct(r) \/ DrawAnew(r)
  PROVE  ReviewTypeOK'
<1> USE ReviewTypeParts
<1>1. request[r] \in ReviewRequest /\ request[r].on \in Assets
  BY RequestTyped DEF Instruct, DrawAnew
<1>2. CASE Instruct(r)
  <2>1. RequestTypes'
    BY <1>1, <1>2, OpChanged DEF Instruct, RequestTypes, Op
  <2>2. AssetTypes'
    BY <1>1, <1>2 DEF Instruct, AssetTypes
  <2>3. MarkTypes'
    BY <1>1, <1>2 DEF Instruct, MarkTypes
  <2>4. (DrawTypes /\ PostTypes /\ ApprovalTypes)'
    BY <1>2 DEF Instruct, DrawTypes, PostTypes, ApprovalTypes, drawVars, postVars
  <2> QED
    BY <2>1, <2>2, <2>3, <2>4, ReviewTypeNextParts
<1>3. CASE DrawAnew(r)
  <2>1. (RequestTypes /\ DrawTypes)'
    <3>1. CASE Answer(r)
      BY <1>3, <3>1, AnswerTyped DEF DrawAnew, DrawTypes
    <3>2. CASE /\ request' = [request EXCEPT ![r] = Found("force", request[r].on)]
               /\ todo' = [todo EXCEPT ![r] = Variants]
               /\ UNCHANGED <<landed, file>>
      <4>1. Found("force", request[r].on) \in ReviewRequest
        BY <1>1, FoundTyped DEF Op
      <4> QED
        BY <3>2, <4>1 DEF RequestTypes, DrawTypes
    <3> QED
      BY <1>3, <3>1, <3>2 DEF DrawAnew
  <2>2. MarkTypes'
    <3>1. crossed' \in [Assets -> SUBSET Crossing]
      <4>1. CASE Cross(request[r].on, Crossings("force", Beside(r, request[r].on)))
        BY <4>1, CrossTyped
      <4>2. CASE UNCHANGED crossed
        BY <4>2 DEF MarkTypes
      <4> QED
        BY <1>3, <4>1, <4>2 DEF DrawAnew
    <3>2. drawings' \in [Assets -> Nat] /\ forced' \subseteq Assets
      <4>1. CASE UNCHANGED <<drawings, forced>>
        BY <4>1 DEF MarkTypes
      <4>2. CASE /\ drawings' = [drawings EXCEPT ![request[r].on] = @ + 1]
                 /\ forced' = forced \cup {request[r].on}
        BY <1>1, <4>2 DEF MarkTypes
      <4> QED
        BY <1>3, <4>1, <4>2 DEF DrawAnew
    <3> QED
      BY <1>3, <3>1, <3>2 DEF DrawAnew, MarkTypes
  <2>3. (AssetTypes /\ PostTypes /\ ApprovalTypes)'
    BY <1>3 DEF DrawAnew, AssetTypes, PostTypes, ApprovalTypes, rowVars, postVars
  <2> QED
    BY <2>1, <2>2, <2>3, ReviewTypeNextParts
<1> QED
  BY <1>2, <1>3

\* The types after a picture is stored, attached or fails.
LEMMA TypePictures ==
  ASSUME ReviewTypeOK, NEW r \in Requests,
         (\E v \in Variants : StorePicture(r, v)) \/ Attach(r) \/ DrawingFails(r)
  PROVE  ReviewTypeOK'
<1> USE ReviewTypeParts
<1>1. request[r] \in ReviewRequest /\ request[r].on \in Assets
  BY RequestTyped DEF StorePicture, Attach, DrawingFails, Drawing
<1>2. ASSUME NEW v \in Variants, StorePicture(r, v)
      PROVE  ReviewTypeOK'
  <2>1. request[r].drawing \in Nat
    BY <1>1 DEF ReviewRequest
  <2>2. DrawTypes'
    <3>1. file' \in [Assets -> [Variants -> Nat]]
      <4>1. CASE UNCHANGED file
        BY <4>1 DEF DrawTypes
      <4>2. CASE file' = [file EXCEPT ![request[r].on][v] = request[r].drawing]
        BY <1>1, <2>1, <4>2 DEF DrawTypes
      <4> QED
        BY <1>2, <4>1, <4>2 DEF StorePicture
    <3>2. todo' \in [Requests -> SUBSET Variants] /\ landed' \in [Requests -> SUBSET Variants]
      BY <1>2 DEF StorePicture, DrawTypes
    <3> QED
      BY <3>1, <3>2 DEF DrawTypes
  <2>3. MarkTypes'
    BY <1>2, MarksSame DEF StorePicture, ReviewFault, reviewHistory
  <2>4. (AssetTypes /\ RequestTypes /\ PostTypes /\ ApprovalTypes)'
    BY <1>2 DEF StorePicture, AssetTypes, RequestTypes, PostTypes, ApprovalTypes, rowVars,
                postVars, reviewHistory
  <2> QED
    BY <2>2, <2>3, <2>4, ReviewTypeNextParts
<1>3. CASE Attach(r)
  <2> DEFINE a == request[r].on
  <2>4. ({a} \X landed[r]) \subseteq Url
    BY <1>1 DEF DrawTypes, Url
  <2>5. PICK v \in landed[r] : media' = [media EXCEPT ![a] = <<a, v>>]
    BY <1>3 DEF Attach
  <2>6. <<a, v>> \in Url
    BY <2>4
  <2>1. AssetTypes'
    BY <1>1, <1>3, <2>4, <2>5, <2>6 DEF Attach, AssetTypes, SetStatus, Status
  <2>2. (DrawTypes /\ RequestTypes)'
    BY <1>3, AnswerTyped DEF Attach, DrawTypes
  <2>3. (PostTypes /\ ApprovalTypes /\ MarkTypes)'
    BY <1>3, <2>4, MarksSame DEF Attach, PostTypes, ApprovalTypes, reviewHistory
  <2> QED
    BY <2>1, <2>2, <2>3, ReviewTypeNextParts
<1>4. CASE DrawingFails(r)
  <2>1. RequestTypes'
    <3>1. media[request[r].on] \in Url \cup {Nothing}
      BY <1>1 DEF AssetTypes
    <3> QED
      BY <1>1, <1>4, <3>1, OpChanged DEF DrawingFails, RequestTypes, Op
  <2>2. MarkTypes'
    BY <1>4, MarksSame DEF DrawingFails, ReviewFault, reviewHistory
  <2>3. (AssetTypes /\ DrawTypes /\ PostTypes /\ ApprovalTypes)'
    BY <1>4 DEF DrawingFails, AssetTypes, DrawTypes, PostTypes, ApprovalTypes, rowVars,
                drawVars, postVars, reviewHistory
  <2> QED
    BY <2>1, <2>2, <2>3, ReviewTypeNextParts
<1> QED
  BY <1>2, <1>3, <1>4

\* The types after a delivery.
LEMMA TypeDeliver ==
  ASSUME ReviewTypeOK, NEW a \in Assets, Deliver(a)
  PROVE  ReviewTypeOK'
<1> USE ReviewTypeParts
<1>1. PICK i \in DOMAIN posts[a] :
        /\ posts' = [posts EXCEPT ![a][i].sent = TRUE]
        /\ shown' = [shown EXCEPT ![a] = @ \cup
             (IF posts[a][i].url = Nothing THEN {} ELSE {Picture(posts[a][i].url)})]
  BY DEF Deliver
<1>2. posts[a] \in Seq(AssetPost) /\ posts[a][i] \in AssetPost
  BY DEF PostTypes
<1>3. [posts[a] EXCEPT ![i].sent = TRUE] \in Seq(AssetPost)
  <2>1. [posts[a][i] EXCEPT !.sent = TRUE] \in AssetPost
    BY <1>2 DEF AssetPost
  <2> QED
    BY <1>2, <2>1
<1>4. posts[a][i].url # Nothing => Picture(posts[a][i].url) \in Shot
  BY <1>2, PictureTyped DEF AssetPost
<1>5. PostTypes'
  BY <1>1, <1>3, <1>4 DEF PostTypes, Deliver
<1>6. (AssetTypes /\ DrawTypes /\ RequestTypes /\ ApprovalTypes /\ MarkTypes)'
  BY DEF Deliver, AssetTypes, DrawTypes, RequestTypes, ApprovalTypes, MarkTypes, rowVars,
         drawVars, reviewHistory
<1> QED
  BY <1>5, <1>6, ReviewTypeNextParts

\* The types after a campaign is generated.
LEMMA TypeGenerate ==
  ASSUME ReviewTypeOK, Generate
  PROVE  ReviewTypeOK'
<1> USE ReviewTypeParts
<1>1. AssetTypes'
  BY DEF Generate, AssetTypes
<1>2. (DrawTypes /\ RequestTypes /\ PostTypes /\ ApprovalTypes /\ MarkTypes)'
  BY DEF Generate, DrawTypes, RequestTypes, PostTypes, ApprovalTypes, MarkTypes, drawVars,
         postVars, reviewHistory
<1> QED
  BY <1>1, <1>2, ReviewTypeNextParts

\* Every step keeps the types.
LEMMA ReviewTypeNext ==
  ASSUME ReviewTypeOK, [ReviewNext]_reviewVars
  PROVE  ReviewTypeOK'
<1>1. CASE Generate
  BY <1>1, TypeGenerate
<1>2. ASSUME NEW a \in Assets, Bulk(a, "APPROVED") \/ Bulk(a, "REJECTED") \/ Deliver(a)
      PROVE  ReviewTypeOK'
  BY <1>2, TypeBulk, TypeDeliver DEF Status
<1>3. ASSUME NEW r \in Requests, Handle(r)
      PROVE  ReviewTypeOK'
  BY <1>3, LibraryThere, TypeFind, TypeDecide, TypeWrite, TypePublish, TypeKeep, TypeDraw,
     TypePictures
  DEF Handle
<1>4. CASE UNCHANGED reviewVars
  BY <1>4 DEF ReviewTypeOK, reviewVars, rowVars, drawVars, postVars, reviewHistory
<1> QED
  BY <1>1, <1>2, <1>3, <1>4 DEF ReviewNext

\* The types in an initial state.
LEMMA ReviewTypeInit == ReviewInit => ReviewTypeOK
  BY ReviewAssumption DEF ReviewInit, ReviewTypeOK, Status, Crossing, ReviewAssumption, Url

-----------------------------------------------------------------------------
\* What a step of a request leaves alone.
LEMMA HandleFrame ==
  ASSUME NEW r \in Requests, Handle(r)
  PROVE  /\ kind' = kind \/ Duplicate(r) \/ Keep(r)
         /\ gallery' = gallery \/ Attach(r)
         /\ \/ status' = status
            \/ Approve(r) \/ Reject(r) \/ Schedule(r) \/ Edit(r) \/ Rewrite(r) \/ Publish(r)
            \/ Keep(r) \/ Attach(r) \/ RecordFailure(r)
         /\ deleted' = deleted \/ Remove(r)
         /\ words' = words \/ Edit(r) \/ Rewrite(r) \/ Duplicate(r) \/ Instruct(r)
         /\ media' = media \/ ChooseVariant(r) \/ Keep(r) \/ Attach(r)
         /\ offered' = offered \/ Keep(r) \/ Attach(r)
         /\ file' = file \/ \E v \in Variants : StorePicture(r, v)
         /\ posts' = posts \/ Publish(r)
         /\ shown' = shown
         /\ UNCHANGED <<approvals, vetted>> \/ Approve(r) \/ Keep(r)
         /\ forced' = forced \/ (\E op \in Op, a \in Assets : Find(r, op, a)) \/ DrawAnew(r)
         /\ instructed' = instructed \/ Instruct(r)
         /\ bulked' = bulked
         /\ \/ crossed' = crossed
            \/ (\E op \in Op, a \in Assets : Find(r, op, a)) \/ DrawAnew(r)
            \/ \E url \in Url : FindKept(r, url)
<1>1. CASE \E op \in Op, a \in Assets : Find(r, op, a)
  BY <1>1 DEF Find, rowVars, postVars
<1>2. CASE Approve(r) \/ Reject(r) \/ Schedule(r)
  BY <1>2 DEF Approve, Reject, Schedule, Move, postVars
<1>3. CASE Edit(r) \/ Rewrite(r) \/ ChooseVariant(r) \/ Duplicate(r) \/ Remove(r)
  BY <1>3 DEF Edit, Rewrite, ChooseVariant, Duplicate, Remove, postVars, reviewHistory
<1>4. CASE Publish(r)
  BY <1>4 DEF Publish, reviewHistory
<1>5. CASE (\E url \in Url : FindKept(r, url)) \/ Keep(r)
  BY <1>5 DEF FindKept, Keep, rowVars, drawVars, postVars
<1>6. CASE Instruct(r) \/ DrawAnew(r)
  BY <1>6 DEF Instruct, DrawAnew, rowVars, drawVars, postVars
<1>7. CASE (\E v \in Variants : StorePicture(r, v)) \/ Attach(r)
  BY <1>7 DEF StorePicture, Attach, rowVars, postVars, reviewHistory
<1>8. CASE DrawingFails(r) \/ RecordFailure(r) \/ ReviewCrash(r)
  BY <1>8 DEF DrawingFails, RecordFailure, ReviewCrash, rowVars, drawVars, postVars,
              reviewHistory
<1> QED
  BY <1>1, <1>2, <1>3, <1>4, <1>5, <1>6, <1>7, <1>8 DEF Handle

\* Which requests there are after it: the others, and r if it has found something or goes on.
LEMMA HandleRequests ==
  ASSUME ReviewTypeOK, NEW r \in Requests, Handle(r)
  PROVE  /\ \A q \in Requests \ {r} : request'[q] = request[q]
         /\ \/ request'[r] = request[r] \/ request'[r] = Nothing
            \/ \E op \in Op, a \in Assets : Find(r, op, a) /\ request'[r] = Found(op, a)
            \/ \E a \in Assets, url \in Url :
                 /\ FindKept(r, url) /\ kind[a] = "absent"
                 /\ request'[r] = FoundKept(a, url)
            \/ Instruct(r) /\ request'[r] = [request[r] EXCEPT !.op = "again"]
            \/ DrawAnew(r) /\ request'[r] = Found("force", request[r].on)
            \/ /\ DrawingFails(r)
               /\ request'[r] = [request[r] EXCEPT !.op = "failing", !.media = media[request[r].on]]
<1> USE DEF ReviewTypeOK
<1>1. ASSUME NEW op \in Op, NEW a \in Assets, Find(r, op, a)
      PROVE  /\ \A q \in Requests \ {r} : request'[q] = request[q]
             /\ request'[r] = Found(op, a)
  BY <1>1 DEF Find
<1>2. ASSUME Answer(r)
      PROVE  /\ \A q \in Requests \ {r} : request'[q] = request[q]
             /\ request'[r] = Nothing
  BY <1>2 DEF Answer
<1>3. CASE \/ Approve(r) \/ Reject(r) \/ Schedule(r) \/ Edit(r) \/ Rewrite(r)
           \/ ChooseVariant(r) \/ Publish(r) \/ Duplicate(r) \/ Remove(r) \/ Keep(r)
           \/ Attach(r) \/ RecordFailure(r) \/ ReviewCrash(r)
  BY <1>2, <1>3 DEF Approve, Reject, Schedule, Move, Edit, Rewrite, ChooseVariant, Publish,
                    Duplicate, Remove, Keep, Attach, RecordFailure, ReviewCrash
<1>4. CASE \E url \in Url : FindKept(r, url)
  BY <1>4 DEF FindKept
<1>5. CASE Instruct(r)
  BY <1>5 DEF Instruct
<1>6. CASE DrawAnew(r)
  <2>1. CASE request' = [request EXCEPT ![r] = Found("force", request[r].on)]
    BY <1>6, <2>1
  <2>2. CASE Answer(r)
    BY <1>2, <2>2
  <2> QED
    BY <1>6, <2>1, <2>2 DEF DrawAnew
<1>7. CASE \E v \in Variants : StorePicture(r, v)
  BY <1>7 DEF StorePicture
<1>8. CASE DrawingFails(r)
  BY <1>8 DEF DrawingFails
<1> QED
  BY <1>1, <1>3, <1>4, <1>5, <1>6, <1>7, <1>8 DEF Handle

-----------------------------------------------------------------------------
(* Rows.                                                                     *)

\* An asset that does not exist yet has nothing but requests that may create it.
Blank(a) ==
  kind[a] = "absent" =>
    /\ status[a] = "GENERATED" /\ words[a] = 0
    /\ media[a] = Nothing /\ offered[a] = {}
    /\ posts[a] = << >> /\ shown[a] = {}
    /\ \A r \in Requests : \A op \in Op : BusyWith(r, op, a) => op = "keep"

\* An asset has a picture when it has pictures to choose from, and only artwork has.
Pictured(a) ==
  /\ media[a] = Nothing <=> offered[a] = {}
  /\ kind[a] = "copy" => media[a] = Nothing
  /\ \A r \in Requests : BusyWith(r, "choose", a) => media[a] # Nothing

\* Drawings are of artwork; who draws anew has asked for it.
DrawnArtwork(a) ==
  \A r \in Requests :
    /\ Draws(r, a) => kind[a] = "artwork"
    /\ BusyWith(r, "force", a) => a \in forced

\* A request that is no keep is about an asset there is.
LEMMA RequestedThere ==
  ASSUME ReviewTypeOK, \A a \in Assets : Blank(a), NEW r \in Requests, NEW op \in Op,
         Doing(r, op), op # "keep"
  PROVE  /\ request[r] \in ReviewRequest /\ request[r].on \in Assets
         /\ kind[request[r].on] # "absent"
<1>1. request[r] \in ReviewRequest /\ request[r].on \in Assets
  BY RequestTyped, ReviewTypeParts
<1>2. BusyWith(r, op, request[r].on)
  BY DEF BusyWith
<1> QED
  BY <1>1, <1>2 DEF Blank

\* No step makes an asset that exists another kind, or none.
LEMMA KindStays ==
  ASSUME ReviewTypeOK, \A a \in Assets : Blank(a), ReviewNext, NEW a \in Assets,
         kind[a] # "absent"
  PROVE  kind'[a] = kind[a]
<1>1. CASE Generate
  BY <1>1 DEF Generate
<1>2. CASE \E b \in Assets : Bulk(b, "APPROVED") \/ Bulk(b, "REJECTED") \/ Deliver(b)
  BY <1>2 DEF Bulk, Deliver, rowVars
<1>3. ASSUME NEW r \in Requests, Handle(r)
      PROVE  kind'[a] = kind[a]
  <2>1. kind' = kind \/ Duplicate(r) \/ Keep(r)
    BY <1>3, HandleFrame
  <2> QED
    BY <2>1 DEF Duplicate, Keep, ReviewTypeOK
<1> QED
  BY <1>1, <1>2, <1>3 DEF ReviewNext

\* What a request finds it keeps doing, or goes on with; nobody finds anything for it.
LEMMA BusyNext ==
  ASSUME ReviewTypeOK, NEW r \in Requests, Handle(r), NEW q \in Requests, NEW op \in Op,
         NEW a \in Assets, BusyWith(q, op, a)'
  PROVE  \/ BusyWith(q, op, a) /\ request'[q] = request[q]
         \/ q = r /\ Find(r, op, a) /\ request'[r] = Found(op, a)
         \/ /\ q = r /\ op = "keep" /\ kind[a] = "absent"
            /\ \E url \in Url : FindKept(r, url) /\ request'[r] = FoundKept(a, url)
         \/ q = r /\ op = "again" /\ Instruct(r) /\ BusyWith(r, "redraw", a)
         \/ /\ q = r /\ op = "force" /\ DrawAnew(r) /\ BusyWith(r, "again", a)
            /\ request'[r] = Found("force", a)
         \/ /\ q = r /\ op = "failing" /\ DrawingFails(r)
            /\ BusyWith(r, "draw", a) \/ BusyWith(r, "force", a)
            /\ request'[r].media = media[a]
<1>1. CASE request'[q] = request[q]
  BY <1>1 DEF BusyWith, Doing
<1>2. CASE request'[q] = Nothing
  BY <1>2 DEF BusyWith, Doing
<1>3. ASSUME NEW o \in Op, NEW b \in Assets, Find(r, o, b), request'[r] = Found(o, b), q = r
      PROVE  Find(r, op, a) /\ request'[r] = Found(op, a)
  BY <1>3 DEF BusyWith, Doing, Found
<1>4. ASSUME NEW b \in Assets, NEW url \in Url, FindKept(r, url), kind[b] = "absent",
             request'[r] = FoundKept(b, url), q = r
      PROVE  op = "keep" /\ kind[a] = "absent" /\ request'[r] = FoundKept(a, url)
  <2>1. request'[r].op = "keep" /\ request'[r].on = b
    BY <1>4 DEF FoundKept, Found
  <2> QED
    BY <1>4, <2>1 DEF BusyWith, Doing
<1>5. ASSUME Instruct(r), request'[r] = [request[r] EXCEPT !.op = "again"], q = r
      PROVE  op = "again" /\ BusyWith(r, "redraw", a)
  <2>1. request[r] \in ReviewRequest
    BY <1>5, RequestTyped, ReviewTypeParts DEF Instruct
  <2> QED
    BY <1>5, <2>1 DEF BusyWith, Doing, Instruct, ReviewRequest
<1>6. ASSUME DrawAnew(r), request'[r] = Found("force", request[r].on), q = r
      PROVE  op = "force" /\ BusyWith(r, "again", a) /\ request'[r] = Found("force", a)
  BY <1>6 DEF BusyWith, Doing, Found, DrawAnew
<1>7. ASSUME DrawingFails(r), q = r,
             request'[r] = [request[r] EXCEPT !.op = "failing", !.media = media[request[r].on]]
      PROVE  /\ op = "failing"
             /\ BusyWith(r, "draw", a) \/ BusyWith(r, "force", a)
             /\ request'[r].media = media[a]
  <2>1. request[r] \in ReviewRequest
    BY <1>7, RequestTyped, ReviewTypeParts DEF DrawingFails, Drawing
  <2>2. /\ request'[r].op = "failing" /\ request'[r].on = request[r].on
        /\ request'[r].media = media[request[r].on]
    BY <1>7, <2>1 DEF ReviewRequest
  <2> QED
    BY <1>7, <2>2 DEF BusyWith, Doing, DrawingFails, Drawing
<1> QED
  BY <1>1, <1>2, <1>3, <1>4, <1>5, <1>6, <1>7, HandleRequests

\* Rows, under every step.
LEMMA BlankNext ==
  ASSUME ReviewTypeOK, \A a \in Assets : Blank(a), ReviewNext, NEW a \in Assets
  PROVE  Blank(a)'
<1> SUFFICES ASSUME kind'[a] = "absent" PROVE Blank(a)'
  BY DEF Blank
<1>1. kind[a] = "absent"
  BY KindStays
<1>2. CASE Generate
  <2>1. kind[a] = kind'[a] => words'[a] = words[a]
    BY <1>2 DEF Generate, ReviewTypeOK
  <2> QED
    BY <1>1, <1>2, <2>1 DEF Generate, Blank, BusyWith, Doing, drawVars, postVars
<1>3. ASSUME NEW b \in Assets, Bulk(b, "APPROVED") \/ Bulk(b, "REJECTED") \/ Deliver(b)
      PROVE  Blank(a)'
  <2>1. CASE Bulk(b, "APPROVED") \/ Bulk(b, "REJECTED")
    <3>1. b # a
      BY <1>1, <2>1 DEF Bulk, Visible
    <3>2. status'[a] = status[a]
      BY <2>1, <3>1 DEF Bulk, SetStatus, ReviewTypeOK
    <3> QED
      BY <1>1, <2>1, <3>2 DEF Bulk, Blank, BusyWith, Doing, postVars
  <2>2. CASE Deliver(b)
    <3>1. b # a
      BY <1>1, <2>2 DEF Deliver, Blank
    <3> QED
      BY <1>1, <2>2, <3>1 DEF Deliver, Blank, BusyWith, Doing, ReviewTypeOK, rowVars
  <2> QED
    BY <1>3, <2>1, <2>2
<1>4. ASSUME NEW r \in Requests, Handle(r)
      PROVE  Blank(a)'
  <2>1. ASSUME NEW op \in Op, op # "keep", Doing(r, op)
        PROVE  request[r].on \in Assets /\ request[r].on # a /\ kind[request[r].on] # "absent"
    BY <1>1, <2>1, RequestedThere
  <2>2. status'[a] = status[a]
    <3>1. CASE Keep(r)
      BY <1>1, <3>1 DEF Keep, SetStatus, ReviewTypeOK
    <3>2. CASE Approve(r) \/ Reject(r) \/ Schedule(r)
      BY <2>1, <3>2 DEF Approve, Reject, Schedule, Move, SetStatus, Op, ReviewTypeOK
    <3>3. CASE Edit(r) \/ Rewrite(r) \/ Publish(r)
      BY <2>1, <3>3 DEF Edit, Rewrite, Publish, SetStatus, Op, ReviewTypeOK
    <3>4. CASE Attach(r) \/ RecordFailure(r)
      BY <2>1, <3>4 DEF Attach, RecordFailure, SetStatus, Drawing, Op, ReviewTypeOK
    <3> QED
      BY <1>4, <3>1, <3>2, <3>3, <3>4, HandleFrame
  <2>3. words'[a] = words[a]
    <3>1. CASE Duplicate(r)
      BY <1>1, <2>1, <3>1 DEF Duplicate, Op, ReviewTypeOK
    <3> QED
      BY <1>4, <2>1, <3>1, HandleFrame DEF Edit, Rewrite, Instruct, Op, ReviewTypeOK
  <2>4. media'[a] = media[a] /\ offered'[a] = offered[a]
    <3>1. CASE Keep(r)
      BY <1>1, <3>1 DEF Keep, ReviewTypeOK
    <3> QED
      BY <1>4, <2>1, <3>1, HandleFrame DEF ChooseVariant, Attach, Drawing, Op, ReviewTypeOK
  <2>5. posts'[a] = posts[a] /\ shown'[a] = shown[a]
    BY <1>4, <2>1, HandleFrame DEF Publish, Op, ReviewTypeOK
  <2>6. \A q \in Requests : \A op \in Op : BusyWith(q, op, a)' => op = "keep"
    <3> SUFFICES ASSUME NEW q \in Requests, NEW op \in Op, BusyWith(q, op, a)', op # "keep"
                 PROVE  FALSE
      OBVIOUS
    <3>1. \A o \in Op : BusyWith(r, o, a) => o = "keep"
      BY <1>1 DEF Blank
    <3>2. ~ Find(r, op, a)
      BY <1>1 DEF Find, Visible
    <3>3. ~ BusyWith(q, op, a)
      BY <1>1 DEF Blank
    <3> QED
      BY <1>4, <3>1, <3>2, <3>3, BusyNext DEF Op
  <2> QED
    BY <1>1, <2>2, <2>3, <2>4, <2>5, <2>6 DEF Blank
<1> QED
  BY <1>2, <1>3, <1>4 DEF ReviewNext

\* Nobody asks for another drawing in vain, and nothing of the history is forgotten.
LEMMA MarksGrow ==
  ASSUME ReviewTypeOK, ReviewNext, NEW a \in Assets
  PROVE  /\ crossed[a] \subseteq crossed'[a] /\ forced \subseteq forced'
         /\ instructed \subseteq instructed' /\ bulked \subseteq bulked'
<1>1. CASE Generate
  BY <1>1 DEF Generate, reviewHistory
<1>2. ASSUME NEW b \in Assets, NEW s, Bulk(b, s)
      PROVE  crossed[a] \subseteq crossed'[a] /\ bulked \subseteq bulked'
             /\ forced' = forced /\ instructed' = instructed
  BY <1>2, CrossTyped, ReviewTypeParts DEF Bulk
<1>3. ASSUME NEW b \in Assets, Deliver(b)
      PROVE  UNCHANGED reviewHistory
  BY <1>3 DEF Deliver
<1>4. ASSUME NEW r \in Requests, Handle(r)
      PROVE  /\ crossed[a] \subseteq crossed'[a] /\ forced \subseteq forced'
             /\ instructed \subseteq instructed' /\ bulked \subseteq bulked'
  <2>1. ASSUME NEW op \in Op, NEW b \in Assets, Find(r, op, b)
        PROVE  crossed[a] \subseteq crossed'[a] /\ forced \subseteq forced'
    BY <2>1, CrossTyped, ReviewTypeParts DEF Find
  <2>2. CASE \E url \in Url : FindKept(r, url)
    BY <2>2 DEF FindKept
  <2>3. CASE DrawAnew(r)
    <3>1. request[r].on \in Assets
      BY <2>3, RequestTyped, ReviewTypeParts DEF DrawAnew
    <3> QED
      BY <2>3, <3>1, CrossTyped, ReviewTypeParts DEF DrawAnew
  <2>4. CASE Instruct(r)
    BY <2>4 DEF Instruct
  <2> QED
    BY <1>4, <2>1, <2>2, <2>3, <2>4, HandleFrame
<1> QED
  BY <1>1, <1>2, <1>3, <1>4 DEF ReviewNext, reviewHistory

\* What is being kept is a picture.
LEMMA KeptMedia ==
  ASSUME ReviewTypeOK, NEW r \in Requests, Doing(r, "keep")
  PROVE  request[r].media \in Url /\ request[r].media # Nothing
<1>1. request[r] \in ReviewRequest /\ request[r].op = "keep"
  BY RequestTyped, ReviewTypeParts DEF Doing
<1> QED
  BY <1>1 DEF ReviewRequest

\* What is chosen is a picture.
LEMMA ChosenMedia ==
  ASSUME ReviewTypeOK, NEW r \in Requests, ChooseVariant(r)
  PROVE  /\ request[r].on \in Assets /\ BusyWith(r, "choose", request[r].on)
         /\ \E url \in request[r].offered :
              url \in Url /\ url # Nothing /\ media' = [media EXCEPT ![request[r].on] = url]
<1>1. request[r] \in ReviewRequest /\ request[r].on \in Assets
  BY RequestTyped, ReviewTypeParts DEF ChooseVariant
<1>2. request[r].offered \subseteq Url
  BY <1>1 DEF ReviewRequest
<1>3. Nothing \notin Url
  BY ReviewAssumption DEF ReviewAssumption, Url
<1> QED
  BY <1>1, <1>2, <1>3 DEF ChooseVariant, BusyWith

\* What a drawing attaches are pictures of its asset's own.
LEMMA AttachedMedia ==
  ASSUME ReviewTypeOK, NEW r \in Requests, Attach(r)
  PROVE  /\ request[r].on \in Assets
         /\ offered'[request[r].on] \subseteq Own(request[r].on)
         /\ media'[request[r].on] \in offered'[request[r].on]
         /\ media'[request[r].on] # Nothing
         /\ gallery' = gallery \cup offered'[request[r].on]
         /\ \A b \in Assets : b # request[r].on =>
              media'[b] = media[b] /\ offered'[b] = offered[b]
<1> DEFINE a == request[r].on
<1>1. a \in Assets
  BY RequestTyped, ReviewTypeParts DEF Attach, Drawing
<1>2. landed[r] \subseteq Variants
  BY DEF ReviewTypeOK
<1>3. PICK v \in landed[r] : media' = [media EXCEPT ![a] = <<a, v>>]
  BY DEF Attach
<1>4. offered' = [offered EXCEPT ![a] = {a} \X landed[r]]
      /\ gallery' = gallery \cup ({a} \X landed[r])
  BY DEF Attach
<1>5. offered'[a] = {a} \X landed[r] /\ media'[a] = <<a, v>>
  BY <1>1, <1>3, <1>4 DEF ReviewTypeOK
<1>6. <<a, v>> \in {a} \X landed[r] /\ ({a} \X landed[r]) \subseteq Own(a)
  BY <1>2 DEF Own
<1>7. <<a, v>> # Nothing
  <2>1. <<a, v>> \in Assets \X Variants
    BY <1>1, <1>2
  <2> QED
    BY <2>1, ReviewAssumption DEF ReviewAssumption
<1>8. \A b \in Assets : b # a => media'[b] = media[b] /\ offered'[b] = offered[b]
  BY <1>1, <1>3, <1>4 DEF ReviewTypeOK
<1> QED
  BY <1>1, <1>4, <1>5, <1>6, <1>7, <1>8

\* A picture is never taken away from an asset.
LEMMA MediaStays ==
  ASSUME ReviewTypeOK, ReviewNext, NEW a \in Assets, media[a] # Nothing
  PROVE  media'[a] # Nothing
<1> USE DEF ReviewTypeOK
<1>1. CASE Generate
  BY <1>1 DEF Generate
<1>2. CASE \E b \in Assets : Bulk(b, "APPROVED") \/ Bulk(b, "REJECTED") \/ Deliver(b)
  BY <1>2 DEF Bulk, Deliver, rowVars
<1>3. ASSUME NEW r \in Requests, Handle(r)
      PROVE  media'[a] # Nothing
  <2>1. CASE ChooseVariant(r)
    BY <2>1, ChosenMedia
  <2>2. CASE Keep(r)
    BY <2>2, KeptMedia DEF Keep
  <2>3. CASE Attach(r)
    BY <2>3, AttachedMedia
  <2> QED
    BY <1>3, <2>1, <2>2, <2>3, HandleFrame
<1> QED
  BY <1>1, <1>2, <1>3 DEF ReviewNext

\* Every step keeps a picture where there are some to choose from, and off copy.
LEMMA PicturedNext ==
  ASSUME ReviewTypeOK, \A b \in Assets : Blank(b) /\ Pictured(b) /\ DrawnArtwork(b), ReviewNext,
         NEW a \in Assets
  PROVE  Pictured(a)'
<1> DEFINE Plain == /\ media[a] = Nothing <=> offered[a] = {}
                    /\ kind[a] = "copy" => media[a] = Nothing
<1>0. Plain
  BY DEF Pictured
<1>1. CASE Generate
  <2>1. media[a] = Nothing /\ offered[a] = {}
    BY <1>1 DEF Generate, Blank
  <2> QED
    BY <1>1, <2>1 DEF Generate, Pictured, BusyWith, Doing
<1>2. CASE \E b \in Assets : Bulk(b, "APPROVED") \/ Bulk(b, "REJECTED") \/ Deliver(b)
  BY <1>2 DEF Bulk, Deliver, rowVars, Pictured, BusyWith, Doing
<1>3. ASSUME NEW r \in Requests, Handle(r)
      PROVE  Pictured(a)'
  <2>1. ASSUME NEW q \in Requests, BusyWith(q, "choose", a)'
        PROVE  media'[a] # Nothing
    <3>1. CASE BusyWith(q, "choose", a)
      BY <3>1, MediaStays DEF Pictured
    <3>2. CASE Find(q, "choose", a)
      <4>1. media[a] # Nothing
        BY <3>2 DEF Find, Allowed, Pictured
      <4> QED
        BY <4>1, MediaStays
    <3> QED
      BY <1>3, <2>1, <3>1, <3>2, BusyNext DEF Op
  <2>2. Plain'
    <3>1. CASE ChooseVariant(r)
      <4>1. PICK url : url # Nothing /\ media' = [media EXCEPT ![request[r].on] = url]
        BY <3>1, ChosenMedia
      <4>2. CASE request[r].on = a
        <5>1. media[a] # Nothing /\ media'[a] # Nothing
          BY <3>1, <4>1, <4>2, ChosenMedia DEF Pictured, ReviewTypeOK
        <5> QED
          BY <1>0, <3>1, <5>1 DEF ChooseVariant
      <4>3. CASE request[r].on # a
        BY <1>0, <3>1, <4>1, <4>3 DEF ChooseVariant, ReviewTypeOK
      <4> QED
        BY <4>2, <4>3
    <3>2. CASE Keep(r)
      <4>1. request[r].media # Nothing
        BY <3>2, KeptMedia DEF Keep
      <4>2. PICK n \in Assets :
              /\ kind' = [kind EXCEPT ![n] = "artwork"]
              /\ media' = [media EXCEPT ![n] = request[r].media]
              /\ offered' = [offered EXCEPT ![n] = {request[r].media}]
        BY <3>2 DEF Keep
      <4>3. CASE n = a
        <5>1. kind'[a] = "artwork" /\ media'[a] = request[r].media /\ offered'[a] # {}
          BY <4>2, <4>3 DEF ReviewTypeOK
        <5> QED
          BY <4>1, <5>1
      <4>4. CASE n # a
        <5>1. kind'[a] = kind[a] /\ media'[a] = media[a] /\ offered'[a] = offered[a]
          BY <4>2, <4>4 DEF ReviewTypeOK
        <5> QED
          BY <1>0, <5>1
      <4> QED
        BY <4>3, <4>4
    <3>3. CASE Attach(r)
      <4>1. request[r].on \in Assets /\ (\E op \in {"draw", "force"} : Doing(r, op))
        BY <3>3, RequestTyped, ReviewTypeParts DEF Attach, Drawing
      <4>2. kind[request[r].on] = "artwork"
        BY <4>1 DEF DrawnArtwork, Draws, BusyWith
      <4>3. UNCHANGED kind
        BY <3>3 DEF Attach
      <4> QED
        BY <1>0, <3>3, <4>2, <4>3, AttachedMedia
    <3>4. CASE Duplicate(r)
      BY <1>0, <3>4 DEF Duplicate, Blank, ReviewTypeOK
    <3>5. CASE UNCHANGED <<kind, media, offered>>
      BY <1>0, <3>5
    <3> QED
      BY <1>3, <3>1, <3>2, <3>3, <3>4, <3>5, HandleFrame
  <2> QED
    BY <2>1, <2>2 DEF Pictured
<1> QED
  BY <1>1, <1>2, <1>3 DEF ReviewNext

\* Every step keeps drawings to artwork, and forced ones to those asked for.
LEMMA DrawnArtworkNext ==
  ASSUME ReviewTypeOK, \A b \in Assets : Blank(b) /\ DrawnArtwork(b), ReviewNext,
         NEW a \in Assets
  PROVE  DrawnArtwork(a)'
<1>1. SUFFICES ASSUME NEW q \in Requests, NEW op \in {"draw", "force", "failing"},
                      BusyWith(q, op, a)'
               PROVE  kind'[a] = "artwork" /\ (op = "force" => a \in forced')
  BY DEF DrawnArtwork, Draws
<1>2. kind[a] = "artwork" => kind'[a] = "artwork"
  BY KindStays
<1>3. forced \subseteq forced'
  BY MarksGrow
<1>4. CASE BusyWith(q, op, a)
  BY <1>2, <1>3, <1>4 DEF DrawnArtwork, Draws
<1>5. CASE Generate \/ \E b \in Assets : Bulk(b, "APPROVED") \/ Bulk(b, "REJECTED") \/ Deliver(b)
  <2>1. UNCHANGED request
    BY <1>5 DEF Generate, Bulk, Deliver
  <2> QED
    BY <1>1, <1>4, <2>1 DEF BusyWith, Doing
<1>6. ASSUME NEW r \in Requests, Handle(r)
      PROVE  kind'[a] = "artwork" /\ (op = "force" => a \in forced')
  <2>1. CASE Find(r, op, a)
    <3>1. kind[a] = "artwork"
      BY <2>1 DEF Find, Allowed, CanDraw
    <3> QED
      BY <1>2, <2>1, <3>1 DEF Find
  <2>2. CASE q = r /\ DrawAnew(r) /\ BusyWith(r, "again", a)
    <3>1. ~ Answer(r)
      BY <1>1, <2>2 DEF BusyWith, Doing, Answer, ReviewTypeOK
    <3>2. CanDraw(a, TRUE) /\ forced' = forced \cup {a}
      BY <2>2, <3>1 DEF DrawAnew, BusyWith
    <3> QED
      BY <1>2, <3>2 DEF CanDraw
  <2>3. CASE op = "failing" /\ (BusyWith(r, "draw", a) \/ BusyWith(r, "force", a))
    BY <1>2, <1>3, <2>3 DEF DrawnArtwork, Draws
  <2> QED
    BY <1>1, <1>4, <1>6, <2>1, <2>2, <2>3, BusyNext DEF Op
<1> QED
  BY <1>5, <1>6 DEF ReviewNext

-----------------------------------------------------------------------------
(* Posts and approvals.                                                      *)

\* While publications of an asset did not overlap, one at most is in progress, and one
\* approval more than there are posts if the asset is approved or a post of it on its way.
Accounted(a) ==
  "publishes" \notin crossed[a] =>
    /\ \A q, r \in Requests : BusyWith(q, "publish", a) /\ BusyWith(r, "publish", a) => q = r
    /\ Len(posts[a]) <= approvals[a]
    /\ status[a] = "APPROVED" => Len(posts[a]) < approvals[a]
    /\ \A r \in Requests : BusyWith(r, "publish", a) => Len(posts[a]) < approvals[a]

\* An approval counts, and nothing else approves.
LEMMA ApprovalsCount ==
  ASSUME ReviewTypeOK, ReviewNext, NEW a \in Assets
  PROVE  /\ approvals'[a] >= approvals[a]
         /\ status'[a] = "APPROVED" =>
              status[a] = "APPROVED" \/ approvals'[a] = approvals[a] + 1
<1> USE DEF ReviewTypeOK
<1>1. CASE Generate
  BY <1>1 DEF Generate, reviewHistory
<1>2. ASSUME NEW b \in Assets, Bulk(b, "APPROVED") \/ Bulk(b, "REJECTED")
      PROVE  /\ approvals'[a] >= approvals[a]
             /\ status'[a] = "APPROVED" =>
                  status[a] = "APPROVED" \/ approvals'[a] = approvals[a] + 1
  BY <1>2 DEF Bulk, SetStatus
<1>3. CASE \E b \in Assets : Deliver(b)
  BY <1>3 DEF Deliver, rowVars, reviewHistory
<1>4. ASSUME NEW r \in Requests, Handle(r)
      PROVE  /\ approvals'[a] >= approvals[a]
             /\ status'[a] = "APPROVED" =>
                  status[a] = "APPROVED" \/ approvals'[a] = approvals[a] + 1
  <2>1. CASE Approve(r)
    <3>1. request[r].on \in Assets
      BY <2>1, RequestTyped, ReviewTypeParts DEF Approve, Move
    <3> QED
      BY <2>1, <3>1 DEF Approve, Move, SetStatus
  <2>2. CASE Keep(r)
    BY <2>2 DEF Keep, SetStatus
  <2>3. CASE Reject(r) \/ Schedule(r)
    BY <2>3 DEF Reject, Schedule, Move, SetStatus
  <2>4. CASE UNCHANGED approvals /\ (status' = status \/ Edit(r) \/ Rewrite(r) \/ Publish(r))
    BY <2>4 DEF Edit, Rewrite, Publish, SetStatus, Edited
  <2>5. CASE UNCHANGED approvals /\ Attach(r)
    BY <2>5 DEF Attach, SetStatus
  <2>6. CASE UNCHANGED approvals /\ RecordFailure(r)
    <3>1. \/ status' = status
          \/ SetStatus(request[r].on, StatusFailed(request[r].media, status[request[r].on]))
      BY <2>6 DEF RecordFailure
    <3> QED
      BY <2>6, <3>1 DEF SetStatus, StatusFailed
  <2> QED
    BY <1>4, <2>1, <2>2, <2>3, <2>4, <2>5, <2>6, HandleFrame
<1> QED
  BY <1>1, <1>2, <1>3, <1>4 DEF ReviewNext

\* Only a publication makes a post, and a delivery changes none but as it is sent.
LEMMA PostsStay ==
  ASSUME ReviewTypeOK, ReviewNext, NEW a \in Assets,
         ~ \E r \in Requests : Publish(r) /\ request[r].on = a
  PROVE  /\ Len(posts'[a]) = Len(posts[a]) /\ DOMAIN posts'[a] = DOMAIN posts[a]
         /\ \A i \in DOMAIN posts[a] :
              posts'[a][i].words = posts[a][i].words /\ posts'[a][i].url = posts[a][i].url
<1> USE DEF ReviewTypeOK
<1>1. CASE posts'[a] = posts[a]
  BY <1>1
<1>2. CASE Generate \/ \E b \in Assets : Bulk(b, "APPROVED") \/ Bulk(b, "REJECTED")
  BY <1>1, <1>2 DEF Generate, Bulk, postVars
<1>3. ASSUME NEW b \in Assets, Deliver(b)
      PROVE  /\ Len(posts'[a]) = Len(posts[a]) /\ DOMAIN posts'[a] = DOMAIN posts[a]
             /\ \A i \in DOMAIN posts[a] :
                  posts'[a][i].words = posts[a][i].words /\ posts'[a][i].url = posts[a][i].url
  <2>1. PICK j \in DOMAIN posts[b] : posts' = [posts EXCEPT ![b][j].sent = TRUE]
    BY <1>3 DEF Deliver
  <2>2. CASE b # a
    BY <1>1, <2>1, <2>2
  <2>3. CASE b = a
    <3>1. posts[a] \in Seq(AssetPost) /\ posts[a][j] \in AssetPost
      BY <2>1, <2>3
    <3>2. posts'[a] = [posts[a] EXCEPT ![j].sent = TRUE]
      BY <2>1, <2>3
    <3>3. DOMAIN posts'[a] = DOMAIN posts[a] /\ Len(posts'[a]) = Len(posts[a])
      BY <3>1, <3>2
    <3>4. \A i \in DOMAIN posts[a] : i # j => posts'[a][i] = posts[a][i]
      BY <3>1, <3>2
    <3>5. posts'[a][j].words = posts[a][j].words /\ posts'[a][j].url = posts[a][j].url
      BY <2>1, <2>3, <3>1, <3>2 DEF AssetPost
    <3> QED
      BY <3>3, <3>4, <3>5
  <2> QED
    BY <2>2, <2>3
<1>4. ASSUME NEW r \in Requests, Handle(r)
      PROVE  posts'[a] = posts[a]
  <2>1. CASE Publish(r)
    <3>1. request[r].on \in Assets \ {a}
      BY <2>1, RequestTyped, ReviewTypeParts DEF Publish
    <3> QED
      BY <2>1, <3>1 DEF Publish
  <2> QED
    BY <1>4, <2>1, HandleFrame
<1> QED
  BY <1>1, <1>2, <1>3, <1>4 DEF ReviewNext

\* What a publication adds is what it had found.
LEMMA PostAdded ==
  ASSUME ReviewTypeOK, NEW r \in Requests, Publish(r), NEW a \in Assets, request[r].on = a
  PROVE  /\ Len(posts'[a]) = Len(posts[a]) + 1
         /\ \A i \in DOMAIN posts'[a] :
              \/ i \in DOMAIN posts[a] /\ posts'[a][i] = posts[a][i]
              \/ posts'[a][i].words = request[r].words /\ posts'[a][i].url = request[r].media
<1> DEFINE p == [words |-> request[r].words, url |-> request[r].media, sent |-> FALSE]
<1>1. request[r] \in ReviewRequest
  BY RequestTyped, ReviewTypeParts DEF Publish
<1>2. p \in AssetPost
  BY <1>1 DEF ReviewRequest, AssetPost
<1>3. posts[a] \in Seq(AssetPost) /\ posts'[a] = Append(posts[a], p)
  BY DEF Publish, ReviewTypeOK
<1> HIDE DEF p
<1>4. Len(posts'[a]) = Len(posts[a]) + 1 /\ DOMAIN posts'[a] = 1..(Len(posts[a]) + 1)
  BY <1>2, <1>3
<1>5. \A i \in 1..Len(posts[a]) : posts'[a][i] = posts[a][i]
  BY <1>2, <1>3
<1>6. posts'[a][Len(posts[a]) + 1] = p
  BY <1>2, <1>3
<1>7. p.words = request[r].words /\ p.url = request[r].media
  BY DEF p
<1>8. DOMAIN posts[a] = 1..Len(posts[a]) /\ Len(posts[a]) \in Nat
  BY <1>3
<1> QED
  BY <1>4, <1>5, <1>6, <1>7, <1>8

\* What somebody is deciding, choosing or wording he has been since before, or he finds it now.
LEMMA BusyStays ==
  ASSUME ReviewTypeOK, ReviewNext, NEW q \in Requests,
         NEW op \in {"publish", "approve", "edit", "rewrite", "choose"}, NEW a \in Assets,
         BusyWith(q, op, a)'
  PROVE  \/ BusyWith(q, op, a) /\ request'[q] = request[q]
         \/ Find(q, op, a) /\ request'[q] = Found(op, a)
<1>1. CASE Generate \/ \E b \in Assets : Bulk(b, "APPROVED") \/ Bulk(b, "REJECTED") \/ Deliver(b)
  <2>1. UNCHANGED request
    BY <1>1 DEF Generate, Bulk, Deliver
  <2> QED
    BY <2>1 DEF BusyWith, Doing
<1>2. ASSUME NEW r \in Requests, Handle(r)
      PROVE  \/ BusyWith(q, op, a) /\ request'[q] = request[q]
             \/ Find(q, op, a) /\ request'[q] = Found(op, a)
  BY <1>2, BusyNext DEF Op
<1> QED
  BY <1>1, <1>2 DEF ReviewNext

\* Who finds an asset that somebody else is busy with has crossed him.
LEMMA Crossed ==
  ASSUME ReviewTypeOK, NEW q \in Requests, NEW op \in Op, NEW a \in Assets, Find(q, op, a),
         NEW r \in Requests \ {q}, NEW o \in Op, BusyWith(r, o, a)'
  PROVE  BusyWith(r, o, a) /\ Crossings(op, {o}) \subseteq crossed'[a]
<1>1. BusyWith(r, o, a)
  BY DEF Find, BusyWith, Doing, ReviewTypeOK
<1>2. o \in Beside(q, a)
  BY <1>1 DEF Beside, BusyWith, Doing
<1>3. Crossings(op, {o}) \subseteq Crossings(op, Beside(q, a))
  BY <1>2 DEF Crossings
<1>4. Crossings(op, Beside(q, a)) \subseteq crossed'[a]
  BY CrossTyped, ReviewTypeParts DEF Find
<1> QED
  BY <1>1, <1>3, <1>4

\* Posts stay accounted for by approvals while no two publications overlap.
LEMMA AccountedNext ==
  ASSUME ReviewTypeOK, ReviewNext, NEW a \in Assets, Accounted(a)
  PROVE  Accounted(a)'
<1> SUFFICES ASSUME "publishes" \notin crossed'[a] PROVE Accounted(a)'
  BY DEF Accounted
<1>1. "publishes" \notin crossed[a]
  BY MarksGrow
<1>2. Len(posts[a]) \in Nat /\ approvals[a] \in Nat
  BY DEF ReviewTypeOK
<1>3. ASSUME NEW q \in Requests, NEW r \in Requests, BusyWith(q, "publish", a)',
             BusyWith(r, "publish", a)', q # r
      PROVE  FALSE
  <2>1. "publishes" \in Crossings("publish", {"publish"})
    BY DEF Crossings, Crossing
  <2>2. ~ Find(q, "publish", a) /\ ~ Find(r, "publish", a)
    BY <1>3, <2>1, Crossed DEF Op
  <2> QED
    BY <1>1, <1>3, <2>2, BusyStays DEF Accounted
<1>4. CASE \E r \in Requests : Publish(r) /\ request[r].on = a
  <2>1. PICK r \in Requests : Publish(r) /\ request[r].on = a
    BY <1>4
  <2>2. BusyWith(r, "publish", a)
    BY <2>1 DEF Publish, BusyWith
  <2>3. Len(posts'[a]) = Len(posts[a]) + 1
    BY <2>1, PostAdded
  <2>4. UNCHANGED approvals /\ status'[a] = "SCHEDULED"
    BY <2>1 DEF Publish, reviewHistory, SetStatus, ReviewTypeOK
  <2>5. \A q \in Requests : ~ BusyWith(q, "publish", a)'
    <3>1. ~ BusyWith(r, "publish", a)'
      BY <2>1, AnswerTyped, ReviewTypeParts DEF Publish, BusyWith, Doing
    <3>2. \A q \in Requests \ {r} : request'[q] = request[q]
      BY <2>1, AnswerTyped, ReviewTypeParts DEF Publish
    <3> QED
      BY <1>1, <2>2, <3>1, <3>2 DEF Accounted, BusyWith, Doing
  <2> QED
    BY <1>1, <1>2, <1>3, <2>2, <2>3, <2>4, <2>5 DEF Accounted
<1>5. CASE ~ \E r \in Requests : Publish(r) /\ request[r].on = a
  <2>1. Len(posts'[a]) = Len(posts[a])
    BY <1>5, PostsStay
  <2>2. approvals'[a] \in Nat /\ approvals'[a] >= approvals[a]
    BY ApprovalsCount, ReviewTypeNext DEF ReviewTypeOK
  <2>3. status'[a] = "APPROVED" => Len(posts[a]) < approvals'[a]
    BY <1>1, <1>2, <2>2, ApprovalsCount DEF Accounted
  <2>4. ASSUME NEW r \in Requests, BusyWith(r, "publish", a)'
        PROVE  Len(posts[a]) < approvals'[a]
    <3>1. CASE BusyWith(r, "publish", a)
      BY <1>1, <1>2, <2>2, <3>1 DEF Accounted
    <3>2. CASE Find(r, "publish", a)
      BY <1>1, <1>2, <2>2, <3>2 DEF Accounted, Find, Allowed, Publishable
    <3> QED
      BY <2>4, <3>1, <3>2, BusyStays
  <2> QED
    BY <1>1, <1>2, <1>3, <2>1, <2>2, <2>3, <2>4 DEF Accounted
<1> QED
  BY <1>4, <1>5

-----------------------------------------------------------------------------
(* Words.                                                                    *)

\* While no approval overlapped a new wording and nobody added to the prompt, what is
\* approved, what is being published and what the posts say are words an approval had read,
\* and what is being approved are the words there are.
Worded(a) ==
  a \notin instructed /\ "wordings" \notin crossed[a] =>
    /\ status[a] = "APPROVED" => words[a] \in vetted[a].words
    /\ \A i \in DOMAIN posts[a] : posts[a][i].words \in vetted[a].words
    /\ \A r \in Requests :
         /\ BusyWith(r, "publish", a) => request[r].words \in vetted[a].words
         /\ BusyWith(r, "approve", a) => request[r].words = words[a]
         /\ BusyWith(r, "edit", a) /\ status[a] = "APPROVED" => request[r].status = "APPROVED"
    /\ \A q, r \in Requests :
         ~ (BusyWith(q, "approve", a) /\ (BusyWith(r, "edit", a) \/ BusyWith(r, "rewrite", a)))

\* What an approval had read is not forgotten.
LEMMA VettedGrows ==
  ASSUME ReviewTypeOK, ReviewNext, NEW a \in Assets, kind[a] # "absent"
  PROVE  /\ vetted[a].words \subseteq vetted'[a].words
         /\ vetted[a].pictures \subseteq vetted'[a].pictures
<1> USE DEF ReviewTypeOK
<1>1. CASE UNCHANGED vetted
  BY <1>1
<1>2. ASSUME NEW b \in Assets, NEW W, NEW P,
             vetted' = [vetted EXCEPT ![b] = [words |-> @.words \cup W,
                                              pictures |-> @.pictures \cup P]]
      PROVE  /\ vetted[a].words \subseteq vetted'[a].words
             /\ vetted[a].pictures \subseteq vetted'[a].pictures
  BY <1>2
<1>3. CASE Generate \/ \E b \in Assets : Deliver(b)
  BY <1>1, <1>3 DEF Generate, Deliver, reviewHistory
<1>4. ASSUME NEW b \in Assets, Bulk(b, "APPROVED") \/ Bulk(b, "REJECTED")
      PROVE  /\ vetted[a].words \subseteq vetted'[a].words
             /\ vetted[a].pictures \subseteq vetted'[a].pictures
  BY <1>1, <1>2, <1>4 DEF Bulk
<1>5. ASSUME NEW r \in Requests, Handle(r)
      PROVE  /\ vetted[a].words \subseteq vetted'[a].words
             /\ vetted[a].pictures \subseteq vetted'[a].pictures
  <2>1. CASE Approve(r)
    <3>1. request[r].on \in Assets
      BY <2>1, RequestTyped, ReviewTypeParts DEF Approve, Move
    <3> QED
      BY <1>2, <2>1, <3>1 DEF Approve
  <2>2. CASE Keep(r)
    BY <2>2 DEF Keep
  <2> QED
    BY <1>1, <1>5, <2>1, <2>2, HandleFrame
<1> QED
  BY <1>3, <1>4, <1>5 DEF ReviewNext

\* Words change in a new wording.
LEMMA WordsStay ==
  ASSUME ReviewTypeOK, ReviewNext, NEW a \in Assets, kind[a] # "absent", a \notin instructed'
  PROVE  \/ words'[a] = words[a]
         \/ \E r \in Requests : (Edit(r) \/ Rewrite(r)) /\ request[r].on = a
<1> USE DEF ReviewTypeOK
<1>1. CASE Generate
  BY <1>1 DEF Generate
<1>2. CASE \E b \in Assets : Bulk(b, "APPROVED") \/ Bulk(b, "REJECTED") \/ Deliver(b)
  BY <1>2 DEF Bulk, Deliver, rowVars
<1>3. ASSUME NEW r \in Requests, Handle(r)
      PROVE  words'[a] = words[a] \/ ((Edit(r) \/ Rewrite(r)) /\ request[r].on = a)
  <2>1. CASE Edit(r) \/ Rewrite(r)
    BY <2>1 DEF Edit, Rewrite
  <2>2. CASE Duplicate(r)
    BY <2>2 DEF Duplicate
  <2>3. CASE Instruct(r)
    BY <2>3 DEF Instruct
  <2> QED
    BY <1>3, <2>1, <2>2, <2>3, HandleFrame
<1> QED
  BY <1>1, <1>2, <1>3 DEF ReviewNext

\* A keep makes asset a of what it had found.
Keeps(r, a) ==
  /\ Keep(r) /\ Doing(r, "keep")
  /\ kind[a] = "absent" /\ UNCHANGED <<words, file>>
  /\ media'[a] = request[r].media /\ offered'[a] = {request[r].media}
  /\ vetted'[a] = [words |-> {0}, pictures |-> request[r].pictures]

\* It makes one, and leaves the others alone.
LEMMA KeepsOne ==
  ASSUME ReviewTypeOK, NEW r \in Requests, Keep(r)
  PROVE  \E n \in Assets :
           /\ Keeps(r, n)
           /\ \A b \in Assets \ {n} :
                /\ status'[b] = status[b] /\ media'[b] = media[b] /\ offered'[b] = offered[b]
                /\ vetted'[b] = vetted[b]
<1>1. PICK n \in Assets :
        /\ kind[n] = "absent"
        /\ status' = [status EXCEPT ![n] = "APPROVED"]
        /\ media' = [media EXCEPT ![n] = request[r].media]
        /\ offered' = [offered EXCEPT ![n] = {request[r].media}]
        /\ vetted' = [vetted EXCEPT ![n] = [words |-> {0}, pictures |-> request[r].pictures]]
  BY DEF Keep, SetStatus
<1>2. Keeps(r, n)
  BY <1>1 DEF Keep, Keeps, ReviewTypeOK
<1>3. ASSUME NEW b \in Assets \ {n}
      PROVE  /\ status'[b] = status[b] /\ media'[b] = media[b] /\ offered'[b] = offered[b]
             /\ vetted'[b] = vetted[b]
  BY <1>1 DEF ReviewTypeOK
<1> QED
  BY <1>2, <1>3

\* Who approves.
LEMMA WhoApproves ==
  ASSUME ReviewTypeOK, ReviewNext, NEW a \in Assets, status'[a] = "APPROVED",
         status[a] # "APPROVED"
  PROVE  \/ \E r \in Requests : Approve(r) /\ request[r].on = a
         \/ Bulk(a, "APPROVED")
         \/ \E r \in Requests : Keeps(r, a)
<1> USE DEF ReviewTypeOK
<1>1. CASE Generate \/ \E b \in Assets : Deliver(b)
  BY <1>1 DEF Generate, Deliver, rowVars
<1>2. ASSUME NEW b \in Assets, Bulk(b, "APPROVED") \/ Bulk(b, "REJECTED")
      PROVE  Bulk(a, "APPROVED")
  BY <1>2 DEF Bulk, SetStatus
<1>3. ASSUME NEW r \in Requests, Handle(r)
      PROVE  \/ Approve(r) /\ request[r].on = a
             \/ Keeps(r, a)
  <2>1. CASE Approve(r)
    BY <2>1 DEF Approve, Move, SetStatus
  <2>2. CASE Keep(r)
    <3>1. PICK n \in Assets : Keeps(r, n) /\ \A b \in Assets \ {n} : status'[b] = status[b]
      BY <2>2, KeepsOne
    <3> QED
      BY <3>1
  <2>3. CASE Reject(r) \/ Schedule(r)
    BY <2>3 DEF Reject, Schedule, Move, SetStatus
  <2>4. CASE status' = status \/ Edit(r) \/ Rewrite(r) \/ Publish(r)
    BY <2>4 DEF Edit, Rewrite, Publish, SetStatus, Edited
  <2>5. CASE Attach(r) \/ RecordFailure(r)
    BY <2>5 DEF Attach, RecordFailure, SetStatus, StatusFailed
  <2> QED
    BY <1>3, <2>1, <2>2, <2>3, <2>4, <2>5, HandleFrame
<1> QED
  BY <1>1, <1>2, <1>3 DEF ReviewNext

\* A bulk approval of an asset somebody is wording has crossed him.
LEMMA BulkCrossed ==
  ASSUME ReviewTypeOK, NEW a \in Assets, NEW s, Bulk(a, s), NEW r \in Requests,
         NEW o \in Op, BusyWith(r, o, a)
  PROVE  Crossings("approve", {o}) \subseteq crossed'[a]
<1>1. o \in Beside(Nothing, a)
  BY ReviewAssumption DEF Beside, BusyWith, Doing, ReviewAssumption
<1>2. Crossings("approve", {o}) \subseteq Crossings("approve", Beside(Nothing, a))
  BY <1>1 DEF Crossings
<1>3. Crossings("approve", Beside(Nothing, a)) \subseteq crossed'[a]
  BY CrossTyped, ReviewTypeParts DEF Bulk
<1> QED
  BY <1>2, <1>3

\* Nobody approves what is being worded.
LEMMA WordingAlone ==
  ASSUME ReviewTypeOK, ReviewNext, NEW a \in Assets, Worded(a), a \notin instructed,
         "wordings" \notin crossed'[a], NEW q \in Requests, NEW r \in Requests,
         NEW op \in {"edit", "rewrite"}, BusyWith(q, "approve", a)', BusyWith(r, op, a)'
  PROVE  FALSE
<1>1. "wordings" \notin crossed[a]
  BY MarksGrow
<1>2. q # r
  BY DEF BusyWith, Doing
<1>3. /\ "wordings" \in Crossings("approve", {op})
      /\ "wordings" \in Crossings(op, {"approve"})
  BY DEF Crossings, Crossing
<1>4. op \in Op /\ "approve" \in Op
  BY DEF Op
<1>5. ~ Find(q, "approve", a)
  BY <1>2, <1>3, <1>4, Crossed
<1>6. ~ Find(r, op, a)
  BY <1>2, <1>3, <1>4, Crossed
<1> QED
  BY <1>1, <1>5, <1>6, BusyStays DEF Worded

\* Approved words stay those of the row, and of its posts, while no wordings overlap.
LEMMA WordedNext ==
  ASSUME ReviewTypeOK, \A b \in Assets : Blank(b) /\ Worded(b), ReviewNext, NEW a \in Assets
  PROVE  Worded(a)'
<1> SUFFICES ASSUME a \notin instructed', "wordings" \notin crossed'[a]
             PROVE  Worded(a)'
  BY DEF Worded
<1>1. a \notin instructed /\ "wordings" \notin crossed[a]
  BY MarksGrow
<1>2. Worded(a) /\ Blank(a)
  OBVIOUS
<1>3. \A q, r \in Requests :
        ~ (BusyWith(q, "approve", a) /\ (BusyWith(r, "edit", a) \/ BusyWith(r, "rewrite", a)))'
  BY <1>1, <1>2, WordingAlone
<1>4. kind[a] # "absent" => vetted[a].words \subseteq vetted'[a].words
  BY VettedGrows
<1>5. ASSUME NEW r \in Requests, NEW op \in Op, BusyWith(r, op, a), op # "keep"
      PROVE  kind[a] # "absent"
  BY <1>2, <1>5 DEF Blank
<1>6. ASSUME NEW r \in Requests, Edit(r) \/ Rewrite(r), request[r].on = a
      PROVE  /\ \E op \in {"edit", "rewrite"} : BusyWith(r, op, a)
             /\ status'[a] # "APPROVED"
  <2>1. CASE Edit(r)
    <3>1. BusyWith(r, "edit", a)
      BY <1>6, <2>1 DEF Edit, BusyWith
    <3>2. status'[a] = Edited(request[r].status, status[a])
      BY <1>6, <2>1 DEF Edit, SetStatus, ReviewTypeOK
    <3> QED
      BY <1>1, <1>2, <3>1, <3>2 DEF Worded, Edited
  <2>2. CASE Rewrite(r)
    BY <1>6, <2>2 DEF Rewrite, BusyWith, SetStatus, ReviewTypeOK
  <2> QED
    BY <1>6, <2>1, <2>2
<1>7. ASSUME status'[a] = "APPROVED"
      PROVE  words'[a] \in vetted'[a].words
  <2>1. CASE status[a] = "APPROVED"
    <3>1. kind[a] # "absent"
      BY <1>2, <2>1 DEF Blank
    <3>2. words'[a] = words[a]
      BY <1>6, <1>7, <3>1, WordsStay
    <3> QED
      BY <1>1, <1>2, <1>4, <2>1, <3>1, <3>2 DEF Worded
  <2>2. ASSUME NEW r \in Requests, Approve(r), request[r].on = a
        PROVE  words'[a] \in vetted'[a].words
    <3>1. BusyWith(r, "approve", a)
      BY <2>2 DEF Approve, Move, BusyWith
    <3>2. words'[a] = request[r].words
      BY <1>1, <1>2, <2>2, <3>1 DEF Worded, Approve, Move
    <3> QED
      BY <2>2, <3>2 DEF Approve, ReviewTypeOK
  <2>3. CASE Bulk(a, "APPROVED")
    BY <2>3 DEF Bulk, ReviewTypeOK
  <2>4. CASE \E r \in Requests : Keeps(r, a)
    BY <1>2, <2>4 DEF Blank, Keeps
  <2> QED
    BY <1>7, <2>1, <2>2, <2>3, <2>4, WhoApproves
<1>8. ASSUME NEW i \in DOMAIN posts'[a]
      PROVE  posts'[a][i].words \in vetted'[a].words
  <2>1. ASSUME NEW r \in Requests, Publish(r), request[r].on = a
        PROVE  posts'[a][i].words \in vetted'[a].words
    <3>1. BusyWith(r, "publish", a) /\ UNCHANGED vetted
      BY <2>1 DEF Publish, BusyWith, reviewHistory
    <3>2. request[r].words \in vetted[a].words
      BY <1>1, <1>2, <3>1 DEF Worded
    <3>3. \/ i \in DOMAIN posts[a] /\ posts'[a][i] = posts[a][i]
          \/ posts'[a][i].words = request[r].words
      BY <1>8, <2>1, PostAdded
    <3>4. \A j \in DOMAIN posts[a] : posts[a][j].words \in vetted[a].words
      BY <1>1, <1>2 DEF Worded
    <3> QED
      BY <3>1, <3>2, <3>3, <3>4
  <2>2. CASE ~ \E r \in Requests : Publish(r) /\ request[r].on = a
    <3>1. i \in DOMAIN posts[a] /\ posts'[a][i].words = posts[a][i].words
      BY <1>8, <2>2, PostsStay
    <3>2. kind[a] # "absent"
      BY <1>2, <3>1 DEF Blank
    <3> QED
      BY <1>1, <1>2, <1>4, <3>1, <3>2 DEF Worded
  <2> QED
    BY <2>1, <2>2
<1>9. ASSUME NEW r \in Requests, BusyWith(r, "publish", a)'
      PROVE  request'[r].words \in vetted'[a].words
  <2>1. CASE BusyWith(r, "publish", a) /\ request'[r] = request[r]
    BY <1>1, <1>2, <1>4, <1>5, <2>1 DEF Worded, Op
  <2>2. CASE Find(r, "publish", a) /\ request'[r] = Found("publish", a)
    BY <1>1, <1>2, <2>2 DEF Find, Found, Allowed, Publishable, Worded
  <2> QED
    BY <1>9, <2>1, <2>2, BusyStays
<1>10. ASSUME NEW r \in Requests, BusyWith(r, "approve", a)'
       PROVE  request'[r].words = words'[a]
  <2>1. CASE BusyWith(r, "approve", a) /\ request'[r] = request[r]
    <3>1. kind[a] # "absent"
      BY <1>5, <2>1 DEF Op
    <3>2. words'[a] = words[a]
      BY <1>1, <1>2, <1>6, <2>1, <3>1, WordsStay DEF Worded
    <3> QED
      BY <1>1, <1>2, <2>1, <3>2 DEF Worded
  <2>2. CASE Find(r, "approve", a) /\ request'[r] = Found("approve", a)
    BY <2>2 DEF Find, Found, rowVars
  <2> QED
    BY <1>10, <2>1, <2>2, BusyStays
<1>11. ASSUME NEW r \in Requests, BusyWith(r, "edit", a)', status'[a] = "APPROVED"
       PROVE  request'[r].status = "APPROVED"
  <2>1. CASE Find(r, "edit", a) /\ request'[r] = Found("edit", a)
    BY <1>11, <2>1 DEF Find, Found, rowVars
  <2>2. CASE BusyWith(r, "edit", a) /\ request'[r] = request[r]
    <3>1. CASE status[a] = "APPROVED"
      BY <1>1, <1>2, <2>2, <3>1 DEF Worded
    <3>2. ASSUME NEW q \in Requests, Approve(q), request[q].on = a
          PROVE  FALSE
      BY <1>1, <1>2, <2>2, <3>2 DEF Worded, Approve, Move, BusyWith
    <3>3. ~ Bulk(a, "APPROVED")
      <4>1. "wordings" \in Crossings("approve", {"edit"})
        BY DEF Crossings, Crossing
      <4> QED
        BY <2>2, <4>1, BulkCrossed DEF Op
    <3>4. kind[a] # "absent"
      BY <1>5, <2>2 DEF Op
    <3> QED
      BY <1>11, <3>1, <3>2, <3>3, <3>4, WhoApproves DEF Keeps
  <2> QED
    BY <1>11, <2>1, <2>2, BusyStays
<1> QED
  BY <1>3, <1>7, <1>8, <1>9, <1>10, <1>11 DEF Worded

-----------------------------------------------------------------------------
(* Artwork.                                                                  *)

\* Artwork that nobody approved in bulk has a picture when it is being approved, and from
\* then on to its posts.
HasArtwork(a) ==
  /\ kind[a] = "artwork" =>
       \A r \in Requests : BusyWith(r, "approve", a) => media[a] # Nothing
  /\ kind[a] = "artwork" /\ a \notin bulked =>
       /\ status[a] = "APPROVED" => media[a] # Nothing
       /\ \A r \in Requests : BusyWith(r, "publish", a) => request[r].media # Nothing
       /\ \A i \in DOMAIN posts[a] : posts[a][i].url # Nothing

\* What shows a picture is of an asset that has one.
ShowsArtwork(a) ==
  /\ \A r \in Requests : BusyWith(r, "publish", a) /\ request[r].media # Nothing =>
       media[a] # Nothing
  /\ \A i \in DOMAIN posts[a] : posts[a][i].url # Nothing => media[a] # Nothing

\* What was approved keeps its artwork.
LEMMA HasArtworkNext ==
  ASSUME ReviewTypeOK, \A b \in Assets : Blank(b) /\ HasArtwork(b), ReviewNext, NEW a \in Assets
  PROVE  HasArtwork(a)'
<1> SUFFICES ASSUME kind'[a] = "artwork" PROVE HasArtwork(a)'
  BY DEF HasArtwork
<1>1. Blank(a) /\ HasArtwork(a)
  OBVIOUS
<1>2. kind[a] = "artwork" \/ kind[a] = "absent"
  BY KindStays DEF ReviewTypeOK
<1>3. a \notin bulked' => a \notin bulked
  BY MarksGrow
<1>4. media[a] # Nothing => media'[a] # Nothing
  BY MediaStays
<1>5. ASSUME NEW r \in Requests, BusyWith(r, "approve", a)'
      PROVE  media'[a] # Nothing
  <2>1. CASE BusyWith(r, "approve", a)
    BY <1>1, <1>2, <1>4, <2>1 DEF HasArtwork, Blank, Op
  <2>2. CASE Find(r, "approve", a)
    BY <1>2, <1>4, <2>2 DEF Find, Visible, Allowed, Approvable
  <2> QED
    BY <1>5, <2>1, <2>2, BusyStays
<1>6. ASSUME a \notin bulked', status'[a] = "APPROVED"
      PROVE  media'[a] # Nothing
  <2>1. CASE status[a] = "APPROVED"
    BY <1>1, <1>2, <1>3, <1>4, <1>6, <2>1 DEF HasArtwork, Blank
  <2>2. ASSUME NEW r \in Requests, Approve(r), request[r].on = a
        PROVE  media'[a] # Nothing
    BY <1>1, <1>2, <1>4, <2>2 DEF Approve, Move, BusyWith, HasArtwork, Blank, Op
  <2>3. ~ Bulk(a, "APPROVED")
    BY <1>6 DEF Bulk
  <2>4. CASE \E r \in Requests : Keeps(r, a)
    BY <2>4, KeptMedia DEF Keeps
  <2> QED
    BY <1>6, <2>1, <2>2, <2>3, <2>4, WhoApproves
<1>7. ASSUME a \notin bulked', NEW r \in Requests, BusyWith(r, "publish", a)'
      PROVE  request'[r].media # Nothing
  <2>1. CASE BusyWith(r, "publish", a) /\ request'[r] = request[r]
    BY <1>1, <1>2, <1>3, <1>7, <2>1 DEF HasArtwork, Blank, Op
  <2>2. CASE Find(r, "publish", a) /\ request'[r] = Found("publish", a)
    BY <1>1, <1>2, <1>3, <1>7, <2>2
    DEF Find, Found, Visible, Allowed, Publishable, HasArtwork
  <2> QED
    BY <1>7, <2>1, <2>2, BusyStays
<1>8. ASSUME a \notin bulked', NEW i \in DOMAIN posts'[a]
      PROVE  posts'[a][i].url # Nothing
  <2>1. \A j \in DOMAIN posts[a] : posts[a][j].url # Nothing
    BY <1>1, <1>2, <1>3, <1>8 DEF HasArtwork, Blank
  <2>2. ASSUME NEW r \in Requests, Publish(r), request[r].on = a
        PROVE  posts'[a][i].url # Nothing
    <3>1. request[r].media # Nothing
      BY <1>1, <1>2, <1>3, <1>8, <2>2 DEF Publish, BusyWith, HasArtwork, Blank, Op
    <3>2. \/ i \in DOMAIN posts[a] /\ posts'[a][i] = posts[a][i]
          \/ posts'[a][i].url = request[r].media
      BY <1>8, <2>2, PostAdded
    <3> QED
      BY <2>1, <3>1, <3>2
  <2>3. CASE ~ \E r \in Requests : Publish(r) /\ request[r].on = a
    <3>1. i \in DOMAIN posts[a] /\ posts'[a][i].url = posts[a][i].url
      BY <1>8, <2>3, PostsStay
    <3> QED
      BY <2>1, <3>1
  <2> QED
    BY <2>2, <2>3
<1> QED
  BY <1>5, <1>6, <1>7, <1>8 DEF HasArtwork

\* A post with a picture is of a row with one.
LEMMA ShowsArtworkNext ==
  ASSUME ReviewTypeOK, ReviewNext, NEW a \in Assets, ShowsArtwork(a)
  PROVE  ShowsArtwork(a)'
<1>1. media[a] # Nothing => media'[a] # Nothing
  BY MediaStays
<1>2. ASSUME NEW r \in Requests, BusyWith(r, "publish", a)', request'[r].media # Nothing
      PROVE  media'[a] # Nothing
  <2>1. CASE BusyWith(r, "publish", a) /\ request'[r] = request[r]
    BY <1>1, <1>2, <2>1 DEF ShowsArtwork
  <2>2. CASE Find(r, "publish", a) /\ request'[r] = Found("publish", a)
    BY <1>1, <1>2, <2>2 DEF Found
  <2> QED
    BY <1>2, <2>1, <2>2, BusyStays
<1>3. ASSUME NEW i \in DOMAIN posts'[a], posts'[a][i].url # Nothing
      PROVE  media'[a] # Nothing
  <2>1. \A j \in DOMAIN posts[a] : posts[a][j].url # Nothing => media'[a] # Nothing
    BY <1>1 DEF ShowsArtwork
  <2>2. ASSUME NEW r \in Requests, Publish(r), request[r].on = a
        PROVE  media'[a] # Nothing
    <3>1. request[r].media # Nothing => media'[a] # Nothing
      BY <1>1, <2>2 DEF Publish, BusyWith, ShowsArtwork
    <3>2. \/ i \in DOMAIN posts[a] /\ posts'[a][i] = posts[a][i]
          \/ posts'[a][i].url = request[r].media
      BY <1>3, <2>2, PostAdded
    <3> QED
      BY <1>3, <2>1, <3>1, <3>2
  <2>3. CASE ~ \E r \in Requests : Publish(r) /\ request[r].on = a
    <3>1. i \in DOMAIN posts[a] /\ posts'[a][i].url = posts[a][i].url
      BY <1>3, <2>3, PostsStay
    <3> QED
      BY <1>3, <2>1, <3>1
  <2> QED
    BY <2>2, <2>3
<1> QED
  BY <1>2, <1>3 DEF ShowsArtwork

-----------------------------------------------------------------------------
(* Drawings.                                                                 *)

\* While no two drawings of an asset overlapped, one is in progress at most, and a failure
\* is written of an asset without a picture only.
DrawnOnce(a) ==
  "drawings" \notin crossed[a] =>
    /\ \A q, r \in Requests : Draws(q, a) /\ Draws(r, a) => q = r
    /\ status[a] = "FAILED" => media[a] = Nothing
    /\ \A r \in Requests :
         BusyWith(r, "failing", a) /\ request[r].media = Nothing => media[a] = Nothing

\* Who draws has drawn before, or begins to.
LEMMA DrawsNext ==
  ASSUME ReviewTypeOK, ReviewNext, NEW q \in Requests, NEW a \in Assets, Draws(q, a)'
  PROVE  \/ Draws(q, a)
         \/ \E op \in {"draw", "force"} : Find(q, op, a)
         \/ DrawAnew(q) /\ BusyWith(q, "again", a)
<1>1. PICK op \in {"draw", "force", "failing"} : BusyWith(q, op, a)'
  BY DEF Draws
<1>2. CASE Generate \/ \E b \in Assets : Bulk(b, "APPROVED") \/ Bulk(b, "REJECTED") \/ Deliver(b)
  <2>1. UNCHANGED request
    BY <1>2 DEF Generate, Bulk, Deliver
  <2> QED
    BY <2>1 DEF BusyWith, Doing, Draws
<1>3. ASSUME NEW r \in Requests, Handle(r)
      PROVE  \/ Draws(q, a)
             \/ \E o \in {"draw", "force"} : Find(q, o, a)
             \/ DrawAnew(q) /\ BusyWith(q, "again", a)
  <2>1. op \in Op
    BY DEF Op
  <2>2. ~ Find(q, "failing", a)
    BY DEF Find, Allowed
  <2> QED
    BY <1>1, <1>3, <2>1, <2>2, BusyNext DEF Draws
<1> QED
  BY <1>2, <1>3 DEF ReviewNext

\* Who begins to draw beside another drawing has crossed it.
LEMMA DrawingCrossed ==
  ASSUME ReviewTypeOK, NEW a \in Assets, NEW q \in Requests, NEW r \in Requests, q # r,
         Draws(q, a)', Draws(r, a)',
         (\E op \in {"draw", "force"} : Find(q, op, a)) \/ (DrawAnew(q) /\ BusyWith(q, "again", a))
  PROVE  "drawings" \in crossed'[a]
<1>1. PICK o \in {"draw", "force", "failing"} : BusyWith(r, o, a)'
  BY DEF Draws
<1>2. \A op \in {"draw", "force"} : "drawings" \in Crossings(op, {o})
  BY DEF Crossings, Crossing
<1>3. ASSUME NEW op \in {"draw", "force"}, Find(q, op, a)
      PROVE  "drawings" \in crossed'[a]
  <2>1. o \in Op /\ op \in Op
    BY DEF Op
  <2>2. Crossings(op, {o}) \subseteq crossed'[a]
    BY <1>1, <1>3, <2>1, Crossed
  <2> QED
    BY <1>2, <2>2
<1>4. CASE DrawAnew(q) /\ BusyWith(q, "again", a)
  <2>1. ~ Answer(q)
    BY DEF Draws, BusyWith, Doing, Answer, ReviewTypeOK
  <2>2. /\ request' = [request EXCEPT ![q] = Found("force", a)]
        /\ Cross(a, Crossings("force", Beside(q, a)))
    BY <1>4, <2>1 DEF DrawAnew, BusyWith
  <2>3. o \in Beside(q, a)
    BY <1>1, <2>2 DEF Beside, BusyWith, Doing, ReviewTypeOK
  <2>4. Crossings("force", {o}) \subseteq Crossings("force", Beside(q, a))
    BY <2>3 DEF Crossings
  <2>5. Crossings("force", Beside(q, a)) \subseteq crossed'[a]
    BY <2>2, CrossTyped, ReviewTypeParts
  <2> QED
    BY <1>2, <2>4, <2>5
<1> QED
  BY <1>3, <1>4

\* A request that shows a drawing is in the middle of it.
LEMMA AttachDraws ==
  ASSUME ReviewTypeOK, NEW r \in Requests, Attach(r) \/ (\E v \in Variants : StorePicture(r, v))
  PROVE  /\ request[r].on \in Assets /\ Draws(r, request[r].on)
         /\ BusyWith(r, "draw", request[r].on) \/ BusyWith(r, "force", request[r].on)
         /\ ~ BusyWith(r, "failing", request[r].on)
<1>1. \E op \in {"draw", "force"} : Doing(r, op)
  BY DEF Attach, StorePicture, Drawing
<1>2. request[r].on \in Assets
  BY <1>1, RequestTyped, ReviewTypeParts
<1> QED
  BY <1>1, <1>2 DEF Draws, BusyWith, Doing

\* Who gives an asset its first picture: a drawing, or a keep that creates the asset.
LEMMA WhoPictures ==
  ASSUME ReviewTypeOK, ReviewNext, NEW a \in Assets, Pictured(a), media[a] = Nothing,
         media'[a] # Nothing
  PROVE  kind[a] = "absent" \/ \E r \in Requests : Attach(r) /\ request[r].on = a
<1> USE DEF ReviewTypeOK
<1>1. CASE Generate \/ \E b \in Assets : Bulk(b, "APPROVED") \/ Bulk(b, "REJECTED") \/ Deliver(b)
  BY <1>1 DEF Generate, Bulk, Deliver, rowVars
<1>2. ASSUME NEW r \in Requests, Handle(r)
      PROVE  kind[a] = "absent" \/ (Attach(r) /\ request[r].on = a)
  <2>1. CASE ChooseVariant(r)
    <3>1. request[r].on # a
      BY <2>1, ChosenMedia DEF Pictured
    <3> QED
      BY <2>1, <3>1, ChosenMedia
  <2>2. CASE Keep(r)
    BY <2>2 DEF Keep
  <2>3. CASE Attach(r)
    BY <2>3, AttachedMedia
  <2> QED
    BY <1>2, <2>1, <2>2, <2>3, HandleFrame
<1> QED
  BY <1>1, <1>2 DEF ReviewNext

\* Who reports a failure.
LEMMA WhoFails ==
  ASSUME ReviewTypeOK, ReviewNext, NEW a \in Assets, status'[a] = "FAILED", status[a] # "FAILED"
  PROVE  \E r \in Requests : /\ BusyWith(r, "failing", a) /\ request[r].media = Nothing
                             /\ UNCHANGED media
<1> USE DEF ReviewTypeOK
<1>1. CASE Generate \/ \E b \in Assets : Bulk(b, "APPROVED") \/ Bulk(b, "REJECTED") \/ Deliver(b)
  BY <1>1 DEF Generate, Bulk, Deliver, SetStatus, rowVars
<1>2. ASSUME NEW r \in Requests, Handle(r)
      PROVE  BusyWith(r, "failing", a) /\ request[r].media = Nothing /\ UNCHANGED media
  <2>1. CASE Approve(r) \/ Reject(r) \/ Schedule(r)
    BY <2>1 DEF Approve, Reject, Schedule, Move, SetStatus
  <2>2. CASE status' = status \/ Edit(r) \/ Rewrite(r) \/ Publish(r)
    BY <2>2 DEF Edit, Rewrite, Publish, SetStatus, Edited
  <2>3. CASE Keep(r) \/ Attach(r)
    BY <2>3 DEF Keep, Attach, SetStatus
  <2>4. CASE RecordFailure(r)
    BY <2>4 DEF RecordFailure, SetStatus, StatusFailed, BusyWith
  <2> QED
    BY <1>2, <2>1, <2>2, <2>3, <2>4, HandleFrame
<1> QED
  BY <1>1, <1>2 DEF ReviewNext

\* A drawing that nobody asked for again stays the only one.
LEMMA DrawnOnceNext ==
  ASSUME ReviewTypeOK, \A b \in Assets : Blank(b) /\ Pictured(b) /\ DrawnArtwork(b), ReviewNext,
         NEW a \in Assets, DrawnOnce(a)
  PROVE  DrawnOnce(a)'
<1> SUFFICES ASSUME "drawings" \notin crossed'[a] PROVE DrawnOnce(a)'
  BY DEF DrawnOnce
<1>1. "drawings" \notin crossed[a]
  BY MarksGrow
<1>2. Blank(a) /\ Pictured(a) /\ DrawnArtwork(a)
  OBVIOUS
<1>3. ASSUME NEW q \in Requests, NEW r \in Requests, Draws(q, a)', Draws(r, a)'
      PROVE  q = r
  <2>1. CASE Draws(q, a) /\ Draws(r, a)
    BY <1>1, <2>1 DEF DrawnOnce
  <2> QED
    BY <1>3, <2>1, DrawsNext, DrawingCrossed
<1>4. ASSUME status'[a] = "FAILED"
      PROVE  media'[a] = Nothing
  <2>1. CASE status[a] = "FAILED"
    <3>1. media[a] = Nothing /\ kind[a] # "absent"
      BY <1>1, <1>2, <2>1 DEF DrawnOnce, Blank
    <3>2. ASSUME NEW r \in Requests, Attach(r), request[r].on = a
          PROVE  FALSE
      BY <1>4, <3>2 DEF Attach, SetStatus, ReviewTypeOK
    <3> QED
      BY <1>2, <3>1, <3>2, WhoPictures
  <2>2. CASE status[a] # "FAILED"
    BY <1>1, <1>4, <2>2, WhoFails DEF DrawnOnce
  <2> QED
    BY <2>1, <2>2
<1>5. ASSUME NEW r \in Requests, BusyWith(r, "failing", a)', request'[r].media = Nothing
      PROVE  media'[a] = Nothing
  <2>1. CASE BusyWith(r, "failing", a) /\ request'[r] = request[r]
    <3>1. media[a] = Nothing /\ kind[a] # "absent"
      BY <1>1, <1>2, <1>5, <2>1 DEF DrawnOnce, DrawnArtwork, Draws
    <3>2. ASSUME NEW q \in Requests, Attach(q), request[q].on = a
          PROVE  FALSE
      BY <1>1, <2>1, <3>2, AttachDraws DEF DrawnOnce, Draws
    <3> QED
      BY <1>2, <3>1, <3>2, WhoPictures
  <2>2. CASE DrawingFails(r) /\ request'[r].media = media[a]
    BY <1>5, <2>2 DEF DrawingFails, rowVars
  <2>3. CASE Generate \/ \E b \in Assets : Bulk(b, "APPROVED") \/ Bulk(b, "REJECTED") \/ Deliver(b)
    <3>1. UNCHANGED request
      BY <2>3 DEF Generate, Bulk, Deliver
    <3> QED
      BY <1>5, <2>1, <3>1 DEF BusyWith, Doing
  <2>4. ASSUME NEW q \in Requests, Handle(q)
        PROVE  media'[a] = Nothing
    <3>1. ~ Find(q, "failing", a)
      BY DEF Find, Allowed
    <3> QED
      BY <1>5, <2>1, <2>2, <2>4, <3>1, BusyNext DEF Op
  <2> QED
    BY <2>3, <2>4 DEF ReviewNext
<1> QED
  BY <1>3, <1>4, <1>5 DEF DrawnOnce

-----------------------------------------------------------------------------
(* What an audience sees.                                                    *)

\* The pictures of an asset that are its own drawings.
OwnPictures(a) == {Picture(url) : url \in Faces(a) \cap Own(a)}

\* The address shows what an approval of asset a had read.
Vetted(a, url) == Picture(url) \in vetted[a].pictures

\* While nobody asked for another drawing of an asset and no two of it overlapped, it is
\* drawn before it has a picture only, and what is approved, on its way to a post, in a
\* post or published shows, of its own drawings, those an approval had read.
Shown(a) ==
  Undisturbed(a) =>
    /\ status[a] = "APPROVED" => OwnPictures(a) \subseteq vetted[a].pictures
    /\ \A r \in Requests :
         /\ BusyWith(r, "draw", a) => media[a] = Nothing
         /\ BusyWith(r, "approve", a) => OwnPictures(a) \subseteq request[r].pictures
         /\ \A url \in Own(a) :
              BusyWith(r, "publish", a) /\ request[r].media = url => Vetted(a, url)
    /\ \A url \in Own(a) : \A i \in DOMAIN posts[a] : posts[a][i].url = url => Vetted(a, url)
    /\ \A p \in shown[a] : p[1] \in Own(a) => p \in vetted[a].pictures

\* The choice is among the pictures an asset has, and one that is not its own comes alone,
\* unless a choice overlapped a drawing.
Chosen(a) ==
  "choices" \notin crossed[a] \/ Undisturbed(a) =>
    /\ media[a] # Nothing => media[a] \in offered[a]
    /\ offered[a] \subseteq Own(a) \/ offered[a] = {media[a]}
    /\ \A r \in Requests : BusyWith(r, "choose", a) => request[r].offered \subseteq offered[a]

\* While they do not overlap, nobody chooses what is being drawn.
ChosenAlone(a) ==
  "choices" \notin crossed[a] =>
    \A q, r \in Requests : ~ (BusyWith(q, "choose", a) /\ Draws(r, a))

\* The asset shows the address, may show it, or has a post that does.
Holds(a, url) ==
  \/ url \in Faces(a)
  \/ \E r \in Requests : BusyWith(r, "publish", a) /\ request[r].media = url
  \/ \E r \in Requests : BusyWith(r, "choose", a) /\ url \in request[r].offered
  \/ \E i \in DOMAIN posts[a] : posts[a][i].url = url

\* The drawings of other assets that an asset shows are in the media library, and are what
\* it was approved with when it was kept, unless they were drawn over since.
Foreign(a) ==
  /\ \A url \in Url \ Own(a) :
       Holds(a, url) => url \in gallery /\ (Settled(url) => Vetted(a, url))
  /\ \A p \in shown[a] : p[1] \notin Own(a) /\ Settled(p[1]) => p \in vetted[a].pictures

\* The drawings in the media library are of assets with a picture; what is being kept is
\* one of them, and looks as it did when it was found.
Gallery ==
  /\ \A a \in Assets : \A v \in Variants : <<a, v>> \in gallery => media[a] # Nothing
  /\ \A r \in Requests : \A url \in Url :
       Doing(r, "keep") /\ request[r].media = url =>
         url \in gallery /\ (Settled(url) => Picture(url) \in request[r].pictures)

\* Everything the properties of an asset rest on.
AssetInv(a) ==
  /\ Blank(a) /\ Pictured(a) /\ DrawnArtwork(a) /\ HasArtwork(a) /\ ShowsArtwork(a)
  /\ Accounted(a) /\ Worded(a) /\ DrawnOnce(a) /\ ChosenAlone(a) /\ Chosen(a)
  /\ Shown(a) /\ Foreign(a)

\* A file is written in a drawing of its asset only.
LEMMA WhoStores ==
  ASSUME ReviewTypeOK, ReviewNext, NEW a \in Assets, file'[a] # file[a]
  PROVE  \E r \in Requests : /\ BusyWith(r, "draw", a) \/ BusyWith(r, "force", a)
                             /\ UNCHANGED <<rowVars, request, vetted>>
<1> USE DEF ReviewTypeOK
<1>1. ~ Generate /\ ~ \E b \in Assets : Bulk(b, "APPROVED") \/ Bulk(b, "REJECTED") \/ Deliver(b)
  BY DEF Generate, Bulk, Deliver, drawVars
<1>2. ASSUME NEW r \in Requests, Handle(r)
      PROVE  /\ BusyWith(r, "draw", a) \/ BusyWith(r, "force", a)
             /\ UNCHANGED <<rowVars, request, vetted>>
  <2>1. PICK v \in Variants : StorePicture(r, v)
    BY <1>2, HandleFrame
  <2>2. request[r].on = a
    BY <2>1, AttachDraws DEF StorePicture
  <2> QED
    BY <2>1, <2>2, AttachDraws DEF StorePicture, reviewHistory
<1> QED
  BY <1>1, <1>2 DEF ReviewNext

\* The files of an asset that has a picture are not written again.
LEMMA FilesStay ==
  ASSUME ReviewTypeOK, ReviewNext, NEW a \in Assets, AssetInv(a), Undisturbed(a),
         media[a] # Nothing
  PROVE  file'[a] = file[a]
  BY WhoStores DEF AssetInv, DrawnArtwork, Shown, Undisturbed

\* What is undisturbed has been so.
LEMMA SettledBefore ==
  ASSUME ReviewTypeOK, ReviewNext
  PROVE  /\ \A a \in Assets : Undisturbed(a)' => Undisturbed(a)
         /\ \A url \in Url : Settled(url)' => Settled(url)
<1>1. \A a \in Assets : Undisturbed(a)' => Undisturbed(a)
  BY MarksGrow DEF Undisturbed
<1>2. ASSUME NEW url \in Assets \X Variants, Settled(url)'
      PROVE  Settled(url)
  <2>1. url[1] \in Assets
    OBVIOUS
  <2> QED
    BY <1>1, <1>2, <2>1 DEF Settled
<1> QED
  BY <1>1, <1>2 DEF Settled, Url

\* An address in the media library shows what it did, unless its asset was drawn again.
LEMMA PictureStays ==
  ASSUME ReviewTypeOK, ReviewNext, \A b \in Assets : AssetInv(b), Gallery,
         NEW url \in Url, url \in gallery, Settled(url)
  PROVE  Picture(url)' = Picture(url)
<1>1. CASE url = Library
  BY <1>1 DEF Picture
<1>2. CASE url \in Assets \X Variants
  <2>1. PICK a \in Assets, v \in Variants : url = <<a, v>>
    BY <1>2
  <2>2. url # Library => Undisturbed(a)
    BY <2>1 DEF Settled
  <2>3. media[a] # Nothing
    BY <2>1 DEF Gallery
  <2>4. url # Library => file'[a] = file[a]
    BY <2>2, <2>3, FilesStay
  <2> QED
    BY <2>1, <2>4 DEF Picture
<1> QED
  BY <1>1, <1>2 DEF Url

\* The asset's own addresses show what they did once it has a picture.
LEMMA OwnStays ==
  ASSUME ReviewTypeOK, ReviewNext, NEW a \in Assets, AssetInv(a), Undisturbed(a),
         media[a] # Nothing, NEW url \in Own(a)
  PROVE  Picture(url)' = Picture(url)
<1>1. PICK v \in Variants : url = <<a, v>>
  BY DEF Own
<1>2. file'[a] = file[a]
  BY FilesStay
<1> QED
  BY <1>1, <1>2 DEF Picture

\* A drawing is attached to an asset that has no picture, and that nobody chooses one for,
\* unless it is drawn again or a choice overlaps a drawing.
LEMMA AttachAlone ==
  ASSUME ReviewTypeOK, NEW a \in Assets, AssetInv(a), NEW r \in Requests, Attach(r),
         request[r].on = a
  PROVE  /\ Undisturbed(a) => media[a] = Nothing
         /\ "choices" \notin crossed[a] \/ Undisturbed(a) =>
              \A q \in Requests : ~ BusyWith(q, "choose", a)
<1>1. Draws(r, a) /\ (BusyWith(r, "draw", a) \/ BusyWith(r, "force", a))
  BY AttachDraws
<1>2. Undisturbed(a) => BusyWith(r, "draw", a) /\ media[a] = Nothing
  BY <1>1 DEF AssetInv, DrawnArtwork, Shown, Undisturbed
<1>3. \A q \in Requests : BusyWith(q, "choose", a) => media[a] # Nothing
  BY DEF AssetInv, Pictured
<1>4. "choices" \notin crossed[a] => \A q \in Requests : ~ BusyWith(q, "choose", a)
  BY <1>1 DEF AssetInv, ChosenAlone
<1> QED
  BY <1>2, <1>3, <1>4

\* How the pictures of an asset change: in a choice, a drawing, or as it is kept.
LEMMA FacesNext ==
  ASSUME ReviewTypeOK, ReviewNext, NEW a \in Assets
  PROVE  \/ media'[a] = media[a] /\ offered'[a] = offered[a]
         \/ \E r \in Requests : Attach(r) /\ request[r].on = a
         \/ \E r \in Requests : Keeps(r, a)
         \/ /\ offered'[a] = offered[a] /\ media'[a] # Nothing
            /\ \E r \in Requests :
                 BusyWith(r, "choose", a) /\ media'[a] \in request[r].offered
<1>1. CASE Generate \/ \E b \in Assets : Bulk(b, "APPROVED") \/ Bulk(b, "REJECTED") \/ Deliver(b)
  BY <1>1 DEF Generate, Bulk, Deliver, rowVars
<1>2. ASSUME NEW r \in Requests, Handle(r)
      PROVE  \/ media'[a] = media[a] /\ offered'[a] = offered[a]
             \/ Attach(r) /\ request[r].on = a
             \/ Keeps(r, a)
             \/ /\ offered'[a] = offered[a] /\ media'[a] # Nothing
                /\ BusyWith(r, "choose", a) /\ media'[a] \in request[r].offered
  <2>1. CASE ChooseVariant(r)
    <3>1. PICK url \in request[r].offered :
            url # Nothing /\ media' = [media EXCEPT ![request[r].on] = url]
      BY <2>1, ChosenMedia
    <3>2. BusyWith(r, "choose", request[r].on) /\ UNCHANGED offered
      BY <2>1, ChosenMedia DEF ChooseVariant
    <3>3. CASE request[r].on = a
      BY <3>1, <3>2, <3>3 DEF ReviewTypeOK
    <3>4. CASE request[r].on # a
      BY <3>1, <3>2, <3>4 DEF ReviewTypeOK
    <3> QED
      BY <3>3, <3>4
  <2>2. CASE Keep(r)
    BY <2>2, KeepsOne
  <2>3. CASE Attach(r)
    BY <2>3, AttachedMedia
  <2> QED
    BY <1>2, <2>1, <2>2, <2>3, HandleFrame
<1> QED
  BY <1>1, <1>2 DEF ReviewNext

\* Nobody begins to choose what is being drawn, or to draw what is being chosen, without
\* crossing it.
LEMMA ChosenAloneNext ==
  ASSUME ReviewTypeOK, ReviewNext, NEW a \in Assets, ChosenAlone(a)
  PROVE  ChosenAlone(a)'
<1> SUFFICES ASSUME "choices" \notin crossed'[a], NEW q \in Requests, NEW r \in Requests,
                    BusyWith(q, "choose", a)', Draws(r, a)'
             PROVE  FALSE
  BY DEF ChosenAlone
<1>1. "choices" \notin crossed[a]
  BY MarksGrow
<1>2. PICK o \in {"draw", "force", "failing"} : BusyWith(r, o, a)'
  BY DEF Draws
<1>3. q # r /\ o \in Op /\ "choose" \in Op
  BY <1>2 DEF BusyWith, Doing, Op
<1>4. /\ "choices" \in Crossings("choose", {o})
      /\ \A op \in {"draw", "force"} : "choices" \in Crossings(op, {"choose"})
  BY DEF Crossings, Crossing
<1>5. ~ Find(q, "choose", a)
  BY <1>2, <1>3, <1>4, Crossed
<1>6. ASSUME NEW op \in {"draw", "force"}, Find(r, op, a)
      PROVE  FALSE
  <2>1. op \in Op
    BY DEF Op
  <2> QED
    BY <1>3, <1>4, <1>6, <2>1, Crossed
<1>7. ~ (DrawAnew(r) /\ BusyWith(r, "again", a))
  <2> SUFFICES ASSUME DrawAnew(r), BusyWith(r, "again", a) PROVE FALSE
    OBVIOUS
  <2>1. ~ Answer(r)
    BY <1>2 DEF BusyWith, Doing, Answer, ReviewTypeOK
  <2>2. /\ request' = [request EXCEPT ![r] = Found("force", a)]
        /\ Cross(a, Crossings("force", Beside(r, a)))
    BY <2>1 DEF DrawAnew, BusyWith
  <2>3. "choose" \in Beside(r, a)
    BY <1>3, <2>2 DEF Beside, BusyWith, Doing, ReviewTypeOK
  <2>4. Crossings("force", {"choose"}) \subseteq Crossings("force", Beside(r, a))
    BY <2>3 DEF Crossings
  <2>5. Crossings("force", Beside(r, a)) \subseteq crossed'[a]
    BY <2>2, CrossTyped, ReviewTypeParts
  <2> QED
    BY <1>4, <2>4, <2>5
<1>8. BusyWith(q, "choose", a)
  BY <1>5, BusyStays
<1>9. Draws(r, a)
  BY <1>6, <1>7, DrawsNext
<1> QED
  BY <1>1, <1>8, <1>9 DEF ChosenAlone

\* The choice stays among the pictures there are.
LEMMA ChosenNext ==
  ASSUME ReviewTypeOK, ReviewNext, NEW a \in Assets, AssetInv(a)
  PROVE  Chosen(a)'
<1> SUFFICES ASSUME ("choices" \notin crossed[a] \/ Undisturbed(a))' PROVE Chosen(a)'
  BY DEF Chosen
<1>1. "choices" \notin crossed[a] \/ Undisturbed(a)
  BY MarksGrow, SettledBefore
<1>2. Chosen(a) /\ Blank(a)
  BY DEF AssetInv
<1>3. ASSUME NEW q \in Requests, BusyWith(q, "choose", a)'
      PROVE  \/ BusyWith(q, "choose", a) /\ request'[q] = request[q]
             \/ request'[q].offered = offered[a] /\ UNCHANGED offered
  <2>1. ASSUME Find(q, "choose", a), request'[q] = Found("choose", a)
        PROVE  request'[q].offered = offered[a] /\ UNCHANGED offered
    BY <2>1 DEF Find, Found, rowVars
  <2> QED
    BY <1>3, <2>1, BusyStays
<1>4. CASE media'[a] = media[a] /\ offered'[a] = offered[a]
  BY <1>1, <1>2, <1>3, <1>4 DEF Chosen
<1>5. ASSUME NEW r \in Requests, Attach(r), request[r].on = a
      PROVE  Chosen(a)'
  <2>1. media'[a] \in offered'[a] /\ offered'[a] \subseteq Own(a)
    BY <1>5, AttachedMedia
  <2>2. \A q \in Requests : ~ BusyWith(q, "choose", a)'
    <3> SUFFICES ASSUME NEW q \in Requests, BusyWith(q, "choose", a)' PROVE FALSE
      OBVIOUS
    <3>1. ~ BusyWith(q, "choose", a)
      BY <1>1, <1>5, AttachAlone
    <3>2. request[q] = Nothing
      BY <3>1, BusyStays DEF Find
    <3>3. request'[r] = Nothing /\ \A p \in Requests \ {r} : request'[p] = request[p]
      BY <1>5, AnswerTyped, ReviewTypeParts DEF Attach
    <3> QED
      BY <3>2, <3>3 DEF BusyWith, Doing
  <2> QED
    BY <2>1, <2>2 DEF Chosen, Own
<1>6. ASSUME NEW r \in Requests, Keeps(r, a)
      PROVE  Chosen(a)'
  <2>1. media'[a] = request[r].media /\ offered'[a] = {request[r].media}
    BY <1>6 DEF Keeps
  <2>2. \A q \in Requests : ~ BusyWith(q, "choose", a) /\ ~ Find(q, "choose", a)
    BY <1>2, <1>6 DEF Keeps, Blank, Find, Visible, Op
  <2>3. \A q \in Requests : ~ BusyWith(q, "choose", a)'
    BY <2>2, BusyStays
  <2> QED
    BY <2>1, <2>3 DEF Chosen
<1>7. ASSUME offered'[a] = offered[a], media'[a] # Nothing, NEW r \in Requests,
             BusyWith(r, "choose", a), media'[a] \in request[r].offered
      PROVE  Chosen(a)'
  <2>1. media'[a] \in offered[a]
    BY <1>1, <1>2, <1>7 DEF Chosen
  <2>2. offered[a] \subseteq Own(a) \/ offered[a] = {media'[a]}
    BY <1>1, <1>2, <2>1 DEF Chosen
  <2> QED
    BY <1>1, <1>2, <1>3, <1>7, <2>1, <2>2 DEF Chosen, Own
<1> QED
  BY <1>4, <1>5, <1>6, <1>7, FacesNext

\* What an asset comes to hold of other assets it keeps.
LEMMA HoldsNext ==
  ASSUME ReviewTypeOK, ReviewNext, NEW a \in Assets, NEW url \in Url \ Own(a), Holds(a, url)'
  PROVE  Holds(a, url) \/ \E r \in Requests : Keeps(r, a) /\ request[r].media = url
<1>0. url # Nothing
  BY ReviewAssumption DEF ReviewAssumption, Url
<1>1. CASE url \in Faces(a)'
  <2>1. url = media'[a] \/ url \in offered'[a]
    BY <1>1 DEF Faces
  <2>2. CASE media'[a] = media[a] /\ offered'[a] = offered[a]
    BY <1>0, <2>1, <2>2 DEF Holds, Faces
  <2>3. ASSUME NEW r \in Requests, Attach(r), request[r].on = a
        PROVE  FALSE
    BY <2>1, <2>3, AttachedMedia
  <2>4. ASSUME NEW r \in Requests, Keeps(r, a)
        PROVE  request[r].media = url
    BY <2>1, <2>4 DEF Keeps
  <2>5. ASSUME offered'[a] = offered[a], NEW r \in Requests, BusyWith(r, "choose", a),
               media'[a] \in request[r].offered
        PROVE  Holds(a, url)
    BY <1>0, <2>1, <2>5 DEF Holds, Faces
  <2> QED
    BY <2>2, <2>3, <2>4, <2>5, FacesNext
<1>2. ASSUME NEW r \in Requests, BusyWith(r, "publish", a)', request'[r].media = url
      PROVE  Holds(a, url)
  <2>1. CASE BusyWith(r, "publish", a) /\ request'[r] = request[r]
    BY <1>2, <2>1 DEF Holds
  <2>2. CASE request'[r] = Found("publish", a)
    BY <1>0, <1>2, <2>2 DEF Found, Holds, Faces
  <2> QED
    BY <1>2, <2>1, <2>2, BusyStays
<1>3. ASSUME NEW r \in Requests, BusyWith(r, "choose", a)', url \in request'[r].offered
      PROVE  Holds(a, url)
  <2>1. CASE BusyWith(r, "choose", a) /\ request'[r] = request[r]
    BY <1>3, <2>1 DEF Holds
  <2>2. CASE request'[r] = Found("choose", a)
    BY <1>0, <1>3, <2>2 DEF Found, Holds, Faces
  <2> QED
    BY <1>3, <2>1, <2>2, BusyStays
<1>4. ASSUME NEW i \in DOMAIN posts'[a], posts'[a][i].url = url
      PROVE  Holds(a, url)
  <2>1. ASSUME NEW r \in Requests, Publish(r), request[r].on = a
        PROVE  Holds(a, url)
    <3>1. BusyWith(r, "publish", a)
      BY <2>1 DEF Publish, BusyWith
    <3>2. \/ i \in DOMAIN posts[a] /\ posts'[a][i] = posts[a][i]
          \/ posts'[a][i].url = request[r].media
      BY <1>4, <2>1, PostAdded
    <3> QED
      BY <1>4, <3>1, <3>2 DEF Holds
  <2>2. CASE ~ \E r \in Requests : Publish(r) /\ request[r].on = a
    BY <1>4, <2>2, PostsStay DEF Holds
  <2> QED
    BY <2>1, <2>2
<1>5. Holds(a, url)' <=>
        \/ url \in Faces(a)'
        \/ \E r \in Requests : BusyWith(r, "publish", a)' /\ request'[r].media = url
        \/ \E r \in Requests : BusyWith(r, "choose", a)' /\ url \in request'[r].offered
        \/ \E i \in DOMAIN posts'[a] : posts'[a][i].url = url
  BY DEF Holds
<1> QED
  BY <1>1, <1>2, <1>3, <1>4, <1>5

\* Nor is a picture added to those of an asset that has some, but by a drawing, or while it
\* is kept.
LEMMA PicturesStay ==
  ASSUME ReviewTypeOK, ReviewNext, NEW a \in Assets, AssetInv(a), Undisturbed(a),
         ~ \E r \in Requests : (Attach(r) /\ request[r].on = a) \/ Keeps(r, a)
  PROVE  OwnPictures(a)' \subseteq OwnPictures(a)
<1>1. Faces(a)' \subseteq Faces(a)
  <2>1. CASE media'[a] = media[a] /\ offered'[a] = offered[a]
    BY <2>1 DEF Faces
  <2>2. ASSUME offered'[a] = offered[a], NEW r \in Requests, BusyWith(r, "choose", a),
               media'[a] \in request[r].offered
        PROVE  Faces(a)' \subseteq Faces(a)
    <3>1. media'[a] \in offered[a]
      BY <2>2 DEF AssetInv, Chosen
    <3> QED
      BY <2>2, <3>1 DEF Faces
  <2> QED
    BY <2>1, <2>2, FacesNext
<1>2. CASE media[a] = Nothing
  <2>1. Faces(a) = {}
    BY <1>2 DEF AssetInv, Pictured, Faces
  <2> QED
    BY <1>1, <2>1 DEF OwnPictures
<1>3. CASE media[a] # Nothing
  <2>1. \A url \in Own(a) : Picture(url)' = Picture(url)
    BY <1>3, OwnStays
  <2>2. Own(a)' = Own(a)
    BY DEF Own
  <2> QED
    BY <1>1, <2>1, <2>2 DEF OwnPictures
<1> QED
  BY <1>2, <1>3

\* What was read is not forgotten of an asset there is.
LEMMA VettedStays ==
  ASSUME ReviewTypeOK, ReviewNext, NEW a \in Assets, kind[a] # "absent", NEW url, Vetted(a, url),
         Picture(url)' = Picture(url)
  PROVE  Vetted(a, url)'
  BY VettedGrows DEF Vetted

\* What is published is what the address of a post shows.
LEMMA ShownGrows ==
  ASSUME ReviewTypeOK, ReviewNext, NEW a \in Assets, NEW p \in shown'[a]
  PROVE  \/ p \in shown[a]
         \/ /\ \E i \in DOMAIN posts[a] : posts[a][i].url # Nothing /\ p = Picture(posts[a][i].url)
            /\ UNCHANGED <<vetted, file, crossed, forced>>
<1>1. CASE shown'[a] = shown[a]
  BY <1>1
<1>2. ASSUME NEW b \in Assets, Deliver(b)
      PROVE  \/ p \in shown[a]
             \/ /\ \E i \in DOMAIN posts[a] :
                     posts[a][i].url # Nothing /\ p = Picture(posts[a][i].url)
                /\ UNCHANGED <<vetted, file, crossed, forced>>
  <2>1. UNCHANGED <<vetted, file, crossed, forced>>
    BY <1>2 DEF Deliver, reviewHistory, drawVars
  <2>2. PICK i \in DOMAIN posts[b] :
          shown' = [shown EXCEPT ![b] = @ \cup
            (IF posts[b][i].url = Nothing THEN {} ELSE {Picture(posts[b][i].url)})]
    BY <1>2 DEF Deliver
  <2>3. CASE b # a
    BY <1>1, <2>2, <2>3 DEF ReviewTypeOK
  <2>4. CASE b = a
    <3>1. shown'[a] = shown[a] \cup
            (IF posts[a][i].url = Nothing THEN {} ELSE {Picture(posts[a][i].url)})
      BY <2>2, <2>4 DEF ReviewTypeOK
    <3> QED
      BY <2>1, <2>2, <2>4, <3>1
  <2> QED
    BY <2>3, <2>4
<1>3. CASE Generate \/ \E b \in Assets : Bulk(b, "APPROVED") \/ Bulk(b, "REJECTED")
  BY <1>1, <1>3 DEF Generate, Bulk, postVars
<1>4. ASSUME NEW r \in Requests, Handle(r)
      PROVE  shown'[a] = shown[a]
  BY <1>4, HandleFrame
<1> QED
  BY <1>1, <1>2, <1>3, <1>4 DEF ReviewNext

\* Of its own drawings, an asset goes on showing what an approval had read.
LEMMA ShownNext ==
  ASSUME ReviewTypeOK, ReviewNext, NEW a \in Assets, AssetInv(a), Gallery
  PROVE  Shown(a)'
<1> SUFFICES ASSUME Undisturbed(a)' PROVE Shown(a)'
  BY DEF Shown
<1>1. Undisturbed(a)
  BY SettledBefore
<1>2. /\ Blank(a) /\ Pictured(a) /\ DrawnArtwork(a) /\ HasArtwork(a) /\ ShowsArtwork(a)
      /\ DrawnOnce(a) /\ Shown(a)
  BY DEF AssetInv
<1>3. kind[a] # "absent" => vetted[a].pictures \subseteq vetted'[a].pictures
  BY VettedGrows
<1>0. Own(a) \subseteq Url /\ \A url \in Own(a) : url # Nothing
  BY ReviewAssumption DEF ReviewAssumption, Own, Url
<1>4. ASSUME NEW r \in Requests, Attach(r), request[r].on = a
      PROVE  /\ BusyWith(r, "draw", a) /\ media[a] = Nothing /\ status'[a] # "APPROVED"
             /\ ~ BusyWith(r, "draw", a)'
  <2>1. BusyWith(r, "draw", a)
    BY <1>1, <1>2, <1>4, AttachDraws DEF DrawnArtwork, Undisturbed
  <2>2. status'[a] = "NEEDS_REVIEW"
    BY <1>4 DEF Attach, SetStatus, ReviewTypeOK
  <2>3. request'[r] = Nothing
    BY <1>4, AnswerTyped, ReviewTypeParts DEF Attach
  <2> QED
    BY <1>1, <1>2, <2>1, <2>2, <2>3 DEF Shown, BusyWith, Doing
<1>5. ASSUME kind[a] # "absent", ~ \E r \in Requests : Attach(r) /\ request[r].on = a
      PROVE  OwnPictures(a)' \subseteq OwnPictures(a)
  BY <1>1, <1>5, PicturesStay DEF Keeps
<1>6. ASSUME status'[a] = "APPROVED"
      PROVE  OwnPictures(a)' \subseteq vetted'[a].pictures
  <2>1. CASE status[a] = "APPROVED"
    <3>1. kind[a] # "absent"
      BY <1>2, <2>1 DEF Blank
    <3> QED
      BY <1>1, <1>2, <1>3, <1>4, <1>5, <1>6, <2>1, <3>1 DEF Shown
  <2>2. ASSUME NEW r \in Requests, Approve(r), request[r].on = a
        PROVE  OwnPictures(a)' \subseteq vetted'[a].pictures
    <3>1. BusyWith(r, "approve", a)
      BY <2>2 DEF Approve, Move, BusyWith
    <3>2. OwnPictures(a) \subseteq request[r].pictures
      BY <1>1, <1>2, <3>1 DEF Shown
    <3>3. request[r].pictures \subseteq vetted'[a].pictures
      BY <2>2 DEF Approve, ReviewTypeOK
    <3>4. OwnPictures(a)' = OwnPictures(a)
      BY <2>2 DEF Approve, Move, OwnPictures, Faces, Picture, Own
    <3> QED
      BY <3>2, <3>3, <3>4
  <2>3. CASE Bulk(a, "APPROVED")
    <3>1. Pictures(a) \subseteq vetted'[a].pictures
      BY <2>3 DEF Bulk, ReviewTypeOK
    <3>2. OwnPictures(a)' = OwnPictures(a)
      BY <2>3 DEF Bulk, drawVars, OwnPictures, Faces, Picture, Own
    <3>3. OwnPictures(a) \subseteq Pictures(a)
      BY DEF OwnPictures, Pictures
    <3> QED
      BY <3>1, <3>2, <3>3
  <2>4. ASSUME NEW r \in Requests, Keeps(r, a)
        PROVE  OwnPictures(a)' \subseteq vetted'[a].pictures
    <3>1. request[r].media \in Url /\ request[r].media \in gallery
      BY <2>4, KeptMedia DEF Keeps, Gallery
    <3>2. media[a] = Nothing
      BY <1>2, <2>4 DEF Keeps, Blank
    <3>3. request[r].media \notin Own(a)
      BY <3>1, <3>2 DEF Gallery, Own
    <3>4. Faces(a)' \subseteq {request[r].media}
      BY <2>4 DEF Keeps, Faces
    <3>5. Own(a)' = Own(a)
      BY DEF Own
    <3> QED
      BY <3>3, <3>4, <3>5 DEF OwnPictures
  <2> QED
    BY <1>6, <2>1, <2>2, <2>3, <2>4, WhoApproves
<1>7. ASSUME NEW r \in Requests, BusyWith(r, "draw", a)'
      PROVE  media'[a] = Nothing
  <2>1. CASE BusyWith(r, "draw", a)
    <3>1. media[a] = Nothing /\ kind[a] # "absent"
      BY <1>1, <1>2, <2>1 DEF Shown, DrawnArtwork, Draws
    <3>2. ASSUME NEW q \in Requests, Attach(q), request[q].on = a
          PROVE  FALSE
      BY <1>1, <1>2, <1>4, <1>7, <2>1, <3>2 DEF DrawnOnce, Draws, Undisturbed
    <3> QED
      BY <1>2, <3>1, <3>2, WhoPictures
  <2>2. CASE Find(r, "draw", a)
    <3>1. kind[a] = "artwork" /\ media[a] = Nothing
      BY <2>2 DEF Find, Allowed, CanDraw
    <3> QED
      BY <2>2, <3>1 DEF Find, rowVars
  <2>3. CASE Generate \/ \E b \in Assets : Bulk(b, "APPROVED") \/ Bulk(b, "REJECTED") \/ Deliver(b)
    <3>1. UNCHANGED request
      BY <2>3 DEF Generate, Bulk, Deliver
    <3> QED
      BY <1>7, <2>1, <3>1 DEF BusyWith, Doing
  <2>4. ASSUME NEW q \in Requests, Handle(q)
        PROVE  media'[a] = Nothing
    BY <1>7, <2>1, <2>2, <2>4, BusyNext DEF Op
  <2> QED
    BY <2>3, <2>4 DEF ReviewNext
<1>8. ASSUME NEW r \in Requests, BusyWith(r, "approve", a)'
      PROVE  OwnPictures(a)' \subseteq request'[r].pictures
  <2>1. CASE BusyWith(r, "approve", a) /\ request'[r] = request[r]
    <3>1. kind[a] # "absent"
      BY <1>2, <2>1 DEF Blank, Op
    <3>2. ASSUME NEW q \in Requests, Attach(q), request[q].on = a
          PROVE  FALSE
      BY <1>2, <1>4, <2>1, <3>2 DEF DrawnArtwork, HasArtwork, Draws
    <3> QED
      BY <1>1, <1>2, <1>5, <2>1, <3>1, <3>2 DEF Shown
  <2>2. CASE Find(r, "approve", a) /\ request'[r] = Found("approve", a)
    <3>1. OwnPictures(a)' = OwnPictures(a)
      BY <2>2 DEF Find, OwnPictures, Faces, Own, Picture, rowVars
    <3>2. request'[r].pictures = Pictures(a) /\ OwnPictures(a) \subseteq Pictures(a)
      BY <2>2 DEF Found, OwnPictures, Pictures
    <3> QED
      BY <3>1, <3>2
  <2> QED
    BY <1>8, <2>1, <2>2, BusyStays
<1>9. ASSUME NEW url \in Own(a), NEW r \in Requests, BusyWith(r, "publish", a)',
             request'[r].media = url
      PROVE  Vetted(a, url)'
  <2>1. CASE BusyWith(r, "publish", a) /\ request'[r] = request[r]
    <3>1. kind[a] # "absent" /\ media[a] # Nothing
      BY <1>0, <1>2, <1>9, <2>1 DEF Blank, Op, ShowsArtwork
    <3>2. Vetted(a, url)
      BY <1>1, <1>2, <1>9, <2>1 DEF Shown
    <3> QED
      BY <1>1, <3>1, <3>2, OwnStays, VettedStays
  <2>2. CASE Find(r, "publish", a) /\ request'[r] = Found("publish", a)
    <3>1. status[a] = "APPROVED" /\ UNCHANGED <<file, vetted>> /\ media[a] = url
      BY <1>9, <2>2 DEF Find, Found, Allowed, Publishable
    <3>2. Picture(url) \in OwnPictures(a)
      BY <1>0, <3>1 DEF OwnPictures, Faces
    <3> QED
      BY <1>1, <1>2, <3>1, <3>2 DEF Shown, Picture, Vetted
  <2> QED
    BY <1>9, <2>1, <2>2, BusyStays
<1>10. ASSUME NEW url \in Own(a), NEW i \in DOMAIN posts[a], posts[a][i].url = url
       PROVE  Vetted(a, url) /\ Vetted(a, url)'
  <2>1. kind[a] # "absent" /\ media[a] # Nothing
    BY <1>0, <1>2, <1>10 DEF Blank, ShowsArtwork
  <2>2. Vetted(a, url)
    BY <1>1, <1>2, <1>10 DEF Shown
  <2> QED
    BY <1>1, <2>1, <2>2, OwnStays, VettedStays
<1>11. ASSUME NEW url \in Own(a), NEW i \in DOMAIN posts'[a], posts'[a][i].url = url
       PROVE  Vetted(a, url)'
  <2>1. ASSUME NEW r \in Requests, Publish(r), request[r].on = a
        PROVE  Vetted(a, url)'
    <3>1. \/ i \in DOMAIN posts[a] /\ posts'[a][i] = posts[a][i]
          \/ url = request[r].media
      BY <1>11, <2>1, PostAdded
    <3>2. BusyWith(r, "publish", a) /\ UNCHANGED <<file, vetted>>
      BY <2>1 DEF Publish, BusyWith, reviewHistory
    <3>3. request[r].media = url => Vetted(a, url)
      BY <1>1, <1>2, <3>2 DEF Shown
    <3>4. Vetted(a, url) => Vetted(a, url)'
      BY <3>2 DEF Picture, Vetted
    <3> QED
      BY <1>10, <1>11, <3>1, <3>3, <3>4
  <2>2. CASE ~ \E r \in Requests : Publish(r) /\ request[r].on = a
    BY <1>10, <1>11, <2>2, PostsStay
  <2> QED
    BY <2>1, <2>2
<1>12. ASSUME NEW p \in shown'[a], p[1] \in Own(a)
       PROVE  p \in vetted'[a].pictures
  <2>1. CASE p \in shown[a]
    <3>1. kind[a] # "absent"
      BY <1>2, <2>1 DEF Blank
    <3> QED
      BY <1>1, <1>2, <1>3, <1>12, <2>1, <3>1 DEF Shown
  <2>2. ASSUME NEW i \in DOMAIN posts[a], NEW url, posts[a][i].url = url, p = Picture(url),
               UNCHANGED vetted
        PROVE  p \in vetted'[a].pictures
    <3>1. url \in Own(a)
      BY <1>12, <2>2 DEF Picture
    <3> QED
      BY <1>10, <2>2, <3>1 DEF Vetted
  <2> QED
    BY <1>12, <2>1, <2>2, ShownGrows
<1> QED
  BY <1>6, <1>7, <1>8, <1>9, <1>11, <1>12 DEF Shown

-----------------------------------------------------------------------------
(* Pictures that are kept.                                                   *)

\* The library grows with what drawings attach.
LEMMA GalleryGrows ==
  ASSUME ReviewTypeOK, ReviewNext
  PROVE  /\ \A url : url \in gallery => url \in gallery'
         /\ \/ gallery' = gallery
            \/ \E r \in Requests : Attach(r) /\ gallery' = gallery \cup offered'[request[r].on]
<1>1. CASE Generate \/ \E b \in Assets : Bulk(b, "APPROVED") \/ Bulk(b, "REJECTED") \/ Deliver(b)
  BY <1>1 DEF Generate, Bulk, Deliver, postVars
<1>2. ASSUME NEW r \in Requests, Handle(r)
      PROVE  gallery' = gallery \/ (Attach(r) /\ gallery' = gallery \cup offered'[request[r].on])
  BY <1>2, HandleFrame, AttachedMedia
<1> QED
  BY <1>1, <1>2 DEF ReviewNext

\* An asset that does not exist yet has no picture.
LEMMA AbsentHoldsNothing ==
  ASSUME NEW a \in Assets, Blank(a), kind[a] = "absent", NEW url \in Url
  PROVE  ~ Holds(a, url)
<1>1. url # Nothing
  BY ReviewAssumption DEF ReviewAssumption, Url
<1>2. media[a] = Nothing /\ offered[a] = {} /\ posts[a] = << >>
  BY DEF Blank
<1>3. \A r \in Requests : ~ BusyWith(r, "publish", a) /\ ~ BusyWith(r, "choose", a)
  BY DEF Blank, Op
<1> QED
  BY <1>1, <1>2, <1>3 DEF Holds, Faces

\* A keep in progress was there, or is found now.
LEMMA KeepingStays ==
  ASSUME ReviewTypeOK, ReviewNext, NEW q \in Requests, Doing(q, "keep")'
  PROVE  \/ Doing(q, "keep") /\ request'[q] = request[q]
         \/ \E url \in Url, a \in Assets : FindKept(q, url) /\ request'[q] = FoundKept(a, url)
<1>1. PICK a \in Assets : BusyWith(q, "keep", a)'
  <2>1. ReviewTypeOK'
    BY ReviewTypeNext
  <2> QED
    BY <2>1 DEF BusyWith, Doing, ReviewTypeOK, ReviewRequest
<1>2. CASE Generate \/ \E b \in Assets : Bulk(b, "APPROVED") \/ Bulk(b, "REJECTED") \/ Deliver(b)
  BY <1>2 DEF Generate, Bulk, Deliver, Doing
<1>3. ASSUME NEW r \in Requests, Handle(r)
      PROVE  \/ Doing(q, "keep") /\ request'[q] = request[q]
             \/ \E url \in Url : FindKept(q, url) /\ request'[q] = FoundKept(a, url)
  <2>1. ~ Find(q, "keep", a)
    BY DEF Find, Allowed
  <2> QED
    BY <1>1, <1>3, <2>1, BusyNext DEF Op, BusyWith
<1> QED
  BY <1>2, <1>3 DEF ReviewNext

\* Of other assets, an asset goes on showing what it was approved with when it kept it.
LEMMA ForeignNext ==
  ASSUME ReviewTypeOK, ReviewNext, \A b \in Assets : AssetInv(b), Gallery, NEW a \in Assets
  PROVE  Foreign(a)'
<1>1. Foreign(a) /\ Blank(a)
  BY DEF AssetInv
<1>2. Own(a)' = Own(a) /\ Url' = Url
  BY DEF Own, Url
<1>3. ASSUME NEW url \in Url \ Own(a), Holds(a, url)'
      PROVE  url \in gallery' /\ (Settled(url)' => Vetted(a, url)')
  <2>1. url \in gallery => url \in gallery'
    BY GalleryGrows
  <2>2. CASE Holds(a, url)
    <3>1. url \in gallery /\ (Settled(url) => Vetted(a, url))
      BY <1>1, <1>3, <2>2 DEF Foreign
    <3>2. kind[a] # "absent"
      BY <1>1, <1>3, <2>2, AbsentHoldsNothing
    <3>3. ASSUME Settled(url)'
          PROVE  Vetted(a, url)'
      <4>1. Settled(url)
        BY <3>3, SettledBefore
      <4>2. Picture(url)' = Picture(url)
        BY <3>1, <4>1, PictureStays
      <4> QED
        BY <3>1, <3>2, <4>1, <4>2, VettedStays
    <3> QED
      BY <2>1, <3>1, <3>3
  <2>3. ASSUME NEW r \in Requests, Keeps(r, a), request[r].media = url
        PROVE  url \in gallery' /\ (Settled(url)' => Vetted(a, url)')
    <3>1. url \in gallery /\ (Settled(url) => Picture(url) \in request[r].pictures)
      BY <2>3 DEF Keeps, Gallery
    <3>2. vetted'[a].pictures = request[r].pictures
      BY <2>3 DEF Keeps
    <3>3. ASSUME Settled(url)'
          PROVE  Vetted(a, url)'
      <4>1. Settled(url)
        BY <3>3, SettledBefore
      <4>2. Picture(url)' = Picture(url)
        BY <3>1, <4>1, PictureStays
      <4> QED
        BY <3>1, <3>2, <4>1, <4>2 DEF Vetted
    <3> QED
      BY <2>1, <3>1, <3>3
  <2> QED
    BY <1>3, <2>2, <2>3, HoldsNext
<1>4. ASSUME NEW p \in shown'[a], p[1] \notin Own(a), Settled(p[1])'
      PROVE  p \in vetted'[a].pictures
  <2>1. CASE p \in shown[a]
    <3>1. kind[a] # "absent"
      BY <1>1, <2>1 DEF Blank
    <3>2. p[1] \in Url
      BY <2>1 DEF ReviewTypeOK, Shot
    <3>3. Settled(p[1])
      BY <1>4, <3>2, SettledBefore
    <3> QED
      BY <1>1, <1>4, <2>1, <3>1, <3>3, VettedGrows DEF Foreign
  <2>2. ASSUME NEW i \in DOMAIN posts[a], posts[a][i].url # Nothing,
               p = Picture(posts[a][i].url), UNCHANGED <<vetted, file, crossed, forced>>
        PROVE  p \in vetted'[a].pictures
    <3>1. PICK url : url = posts[a][i].url
      OBVIOUS
    <3>2. url \in Url
      <4>1. posts[a] \in Seq(AssetPost)
        BY DEF ReviewTypeOK
      <4>2. posts[a][i] \in AssetPost
        BY <2>2, <4>1
      <4> QED
        BY <2>2, <3>1, <4>2 DEF AssetPost
    <3>3. p[1] = url /\ url \notin Own(a) /\ Holds(a, url)
      BY <1>4, <2>2, <3>1 DEF Picture, Holds
    <3>4. Settled(url)
      BY <1>4, <3>2, <3>3, SettledBefore
    <3>5. Vetted(a, url)
      BY <1>1, <3>2, <3>3, <3>4 DEF Foreign
    <3> QED
      BY <2>2, <3>1, <3>5 DEF Vetted
  <2> QED
    BY <1>4, <2>1, <2>2, ShownGrows
<1> QED
  BY <1>2, <1>3, <1>4 DEF Foreign

\* The library stays one of drawings there are, and keeps stay of those.
LEMMA GalleryNext ==
  ASSUME ReviewTypeOK, ReviewNext, \A b \in Assets : AssetInv(b), Gallery
  PROVE  Gallery'
<1>1. ASSUME NEW a \in Assets, NEW v \in Variants, <<a, v>> \in gallery'
      PROVE  media'[a] # Nothing
  <2>1. CASE <<a, v>> \in gallery
    BY <2>1, MediaStays DEF Gallery
  <2>2. ASSUME NEW r \in Requests, Attach(r), gallery' = gallery \cup offered'[request[r].on],
               <<a, v>> \notin gallery
        PROVE  media'[a] # Nothing
    <3>1. request[r].on = a
      BY <1>1, <2>2, AttachedMedia DEF Own
    <3> QED
      BY <2>2, <3>1, AttachedMedia
  <2> QED
    BY <1>1, <2>1, <2>2, GalleryGrows
<1>2. ASSUME NEW r \in Requests, NEW url \in Url, Doing(r, "keep")', request'[r].media = url
      PROVE  url \in gallery' /\ (Settled(url)' => Picture(url)' \in request'[r].pictures)
  <2>0. url \in gallery => url \in gallery'
    BY GalleryGrows
  <2>1. CASE Doing(r, "keep") /\ request'[r] = request[r]
    <3>1. url \in gallery /\ (Settled(url) => Picture(url) \in request[r].pictures)
      BY <1>2, <2>1 DEF Gallery
    <3> QED
      BY <2>0, <2>1, <3>1, SettledBefore, PictureStays
  <2>2. ASSUME NEW u \in Url, FindKept(r, u), NEW a \in Assets, request'[r] = FoundKept(a, u)
        PROVE  url \in gallery' /\ (Settled(url)' => Picture(url)' \in request'[r].pictures)
    <3>1. request'[r].media = u /\ request'[r].pictures = {Picture(u)}
      BY <2>2 DEF FoundKept, Found
    <3>2. u \in gallery /\ Picture(u)' = Picture(u)
      BY <2>2 DEF FindKept, drawVars, Picture
    <3> QED
      BY <1>2, <2>0, <3>1, <3>2
  <2> QED
    BY <1>2, <2>1, <2>2, KeepingStays
<1> QED
  BY <1>1, <1>2 DEF Gallery, Url

\* The asset has kept the picture at an address: it shows it, and it is not its own.
Keeper(a, url) ==
  a \in Assets \ deleted /\ media[a] = url /\ url \notin Own(a) /\ "choices" \notin crossed[a]

\* While no two keeps of a picture overlapped, one of each is in progress at most, while no
\* asset has kept the picture; and one asset at most has kept it.
Kept ==
  /\ \A a, b \in Assets : "keeps" \in crossed[a] => "keeps" \in crossed[b]
  /\ \A a \in Assets : "keeps" \notin crossed[a] =>
       \A url \in Url :
         /\ \A q, r \in Requests :
              /\ Doing(q, "keep") /\ request[q].media = url
              /\ Doing(r, "keep") /\ request[r].media = url
              => q = r
         /\ \A r \in Requests : \A b \in Assets :
              ~ (Doing(r, "keep") /\ request[r].media = url /\ Keeper(b, url))
         /\ \A b, c \in Assets : Keeper(b, url) /\ Keeper(c, url) => b = c

\* Only keeps overlap keeps.
LEMMA KeepsStay ==
  ASSUME ReviewTypeOK, ReviewNext, ~ \E r \in Requests : \E url \in Url : FindKept(r, url),
         NEW a \in Assets
  PROVE  "keeps" \in crossed'[a] <=> "keeps" \in crossed[a]
<1>1. \A op, S : "keeps" \notin Crossings(op, S)
  BY DEF Crossings
<1>2. ASSUME NEW b \in Assets, NEW op, NEW S, Cross(b, Crossings(op, S))
      PROVE  "keeps" \in crossed'[a] <=> "keeps" \in crossed[a]
  BY <1>1, <1>2, CrossTyped, ReviewTypeParts
<1>3. CASE Generate \/ \E b \in Assets : Deliver(b)
  BY <1>3 DEF Generate, Deliver, reviewHistory
<1>4. ASSUME NEW b \in Assets, Bulk(b, "APPROVED") \/ Bulk(b, "REJECTED")
      PROVE  "keeps" \in crossed'[a] <=> "keeps" \in crossed[a]
  BY <1>2, <1>4 DEF Bulk
<1>5. ASSUME NEW r \in Requests, Handle(r)
      PROVE  "keeps" \in crossed'[a] <=> "keeps" \in crossed[a]
  <2>1. ASSUME NEW op \in Op, NEW b \in Assets, Find(r, op, b)
        PROVE  "keeps" \in crossed'[a] <=> "keeps" \in crossed[a]
    BY <1>2, <2>1 DEF Find
  <2>2. CASE DrawAnew(r)
    <3>1. request[r].on \in Assets
      BY <2>2, RequestTyped, ReviewTypeParts DEF DrawAnew
    <3> QED
      BY <1>2, <2>2, <3>1 DEF DrawAnew
  <2> QED
    BY <1>5, <2>1, <2>2, HandleFrame
<1> QED
  BY <1>3, <1>4, <1>5 DEF ReviewNext

\* Only a keep makes an asset the keeper of a picture.
LEMMA KeeperStays ==
  ASSUME ReviewTypeOK, ReviewNext, NEW a \in Assets, AssetInv(a), NEW url \in Url, Keeper(a, url)'
  PROVE  Keeper(a, url) \/ \E r \in Requests : Keeps(r, a) /\ Keep(r) /\ request[r].media = url
<1>1. media'[a] = url /\ url \notin Own(a) /\ "choices" \notin crossed'[a] /\ a \notin deleted'
  BY DEF Keeper, Own
<1>2. "choices" \notin crossed[a]
  BY <1>1, MarksGrow
<1>3. a \notin deleted
  <2>1. CASE Generate \/ \E b \in Assets : Bulk(b, "APPROVED") \/ Bulk(b, "REJECTED") \/ Deliver(b)
    BY <1>1, <2>1 DEF Generate, Bulk, Deliver, rowVars
  <2>2. ASSUME NEW r \in Requests, Handle(r)
        PROVE  a \notin deleted
    BY <1>1, <2>2, HandleFrame DEF Remove
  <2> QED
    BY <2>1, <2>2 DEF ReviewNext
<1>4. CASE media'[a] = media[a] /\ offered'[a] = offered[a]
  BY <1>1, <1>2, <1>3, <1>4 DEF Keeper
<1>5. ASSUME NEW r \in Requests, Attach(r), request[r].on = a
      PROVE  FALSE
  BY <1>1, <1>5, AttachedMedia
<1>6. ASSUME NEW r \in Requests, Keeps(r, a)
      PROVE  Keep(r) /\ request[r].media = url
  BY <1>1, <1>6 DEF Keeps
<1>7. ASSUME offered'[a] = offered[a], NEW r \in Requests, BusyWith(r, "choose", a),
             media'[a] \in request[r].offered
      PROVE  Keeper(a, url)
  <2>1. url \in offered[a]
    BY <1>1, <1>2, <1>7 DEF AssetInv, Chosen
  <2>2. offered[a] = {media[a]}
    BY <1>1, <1>2, <2>1 DEF AssetInv, Chosen
  <2> QED
    BY <1>1, <1>2, <1>3, <2>1, <2>2 DEF Keeper
<1> QED
  BY <1>4, <1>5, <1>6, <1>7, FacesNext

\* A picture stays kept once while no two keeps of one overlap.
LEMMA KeptNext ==
  ASSUME ReviewTypeOK, \A a \in Assets : AssetInv(a), Kept, ReviewNext
  PROVE  Kept'
<1>0. \A a \in Assets, url \in Url :
        Keeper(a, url)' => \/ Keeper(a, url)
                           \/ \E r \in Requests : /\ Keeps(r, a) /\ Keep(r)
                                                  /\ request[r].media = url
  BY KeeperStays
<1>1. ASSUME NEW r \in Requests, NEW url \in Url, FindKept(r, url), Keeping(url)
      PROVE  Kept'
  <2>1. \A a \in Assets : "keeps" \in crossed'[a]
    BY <1>1 DEF FindKept
  <2> QED
    BY <2>1 DEF Kept
<1>2. ASSUME NEW r \in Requests, NEW url \in Url, FindKept(r, url), ~ Keeping(url)
      PROVE  Kept'
  <2>1. \A a \in Assets : crossed'[a] = crossed[a]
    BY <1>2 DEF FindKept
  <2>2. /\ UNCHANGED <<deleted, media>> /\ Unkept(url)
        /\ \A q \in Requests : ~ (Doing(q, "keep") /\ request[q].media = url)
    BY <1>2 DEF FindKept, rowVars, Keeping
  <2>3. PICK n \in Assets : request' = [request EXCEPT ![r] = FoundKept(n, url)]
    BY <1>2 DEF FindKept
  <2>4. request'[r].media = url /\ \A q \in Requests \ {r} : request'[q] = request[q]
    <3>1. FoundKept(n, url).media = url
      BY DEF FoundKept, Found
    <3> QED
      BY <2>3, <3>1 DEF ReviewTypeOK
  <2>5. \A a \in Assets, u \in Url : Keeper(a, u)' <=> Keeper(a, u)
    BY <2>1, <2>2 DEF Keeper, Own
  <2>6. \A a \in Assets : ~ Keeper(a, url)
    BY <2>2 DEF Keeper, Unkept
  <2>7. ASSUME NEW a \in Assets, "keeps" \notin crossed[a], NEW u \in Url
        PROVE  /\ \A p, q \in Requests :
                    /\ Doing(p, "keep")' /\ request'[p].media = u
                    /\ Doing(q, "keep")' /\ request'[q].media = u
                    => p = q
               /\ \A q \in Requests : \A b \in Assets :
                    ~ (Doing(q, "keep")' /\ request'[q].media = u /\ Keeper(b, u)')
               /\ \A b, c \in Assets : Keeper(b, u)' /\ Keeper(c, u)' => b = c
    <3>1. \A q \in Requests \ {r} :
            Doing(q, "keep")' /\ request'[q].media = u =>
              Doing(q, "keep") /\ request[q].media = u /\ u # url
      BY <2>2, <2>4 DEF Doing
    <3>2. \A p, q \in Requests :
            /\ Doing(p, "keep") /\ request[p].media = u
            /\ Doing(q, "keep") /\ request[q].media = u
            => p = q
      BY <2>7 DEF Kept
    <3>3. /\ \A q \in Requests : \A b \in Assets :
               ~ (Doing(q, "keep") /\ request[q].media = u /\ Keeper(b, u))
          /\ \A b, c \in Assets : Keeper(b, u) /\ Keeper(c, u) => b = c
      BY <2>7 DEF Kept
    <3>4. \A p, q \in Requests :
            /\ Doing(p, "keep")' /\ request'[p].media = u
            /\ Doing(q, "keep")' /\ request'[q].media = u
            => p = q
      BY <2>4, <3>1, <3>2
    <3>5. \A q \in Requests : \A b \in Assets :
            ~ (Doing(q, "keep")' /\ request'[q].media = u /\ Keeper(b, u)')
      BY <2>4, <2>5, <2>6, <3>1, <3>3
    <3>6. \A b, c \in Assets : Keeper(b, u)' /\ Keeper(c, u)' => b = c
      BY <2>5, <3>3
    <3> QED
      BY <3>4, <3>5, <3>6
  <2>8. \A a, b \in Assets : "keeps" \in crossed'[a] => "keeps" \in crossed'[b]
    BY <2>1 DEF Kept
  <2> QED
    BY <2>1, <2>7, <2>8 DEF Kept, Url
<1>3. ASSUME ~ \E r \in Requests : \E url \in Url : FindKept(r, url)
      PROVE  Kept'
  <2>1. \A a \in Assets : "keeps" \in crossed'[a] <=> "keeps" \in crossed[a]
    BY <1>3, KeepsStay
  <2>2. \A q \in Requests : Doing(q, "keep")' => Doing(q, "keep") /\ request'[q] = request[q]
    BY <1>3, KeepingStays
  <2>3. \A a, b \in Assets : "keeps" \in crossed'[a] => "keeps" \in crossed'[b]
    BY <2>1 DEF Kept
  <2>4. ASSUME NEW a \in Assets, "keeps" \notin crossed[a], NEW u \in Url
        PROVE  /\ \A p, q \in Requests :
                    /\ Doing(p, "keep")' /\ request'[p].media = u
                    /\ Doing(q, "keep")' /\ request'[q].media = u
                    => p = q
               /\ \A q \in Requests : \A b \in Assets :
                    ~ (Doing(q, "keep")' /\ request'[q].media = u /\ Keeper(b, u)')
               /\ \A b, c \in Assets : Keeper(b, u)' /\ Keeper(c, u)' => b = c
    <3>1. \A p, q \in Requests :
            /\ Doing(p, "keep") /\ request[p].media = u
            /\ Doing(q, "keep") /\ request[q].media = u
            => p = q
      BY <2>4 DEF Kept
    <3>2. /\ \A q \in Requests : \A b \in Assets :
               ~ (Doing(q, "keep") /\ request[q].media = u /\ Keeper(b, u))
          /\ \A b, c \in Assets : Keeper(b, u) /\ Keeper(c, u) => b = c
      BY <2>4 DEF Kept
    <3>3. CASE \A b \in Assets : Keeper(b, u)' => Keeper(b, u)
      BY <2>2, <3>1, <3>2, <3>3
    <3>4. ASSUME NEW r \in Requests, Keep(r), request[r].media = u
          PROVE  /\ \A q \in Requests : ~ (Doing(q, "keep")' /\ request'[q].media = u)
                 /\ \A b \in Assets : ~ Keeper(b, u)
                 /\ \E n \in Assets : \A b \in Assets : Keeper(b, u)' => b = n
      <4>1. Doing(r, "keep") /\ request'[r] = Nothing
        BY <3>4, AnswerTyped, ReviewTypeParts DEF Keep
      <4>2. \A q \in Requests : ~ (Doing(q, "keep")' /\ request'[q].media = u)
        BY <2>2, <3>1, <3>4, <4>1 DEF Doing
      <4>3. \A b \in Assets : ~ Keeper(b, u)
        BY <3>2, <3>4, <4>1
      <4>4. PICK m \in Assets : Keeps(r, m) /\ \A b \in Assets \ {m} : media'[b] = media[b]
        BY <3>4, KeepsOne
      <4>5. ASSUME NEW b \in Assets, Keeper(b, u)', b # m
            PROVE  FALSE
        <5>1. media'[b] = u /\ u # Nothing /\ media'[b] = media[b]
          BY <3>4, <4>1, <4>4, <4>5, KeptMedia DEF Keeper
        <5>2. PICK q \in Requests : Keeps(q, b)
          BY <1>0, <4>3, <4>5
        <5>3. media[b] = Nothing
          BY <5>2 DEF Keeps, AssetInv, Blank
        <5> QED
          BY <5>1, <5>3
      <4> QED
        BY <4>2, <4>3, <4>4, <4>5
    <3>5. CASE \E b \in Assets : Keeper(b, u)' /\ ~ Keeper(b, u)
      <4>1. PICK r \in Requests : Keep(r) /\ request[r].media = u
        BY <1>0, <3>5
      <4> QED
        BY <3>4, <4>1
    <3> QED
      BY <2>2, <3>1, <3>3, <3>5
  <2> QED
    BY <2>1, <2>3, <2>4 DEF Kept, Url
<1> QED
  BY <1>1, <1>2, <1>3

-----------------------------------------------------------------------------
\* The inductive invariant of the review queue.
ReviewInv == ReviewTypeOK /\ (\A a \in Assets : AssetInv(a)) /\ Gallery /\ Kept

\* The inductive invariant holds initially.
LEMMA ReviewInvInit == ReviewInit => ReviewInv
<1> SUFFICES ASSUME ReviewInit PROVE ReviewInv
  OBVIOUS
<1>1. \A r \in Requests : \A op, a : ~ BusyWith(r, op, a) /\ ~ Doing(r, op)
  BY DEF ReviewInit, BusyWith, Doing
<1>2. \A url \in Url : url # Nothing
  BY ReviewAssumption DEF ReviewAssumption, Url
<1>3. ASSUME NEW a \in Assets
      PROVE  AssetInv(a)
  <2>1. Blank(a) /\ Pictured(a) /\ DrawnArtwork(a) /\ HasArtwork(a) /\ ShowsArtwork(a)
    BY <1>1 DEF ReviewInit, Blank, Pictured, DrawnArtwork, Draws, HasArtwork, ShowsArtwork
  <2>2. Accounted(a) /\ Worded(a) /\ DrawnOnce(a) /\ Shown(a)
    <3>1. Accounted(a) /\ Worded(a) /\ DrawnOnce(a)
      BY <1>1 DEF ReviewInit, Accounted, Worded, DrawnOnce, Draws
    <3>2. Shown(a)
      BY <1>1 DEF ReviewInit, Shown
    <3> QED
      BY <3>1, <3>2
  <2>3. ChosenAlone(a) /\ Chosen(a)
    BY <1>1 DEF ReviewInit, ChosenAlone, Chosen
  <2>4. \A url \in Url : ~ Holds(a, url)
    BY <1>1, <1>2 DEF ReviewInit, Holds, Faces
  <2>5. Foreign(a)
    BY <2>4 DEF ReviewInit, Foreign
  <2> QED
    BY <2>1, <2>2, <2>3, <2>5 DEF AssetInv
<1>4. Gallery
  <2>1. ASSUME NEW a \in Assets, NEW v \in Variants
        PROVE  <<a, v>> # Library
    <3>1. <<a, v>> \in Assets \X Variants
      OBVIOUS
    <3> QED
      BY <3>1, ReviewAssumption DEF ReviewAssumption
  <2> QED
    BY <1>1, <2>1 DEF ReviewInit, Gallery
<1>5. Kept
  BY <1>1, <1>2 DEF ReviewInit, Kept, Keeper
<1> QED
  BY <1>3, <1>4, <1>5, ReviewTypeInit DEF ReviewInv

\* A step that changes nothing keeps what is said of one asset ...
LEMMA AssetInvStutter ==
  ASSUME UNCHANGED reviewVars, NEW a \in Assets, AssetInv(a)
  PROVE  AssetInv(a)'
<1> USE DEF reviewVars, rowVars, drawVars, postVars, reviewHistory
<1>1. \A r, op, b : BusyWith(r, op, b)' <=> BusyWith(r, op, b)
  BY DEF BusyWith, Doing
<1>2. \A r, b : Draws(r, b)' <=> Draws(r, b)
  BY <1>1 DEF Draws
<1>3. (Blank(a) /\ Pictured(a) /\ DrawnArtwork(a) /\ HasArtwork(a) /\ ShowsArtwork(a))'
  BY <1>1, <1>2 DEF AssetInv, Blank, Pictured, DrawnArtwork, HasArtwork, ShowsArtwork
<1>4. (Accounted(a) /\ Worded(a) /\ DrawnOnce(a))'
  BY <1>1, <1>2 DEF AssetInv, Accounted, Worded, DrawnOnce
<1>5. /\ Undisturbed(a)' <=> Undisturbed(a)
      /\ \A url : Settled(url)' <=> Settled(url)
      /\ Faces(a)' = Faces(a) /\ OwnPictures(a)' = OwnPictures(a) /\ Own(a)' = Own(a)
      /\ \A url : (Vetted(a, url)' <=> Vetted(a, url)) /\ Picture(url)' = Picture(url)
  BY DEF Undisturbed, Settled, Faces, OwnPictures, Own, Vetted, Picture
<1>6. (ChosenAlone(a) /\ Chosen(a))'
  BY <1>1, <1>2, <1>5 DEF AssetInv, ChosenAlone, Chosen
<1>7. Shown(a)'
  BY <1>1, <1>5 DEF AssetInv, Shown
<1>8. \A url : Holds(a, url)' <=> Holds(a, url)
  BY <1>1, <1>5 DEF Holds
<1>9. Foreign(a)'
  BY <1>5, <1>8 DEF AssetInv, Foreign, Url
<1> QED
  BY <1>3, <1>4, <1>6, <1>7, <1>9 DEF AssetInv

\* ... and of them all.
LEMMA QueueStutter ==
  ASSUME UNCHANGED reviewVars, ReviewTypeOK, Gallery, Kept
  PROVE  (ReviewTypeOK /\ Gallery /\ Kept)'
<1> USE DEF reviewVars, rowVars, drawVars, postVars, reviewHistory
<1>1. ReviewTypeOK'
  BY DEF ReviewTypeOK
<1>2. \A r, op : Doing(r, op)' <=> Doing(r, op)
  BY DEF Doing
<1>3. \A url : (Settled(url)' <=> Settled(url)) /\ Picture(url)' = Picture(url)
  BY DEF Undisturbed, Settled, Picture
<1>4. Gallery'
  BY <1>2, <1>3 DEF Gallery, Url
<1>5. \A a, url : Keeper(a, url)' <=> Keeper(a, url)
  BY DEF Keeper, Own
<1>6. Kept'
  BY <1>2, <1>5 DEF Kept, Url
<1> QED
  BY <1>1, <1>4, <1>6

\* Every step preserves the inductive invariant.
LEMMA ReviewInvNext == ReviewInv /\ [ReviewNext]_reviewVars => ReviewInv'
<1> SUFFICES ASSUME ReviewInv, [ReviewNext]_reviewVars PROVE ReviewInv'
  OBVIOUS
<1>0. ReviewTypeOK /\ (\A a \in Assets : AssetInv(a)) /\ Gallery /\ Kept
  BY DEF ReviewInv
<1>1. CASE ReviewNext
  <2>1. ReviewTypeOK'
    BY <1>0, <1>1, ReviewTypeNext
  <2>2. \A a \in Assets : Blank(a) /\ Pictured(a) /\ DrawnArtwork(a) /\ HasArtwork(a)
                          /\ ShowsArtwork(a) /\ Accounted(a) /\ Worded(a) /\ DrawnOnce(a)
                          /\ ChosenAlone(a)
    BY <1>0 DEF AssetInv
  <2>3. ASSUME NEW a \in Assets
        PROVE  AssetInv(a)'
    <3>1. (Blank(a) /\ Pictured(a) /\ DrawnArtwork(a))'
      BY <1>0, <1>1, <2>2, BlankNext, PicturedNext, DrawnArtworkNext
    <3>2. (HasArtwork(a) /\ ShowsArtwork(a))'
      BY <1>0, <1>1, <2>2, HasArtworkNext, ShowsArtworkNext
    <3>3. (Accounted(a) /\ Worded(a) /\ DrawnOnce(a))'
      BY <1>0, <1>1, <2>2, AccountedNext, WordedNext, DrawnOnceNext
    <3>4. (ChosenAlone(a) /\ Chosen(a))'
      BY <1>0, <1>1, <2>2, ChosenAloneNext, ChosenNext
    <3>5. (Shown(a) /\ Foreign(a))'
      BY <1>0, <1>1, ShownNext, ForeignNext
    <3> QED
      BY <3>1, <3>2, <3>3, <3>4, <3>5 DEF AssetInv
  <2>4. Gallery' /\ Kept'
    BY <1>0, <1>1, GalleryNext, KeptNext
  <2> QED
    BY <2>1, <2>3, <2>4 DEF ReviewInv
<1>2. CASE UNCHANGED reviewVars
  BY <1>0, <1>2, AssetInvStutter, QueueStutter DEF ReviewInv
<1> QED
  BY <1>1, <1>2

\* The inductive invariant holds in every reachable state.
LEMMA ReviewInvAlways == ReviewSpec => []ReviewInv
<1> QED
  BY ReviewInvInit, ReviewInvNext, PTL DEF ReviewSpec

\* The review queue is type correct, for any number of assets, pictures and requests.
THEOREM ReviewTypeCorrect == ReviewSpec => []ReviewTypeOK
<1>1. ReviewInv => ReviewTypeOK
  BY DEF ReviewInv
<1> QED
  BY <1>1, ReviewInvAlways, PTL

\* What a post says and shows an approval of its asset had read, but for the exceptions
\* that are named; a picture kept from another asset included.
THEOREM AssetsWereApproved == ReviewSpec => []AssetWasApproved
<1>1. ReviewInv => AssetWasApproved
  <2> SUFFICES ASSUME ReviewInv, NEW a \in Assets
               PROVE  /\ \A i \in DOMAIN posts[a] :
                           /\ \/ posts[a][i].words \in vetted[a].words
                              \/ a \in instructed \/ "wordings" \in crossed[a]
                           /\ kind[a] = "artwork" => posts[a][i].url # Nothing \/ a \in bulked
                      /\ \A p \in shown[a] : p \in vetted[a].pictures \/ ~ Settled(p[1])
    BY DEF AssetWasApproved
  <2>1. Worded(a) /\ HasArtwork(a) /\ Shown(a) /\ Foreign(a)
    BY DEF ReviewInv, AssetInv
  <2>2. ASSUME NEW p \in shown[a], Settled(p[1])
        PROVE  p \in vetted[a].pictures
    <3>1. CASE p[1] \in Own(a)
      <4>1. p[1] # Library /\ p[1][1] = a
        BY <3>1, ReviewAssumption DEF Own, ReviewAssumption
      <4>2. Undisturbed(a)
        BY <2>2, <4>1 DEF Settled
      <4> QED
        BY <2>1, <3>1, <4>2 DEF Shown
    <3>2. CASE p[1] \notin Own(a)
      BY <2>1, <2>2, <3>2 DEF Foreign
    <3> QED
      BY <3>1, <3>2
  <2> QED
    BY <2>1, <2>2 DEF Worded, HasArtwork
<1> QED
  BY <1>1, ReviewInvAlways, PTL

\* An approval is worth one post, a failure leaves artwork alone, a picture is kept once.
THEOREM ReviewsAreSound == ReviewSpec => []ReviewSound
<1>1. ReviewInv => ReviewSound
  <2> SUFFICES ASSUME ReviewInv PROVE ReviewSound
    OBVIOUS
  <2>1. PostsWithinApprovals
    BY DEF ReviewInv, AssetInv, Accounted, PostsWithinApprovals
  <2>2. FailureLeavesArtwork
    BY DEF ReviewInv, AssetInv, DrawnOnce, FailureLeavesArtwork
  <2>3. ASSUME NEW a \in Assets \ deleted, NEW b \in Assets \ deleted, media[a] = media[b],
               media[a] \notin Own(a) \cup Own(b) \cup {Nothing}
        PROVE  a = b \/ "keeps" \in crossed[a] \/ "choices" \in crossed[a] \cup crossed[b]
    <3>1. media[a] \in Url
      BY <2>3 DEF ReviewInv, ReviewTypeOK
    <3>2. "choices" \notin crossed[a] \cup crossed[b] =>
            Keeper(a, media[a]) /\ Keeper(b, media[a])
      BY <2>3 DEF Keeper
    <3> QED
      BY <3>1, <3>2 DEF ReviewInv, Kept
  <2> QED
    BY <2>1, <2>2, <2>3 DEF ReviewSound, KeptOnce
<1> QED
  BY <1>1, ReviewInvAlways, PTL

\* Artwork that an asset has, or that another asset keeps of it, is drawn over only when
\* somebody asks for another drawing, or two overlapped.
THEOREM ArtworkIsKept == ReviewSpec => ArtworkKept
<1>1. ReviewInv /\ [ReviewNext]_reviewVars =>
        [\A a, b \in Assets :
           /\ media[a] # Nothing \/ media[b] \in Own(a)
           /\ file'[a] # file[a]
           => ~ Undisturbed(a)]_reviewVars
  <2> SUFFICES ASSUME ReviewInv, ReviewNext, NEW a \in Assets, NEW b \in Assets,
                      media[a] # Nothing \/ media[b] \in Own(a), file'[a] # file[a]
               PROVE  ~ Undisturbed(a)
    OBVIOUS
  <2>1. media[a] # Nothing
    <3>1. CASE media[b] \in Own(a) /\ b # a
      <4>1. PICK v \in Variants : media[b] = <<a, v>>
        BY <3>1 DEF Own
      <4>2. media[b] \in Url \ Own(b) /\ media[b] # Nothing
        BY <3>1, <4>1, ReviewAssumption DEF Own, Url, ReviewAssumption
      <4>3. Holds(b, media[b])
        BY <4>2 DEF Holds, Faces
      <4>4. media[b] \in gallery
        BY <4>2, <4>3 DEF ReviewInv, AssetInv, Foreign
      <4> QED
        BY <4>1, <4>4 DEF ReviewInv, Gallery
    <3>2. CASE media[a] \in Own(a)
      BY <3>2, ReviewAssumption DEF Own, ReviewAssumption
    <3> QED
      BY <3>1, <3>2
  <2> QED
    BY <2>1, FilesStay DEF ReviewInv
<1> QED
  BY <1>1, ReviewInvAlways, PTL DEF ReviewSpec, ArtworkKept
=============================================================================
