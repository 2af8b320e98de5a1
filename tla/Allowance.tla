------------------------------ MODULE Allowance ------------------------------
(***************************************************************************)
(* The month-to-date ad spend of one organisation: the Meta pollers, one   *)
(* per worker process, that reconcile it after each insight sync, close    *)
(* finished months into the ledger                                         *)
(* (apps/worker/src/meta/allowance-accumulator.ts) and announce the        *)
(* allowance thresholds (apps/worker/src/meta/allowance-alerts.ts).        *)
(***************************************************************************)
EXTENDS Naturals, FiniteSets, Functions

CONSTANTS
  Workers,      \* the worker processes
  MaxMonth,     \* bound: the months are 1..MaxMonth; 0 stands for none
  MaxSpend,     \* bound: what all insight rows together can add up to
  Thresholds,   \* the amounts at which an alert is due: 70, 85 and 100 per cent
  Faults,       \* the kinds of fault that happen
  MaxTrouble    \* bound: how many faults happen in one behaviour

FaultKinds == {"crash", "write", "mail", "credit"}

ASSUME AllowanceAssumption ==
  /\ MaxMonth \in Nat \ {0}
  /\ MaxSpend \in Nat
  /\ Thresholds \subseteq 1..MaxSpend
  /\ Faults \subseteq FaultKinds
  /\ MaxTrouble \in Nat

VARIABLES
  month,     \* the calendar month, in the organisation's timezone
  spend,     \* [Months -> Nat]: the sum of the AdInsight rows dated in the month
  total,     \* organization.adSpentThisMonth
  totalOf,   \* organization.adSpendMonth: the month `total` is about, or 0
  ledger,    \* [Months -> SUBSET Nat]: the AdSpendLedger row, at most one amount
  alerted,   \* [Months -> SUBSET Thresholds]: the AdAllowanceAlert rows
  enabled,   \* organization.adAlertsEnabled
  pc,        \* [Workers -> Step]: where reconcileOrg() is
  now,       \* [Workers -> Months or 0]: monthKey(now), fixed when the pass starts
  ended,     \* [Workers -> Months or 0]: the month the pass has to close first
  sends,     \* [Workers -> BOOLEAN]: adAlertsEnabled as the pass read it
  sum,       \* [Workers -> Nat]: the last aggregate it computed
  plan,      \* [Workers -> SUBSET Thresholds]: alerts still to fire
  reported,  \* [Months -> SUBSET Nat]: history, what spend has been
  told,      \* [Months -> [Thresholds -> Nat]]: history, times the client was notified
  recorded,  \* history: months that have been written to totalOf
  overlap,   \* history: two workers have been reconciling at the same time
  faults     \* history: faults so far

orgVars == <<total, totalOf, ledger, alerted>>
passVars == <<now, ended, sends, sum, plan>>
historyVars == <<reported, told, recorded, overlap>>
allowanceVars == <<month, spend, orgVars, enabled, pc, passVars, historyVars, faults>>

Months == 1..MaxMonth
Step == {"down", "idle", "reading", "closing", "upserting", "summing", "storing", "planning",
         "firing", "telling"}
Busy == {w \in Workers : pc[w] \notin {"down", "idle"}}

AllowanceTypeOK ==
  /\ month \in Months
  /\ spend \in [Months -> 0..MaxSpend]
  /\ total \in 0..MaxSpend
  /\ totalOf \in 0..MaxMonth
  /\ ledger \in [Months -> SUBSET (0..MaxSpend)]
  /\ \A m \in Months : Cardinality(ledger[m]) <= 1
  /\ alerted \in [Months -> SUBSET Thresholds]
  /\ enabled \in BOOLEAN
  /\ pc \in [Workers -> Step]
  /\ now \in [Workers -> 0..MaxMonth]
  /\ ended \in [Workers -> 0..MaxMonth]
  /\ sends \in [Workers -> BOOLEAN]
  /\ sum \in [Workers -> 0..MaxSpend]
  /\ plan \in [Workers -> SUBSET Thresholds]
  /\ reported \in [Months -> SUBSET (0..MaxSpend)]
  /\ told \in [Months -> [Thresholds -> Nat]]
  /\ recorded \subseteq Months
  /\ overlap \in BOOLEAN
  /\ faults \in 0..MaxTrouble

AllowanceInit ==
  /\ month = 1
  /\ spend = [m \in Months |-> 0]
  /\ total = 0
  /\ totalOf = 0
  /\ ledger = [m \in Months |-> {}]
  /\ alerted = [m \in Months |-> {}]
  /\ enabled \in BOOLEAN
  /\ pc = [w \in Workers |-> "idle"]
  /\ now = [w \in Workers |-> 0]
  /\ ended = [w \in Workers |-> 0]
  /\ sends = [w \in Workers |-> FALSE]
  /\ sum = [w \in Workers |-> 0]
  /\ plan = [w \in Workers |-> {}]
  /\ reported = [m \in Months |-> {0}]
  /\ told = [m \in Months |-> [t \in Thresholds |-> 0]]
  /\ recorded = {}
  /\ overlap = FALSE
  /\ faults = 0

Fault(kind) == kind \in Faults /\ faults < MaxTrouble /\ faults' = faults + 1

Goto(w, step) == pc' = [pc EXCEPT ![w] = step]

\* The pass is over for this organisation; nothing of it is kept.
Leave(w, step) ==
  /\ Goto(w, step)
  /\ now' = [now EXCEPT ![w] = 0]
  /\ ended' = [ended EXCEPT ![w] = 0]
  /\ sends' = [sends EXCEPT ![w] = FALSE]
  /\ sum' = [sum EXCEPT ![w] = 0]
  /\ plan' = [plan EXCEPT ![w] = {}]

\* What all insight rows together add up to.
TotalSpend(f) == FoldFunction(+, 0, f)

-----------------------------------------------------------------------------
(* The outside: time, Meta and the administrator.                          *)

MonthTurns ==
  /\ month < MaxMonth
  /\ month' = month + 1
  /\ UNCHANGED <<spend, orgVars, enabled, pc, passVars, historyVars, faults>>

\* A sync upserts rows of the last seven days: of this month, and until its rows have
\* settled of the month before. A restatement mostly raises a day's spend; that it
\* lowers it counts as a fault.
Sync(m) ==
  /\ m \in {month, month - 1}
  /\ \E s \in 0..MaxSpend :
       /\ TotalSpend([spend EXCEPT ![m] = s]) <= MaxSpend
       /\ \/ s = spend[m] + 1 /\ UNCHANGED faults
          \/ s + 1 = spend[m] /\ Fault("credit")
       /\ spend' = [spend EXCEPT ![m] = s]
       /\ reported' = [reported EXCEPT ![m] = @ \cup {s}]
  /\ UNCHANGED <<month, orgVars, enabled, pc, passVars, told, recorded, overlap>>

-----------------------------------------------------------------------------
(* One pass of one worker: reconcileAllOrgs() for this organisation.       *)

\* now := new Date(), before the organisations are read.
Begin(w) ==
  /\ pc[w] = "idle"
  /\ now' = [now EXCEPT ![w] = month]
  /\ overlap' = (overlap \/ Busy # {})
  /\ Goto(w, "reading")
  /\ UNCHANGED <<month, spend, orgVars, enabled, ended, sends, sum, plan, reported, told,
                 recorded, faults>>

\* Seeded fault: only the month just before is closed.
EndedLastMonth(m, n) == m # 0 /\ m = n - 1

\* The running total belongs to another month than this pass's.
Ended(m, n) == m # 0 /\ m # n

Read(w) ==
  /\ pc[w] = "reading"
  /\ sends' = [sends EXCEPT ![w] = enabled]
  /\ IF Ended(totalOf, now[w])
       THEN ended' = [ended EXCEPT ![w] = totalOf] /\ Goto(w, "closing")
       ELSE UNCHANGED ended /\ Goto(w, "summing")
  /\ UNCHANGED <<month, spend, orgVars, enabled, now, sum, plan, historyVars, faults>>

\* spentInRange() of the month to close, then of the month of this pass.
Aggregate(w, m, next) ==
  /\ sum' = [sum EXCEPT ![w] = spend[m]]
  /\ Goto(w, next)
  /\ UNCHANGED <<month, spend, orgVars, enabled, now, ended, sends, plan, historyVars, faults>>

SumEnded(w) == pc[w] = "closing" /\ Aggregate(w, ended[w], "upserting")
SumCurrent(w) == pc[w] = "summing" /\ Aggregate(w, now[w], "storing")

\* The upsert: one row for a month, whoever closes it and however often.
LedgerRow(rows, amount) == {amount}

\* closeMonth(): adSpendLedger.upsert on (organisation, month).
CloseMonth(w) ==
  /\ pc[w] = "upserting"
  /\ ledger' = [ledger EXCEPT ![ended[w]] = LedgerRow(@, sum[w])]
  /\ ended' = [ended EXCEPT ![w] = 0]
  /\ sum' = [sum EXCEPT ![w] = 0]
  /\ Goto(w, "summing")
  /\ UNCHANGED <<month, spend, total, totalOf, alerted, enabled, now, sends, plan, historyVars,
                 faults>>

\* The stored figure is overwritten, never added to.
NewTotal(s) == s

Store(w) ==
  /\ pc[w] = "storing"
  /\ total' = NewTotal(sum[w])
  /\ totalOf' = now[w]
  /\ recorded' = recorded \cup {now[w]}
  /\ Goto(w, "planning")
  /\ UNCHANGED <<month, spend, ledger, alerted, enabled, passVars, reported, told, overlap,
                 faults>>

\* The thresholds reached, without those that have a record already.
Plan(w) ==
  /\ pc[w] = "planning"
  /\ LET fresh == {t \in Thresholds : t <= sum[w]} \ alerted[now[w]]
     IN IF fresh = {}
          THEN Leave(w, "idle")
          ELSE /\ plan' = [plan EXCEPT ![w] = fresh]
               /\ sum' = [sum EXCEPT ![w] = 0]
               /\ Goto(w, "firing")
               /\ UNCHANGED <<now, ended, sends>>
  /\ UNCHANGED <<month, spend, orgVars, enabled, historyVars, faults>>

Lowest(S) == CHOOSE t \in S : \A u \in S : t <= u

\* Fire the next alert, or end the pass after the last one.
Onward(w) ==
  IF plan[w] = {Lowest(plan[w])}
    THEN Leave(w, "idle")
    ELSE /\ plan' = [plan EXCEPT ![w] = @ \ {Lowest(@)}]
         /\ Goto(w, "firing")
         /\ UNCHANGED <<now, ended, sends, sum>>

\* Seeded fault: an upsert where a create has to collide.
AnnounceAnyway(w, t) == sends[w]

\* The record is created, unless another worker has created it: that violates its
\* unique key and the alert is skipped. Without alerts enabled nothing is sent.
Announce(w, t) == t \notin alerted[now[w]] /\ sends[w]

Fire(w) ==
  /\ pc[w] = "firing"
  /\ LET t == Lowest(plan[w])
     IN /\ alerted' = [alerted EXCEPT ![now[w]] = @ \cup {t}]
        /\ IF Announce(w, t) THEN Goto(w, "telling") /\ UNCHANGED passVars ELSE Onward(w)
  /\ UNCHANGED <<month, spend, total, totalOf, ledger, enabled, historyVars, faults>>

\* The notification and the e-mails. A failure of either leaves the pass with the
\* record kept and the alerts behind it not fired.
Tell(w) ==
  /\ pc[w] = "telling"
  /\ \/ /\ told' = [told EXCEPT ![now[w]][Lowest(plan[w])] = @ + 1]
        /\ \/ Onward(w) /\ UNCHANGED faults
           \/ Leave(w, "idle") /\ Fault("mail")
     \/ Leave(w, "idle") /\ Fault("write") /\ UNCHANGED told
  /\ UNCHANGED <<month, spend, orgVars, enabled, reported, recorded, overlap>>

\* A statement before the alerts fails: the error is logged, the pass is over.
Throw(w) ==
  /\ pc[w] \in {"reading", "closing", "upserting", "summing", "storing", "planning"}
  /\ Fault("write")
  /\ Leave(w, "idle")
  /\ UNCHANGED <<month, spend, orgVars, enabled, historyVars>>

Crash(w) ==
  /\ pc[w] # "down"
  /\ Fault("crash")
  /\ Leave(w, "down")
  /\ UNCHANGED <<month, spend, orgVars, enabled, historyVars>>

Restart(w) ==
  /\ pc[w] = "down"
  /\ Goto(w, "idle")
  /\ UNCHANGED <<month, spend, orgVars, enabled, passVars, historyVars, faults>>

Reconcile(w) ==
  \/ Begin(w) \/ Read(w) \/ SumEnded(w) \/ CloseMonth(w) \/ SumCurrent(w) \/ Store(w)
  \/ Plan(w) \/ Fire(w) \/ Tell(w) \/ Throw(w) \/ Restart(w)

AllowanceNext ==
  \/ MonthTurns
  \/ \E m \in Months : Sync(m)
  \/ \E w \in Workers : Reconcile(w) \/ Crash(w)

AllowanceSpec == AllowanceInit /\ [][AllowanceNext]_allowanceVars

-----------------------------------------------------------------------------
\* A client hears of a threshold at most once a month, whatever workers race,
\* crash or fail half-way (allowance-alerts.ts:21 "Once per threshold per month").
AlertsAtMostOnce ==
  \A m \in Months, t \in Thresholds :
    told[m][t] <= (IF t \in alerted[m] /\ enabled THEN 1 ELSE 0)

\* Every figure kept, of the running month or of a closed one, is one that Meta reported
\* at some moment for the very month it names: never a figure of two months together,
\* nor one with a restated day counted twice (allowance-accumulator.ts:11).
FiguresOfTheirMonth ==
  /\ totalOf # 0 => total \in reported[totalOf]
  /\ \A m \in Months : ledger[m] \subseteq reported[m]

\* Every month whose total was ever shown has its ledger row once the total moves on,
\* also over months in which no pass ran; only passes of two workers that overlap
\* can skip one.
ShownMonthsAreClosed ==
  overlap \/ \A m \in recorded \ {totalOf} : ledger[m] # {}
=============================================================================
