----------------------------- MODULE ReportDigest -----------------------------
(***************************************************************************)
(* The monthly client report (apps/worker/src/reports/poller.ts): every      *)
(* worker process has a poller that, once an hour, queues last month's        *)
(* report for each organisation that wants it. What tells a report that was  *)
(* made is the name of its campaign, which no index keeps unique.            *)
(***************************************************************************)
EXTENDS Naturals, FiniteSets

CONSTANTS
  Pollers,    \* the worker processes
  Clients,    \* the organisations
  Periods,    \* bound: the months reported on, 1..Periods
  Nobody,     \* no organisation
  DigestFaults,  \* the kinds of fault that happen
  MaxDigestTrouble \* bound: how many faults and changes of settings happen

ASSUME DigestAssumption ==
  /\ Periods \in Nat \ {0}
  /\ DigestFaults \subseteq {"database", "crash"}

VARIABLES
  period,   \* the month before this one
  wants,    \* the organisations with monthlyReportEnabled that are in trial or active
  reachable,  \* those a recipient can be found for
  campaigns,  \* [Clients -> [1..Periods -> Nat]]: e-mail campaigns with the month's name
  poller,   \* [Pollers -> Poller]: where runOnce() is
  raced,    \* history: the organisations and months for which two transactions overlapped
  digestFaults, settings  \* history: faults and changes so far

digestVars == <<period, wants, reachable, campaigns, poller, raced, digestFaults, settings>>

\* `todo` are the organisations the loop has yet to reach; `month` is the period
\* that runOnce() computed when it began.
DigestStep == {"resting", "looping", "collecting", "creating", "writing"}
Resting == [step |-> "resting", todo |-> {}, at |-> Nobody, month |-> 1]

DigestInit ==
  /\ period = 1
  /\ wants \in SUBSET Clients
  /\ reachable = Clients  \* provisioning makes an owner
  /\ campaigns = [c \in Clients |-> [m \in 1..Periods |-> 0]]
  /\ poller = [w \in Pollers |-> Resting]
  /\ raced = {}
  /\ digestFaults = 0
  /\ settings = 0

Trouble(kind) ==
  /\ kind \in DigestFaults
  /\ digestFaults + settings < MaxDigestTrouble
  /\ digestFaults' = digestFaults + 1

Reported(w) == campaigns[poller[w].at][poller[w].month] > 0

\* runOnce(): the month, and who wants its report.
Tick(w) ==
  /\ poller[w].step = "resting"
  /\ wants # {}
  /\ poller' = [poller EXCEPT ![w] = [step |-> "looping", todo |-> wants, at |-> Nobody,
                                      month |-> period]]
  /\ UNCHANGED <<period, wants, reachable, campaigns, raced, digestFaults, settings>>

\* The loop goes on to an organisation, or rests until the next tick.
Onward(w) ==
  IF poller[w].todo = {} THEN Resting ELSE [poller[w] EXCEPT !.step = "looping", !.at = Nobody]

\* sendForOrg(): the cheap check, and the recipient.
Approach(w) ==
  /\ poller[w].step = "looping"
  /\ \E c \in poller[w].todo :
       LET here == [poller[w] EXCEPT !.todo = @ \ {c}, !.at = c]
       IN poller' = [poller EXCEPT ![w] =
                       IF campaigns[c][here.month] = 0 /\ c \in reachable
                       THEN [here EXCEPT !.step = "collecting"]
                       ELSE IF here.todo = {} THEN Resting
                       ELSE [here EXCEPT !.at = Nobody]]
  /\ UNCHANGED <<period, wants, reachable, campaigns, raced, digestFaults, settings>>

\* collect() has read the month's figures; the transaction begins.
Collect(w) ==
  /\ poller[w].step = "collecting"
  /\ poller' = [poller EXCEPT ![w].step = "creating"]
  /\ LET same == {v \in Pollers \ {w} : /\ poller[v].step \in {"creating", "writing"}
                                        /\ poller[v].at = poller[w].at
                                        /\ poller[v].month = poller[w].month}
     IN raced' = IF same = {} THEN raced ELSE raced \cup {<<poller[w].at, poller[w].month>>}
  /\ UNCHANGED <<period, wants, reachable, campaigns, digestFaults, settings>>

\* Seeded fault: the transaction relies on the cheap check.
MadeMeanwhileNot(w) == FALSE

\* The transaction looks for the campaign again.
MadeMeanwhile(w) == Reported(w)

Recheck(w) ==
  /\ poller[w].step = "creating"
  /\ poller' = [poller EXCEPT ![w] =
                  IF MadeMeanwhile(w) THEN Onward(w) ELSE [@ EXCEPT !.step = "writing"]]
  /\ UNCHANGED <<period, wants, reachable, campaigns, raced, digestFaults, settings>>

\* It commits the campaign with its one QUEUED send. The notification that follows
\* may fail and changes nothing else.
Create(w) ==
  /\ poller[w].step = "writing"
  /\ campaigns' = [campaigns EXCEPT ![poller[w].at][poller[w].month] = @ + 1]
  /\ poller' = [poller EXCEPT ![w] = Onward(w)]
  /\ UNCHANGED <<period, wants, reachable, raced, digestFaults, settings>>

\* A query throws: the organisation is left for the next tick. Or the process dies.
Interrupt(w) ==
  /\ \/ poller[w].step \in {"collecting", "creating", "writing"} /\ Trouble("database")
        /\ poller' = [poller EXCEPT ![w] = Onward(w)]
     \/ poller[w].step # "resting" /\ Trouble("crash")
        /\ poller' = [poller EXCEPT ![w] = Resting]
  /\ UNCHANGED <<period, wants, reachable, campaigns, raced, settings>>

\* The month ends, whatever was left unreported.
MonthEnds ==
  /\ period < Periods
  /\ period' = period + 1
  /\ UNCHANGED <<wants, reachable, campaigns, poller, raced, digestFaults, settings>>

\* An organisation changes its settings or its owner, or is suspended.
ChangeSettings(c) ==
  /\ digestFaults + settings < MaxDigestTrouble
  /\ settings' = settings + 1
  /\ \/ wants' = (wants \ {c}) \cup ({c} \ wants) /\ UNCHANGED reachable
     \/ reachable' = (reachable \ {c}) \cup ({c} \ reachable) /\ UNCHANGED wants
  /\ UNCHANGED <<period, campaigns, poller, raced, digestFaults>>

PollerStep(w) == Approach(w) \/ Collect(w) \/ Recheck(w) \/ Create(w)

DigestNext ==
  \/ MonthEnds
  \/ \E c \in Clients : ChangeSettings(c)
  \/ \E w \in Pollers : Tick(w) \/ PollerStep(w) \/ Interrupt(w)

\* The timer of a process that lives fires, and its loop goes on.
DigestFairness == \A w \in Pollers : WF_digestVars(Tick(w)) /\ WF_digestVars(PollerStep(w))

DigestSpec == DigestInit /\ [][DigestNext]_digestVars /\ DigestFairness

(***************************************************************************)
(* Properties                                                              *)
(***************************************************************************)
\* Every variable keeps its type.
DigestTypeOK ==
  /\ period \in 1..Periods
  /\ wants \subseteq Clients /\ reachable \subseteq Clients
  /\ campaigns \in [Clients -> [1..Periods -> Nat]]
  /\ poller \in [Pollers -> [step : DigestStep, todo : SUBSET Clients,
                             at : Clients \cup {Nobody}, month : 1..Periods]]
  /\ raced \subseteq Clients \X (1..Periods)

\* A client gets one report a month, however many workers, crashes and retries,
\* unless two workers were in the transaction for it at the same time.
SecondReportNeedsRace ==
  \A c \in Clients, m \in 1..Periods : campaigns[c][m] > 1 => <<c, m>> \in raced

\* Once months and settings stay as they are, every client that wants the report of
\* the month and can be reached gets it, whatever failed.
ReportsDone == \A c \in wants \cap reachable : campaigns[c][period] > 0
ReportsArrive == []<>ReportsDone
=============================================================================
