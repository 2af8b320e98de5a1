------------------------------ MODULE TenantScope ------------------------------
(* How the data of organisations is kept apart, in three layers                *)
(* (packages/database/src). A request or a job carries a tenant context in     *)
(* AsyncLocalStorage; an extension of the database client adds the             *)
(* organisation of the context to what a query names, and refuses without one; *)
(* and PostgreSQL shows a connection only the rows of the organisation its     *)
(* transaction was bound to. Connections are pooled, so what one transaction   *)
(* sets on its connection the next task to use it would find.                  *)
(*                                                                            *)
(* A statement is told by the organisations whose rows it names: one that      *)
(* names none by itself names all. A row that is created belongs to the one    *)
(* organisation named. Every organisation has rows of every kind.              *)
EXTENDS FiniteSets

CONSTANTS
  Orgs, Tasks,   \* organisations; requests and jobs, each a chain of asynchronous calls
  Connections,   \* the pool of one process
  Nothing

ASSUME ScopeAssumption == Nothing \notin Orgs \cup Connections

VARIABLES
  process,   \* "api" or "worker"
  role,      \* the database role its connection string names: "app", or "owner" of the tables
  listed,    \* whether the registry lists every model with a tenant column
  up,        \* whether the process has started
  context,   \* the organisation of a task's tenant context
  view,      \* whether the context is that of a view-only session
  on,        \* the connection of a task's transaction
  given,     \* the organisation the transaction was opened for
  stage,     \* how far withTenantTransaction is
  setting,   \* app.organization_id of a connection
  readOnly,  \* whether the transaction of a connection is READ ONLY
  touched    \* the rows the last statement reached: for whom, whose, by a view, written

processVars == <<process, role, listed, up>>
taskVars == <<context, view, on, given, stage>>
connectionVars == <<setting, readOnly>>
scopeVars == <<processVars, taskVars, connectionVars, touched>>

Stages == {"out", "begun", "limited", "bound"}

ScopeTypeOK ==
  /\ process \in {"api", "worker"}
  /\ role \in {"app", "owner"}
  /\ listed \in BOOLEAN
  /\ up \in BOOLEAN
  /\ context \in [Tasks -> Orgs \cup {Nothing}]
  /\ view \in [Tasks -> BOOLEAN]
  /\ on \in [Tasks -> Connections \cup {Nothing}]
  /\ given \in [Tasks -> Orgs \cup {Nothing}]
  /\ stage \in [Tasks -> Stages]
  /\ setting \in [Connections -> Orgs \cup {Nothing}]
  /\ readOnly \in [Connections -> BOOLEAN]
  /\ touched \subseteq
       [for : Orgs \cup {Nothing}, of : Orgs, view : BOOLEAN, wrote : BOOLEAN]

\* Nothing runs and no connection is open.
NoTask == [t \in Tasks |-> Nothing]
NoSetting == [c \in Connections |-> Nothing]
Never(S) == [x \in S |-> FALSE]
AllOut == [t \in Tasks |-> "out"]

ScopeInit ==
  /\ process \in {"api", "worker"}
  /\ role \in {"app", "owner"}
  /\ listed \in BOOLEAN
  /\ up = FALSE
  /\ context = NoTask /\ view = Never(Tasks)
  /\ on = NoTask /\ given = NoTask /\ stage = AllOut
  /\ setting = NoSetting /\ readOnly = Never(Connections)
  /\ touched = {}

\* A deployment, or a crash and a restart: its configuration may be another one.
Deploy ==
  /\ process' \in {"api", "worker"}
  /\ role' \in {"app", "owner"}
  /\ listed' \in BOOLEAN
  /\ up' = FALSE
  /\ context' = NoTask /\ view' = Never(Tasks)
  /\ on' = NoTask /\ given' = NoTask /\ stage' = AllOut
  /\ setting' = NoSetting /\ readOnly' = Never(Connections)
  /\ UNCHANGED touched

\* Seeded fault: the preflight looks at the registry only.
EnforcedNot == process = "api" => listed

\* What the preflight lets start: the connection is subject to the policies and, in the
\* API, the registry matches the schema.
Enforced == role = "app" /\ (process = "api" => listed)

Boot ==
  /\ ~ up
  /\ Enforced
  /\ up' = TRUE
  /\ UNCHANGED <<process, role, listed, taskVars, connectionVars, touched>>

\* withTenant: the interceptor opens the context of a request, the worker that of a job.
\* A public route runs without one.
Enter(t, o) ==
  /\ up
  /\ context[t] = Nothing
  /\ stage[t] = "out"
  /\ context' = [context EXCEPT ![t] = o]
  /\ \E v \in BOOLEAN :
       /\ v => process = "api"
       /\ view' = [view EXCEPT ![t] = v]
  /\ UNCHANGED <<processVars, on, given, stage, connectionVars, touched>>

\* The callback of withTenant has ended, and with it every transaction it awaited.
Exit(t) ==
  /\ context[t] # Nothing
  /\ stage[t] = "out"
  /\ context' = [context EXCEPT ![t] = Nothing]
  /\ view' = [view EXCEPT ![t] = FALSE]
  /\ UNCHANGED <<processVars, on, given, stage, connectionVars, touched>>

Free == {c \in Connections : \A t \in Tasks : on[t] # c}

\* withTenantTransaction, for the organisation of the context or for one that is passed to
\* it: without either it throws. It waits for a connection.
Begin(t, o) ==
  /\ up
  /\ stage[t] = "out"
  /\ \E c \in Free : on' = [on EXCEPT ![t] = c]
  /\ given' = [given EXCEPT ![t] = o]
  /\ stage' = [stage EXCEPT ![t] = "begun"]
  /\ UNCHANGED <<processVars, context, view, connectionVars, touched>>

OfContext(t) == context[t] # Nothing /\ Begin(t, context[t])

\* Only handlers of writes pass an organisation, and ReadOnlySessionGuard refuses every
\* request of a view-only session that is not GET, HEAD or OPTIONS.
Passed(t, o) == ~ view[t] /\ Begin(t, o)

\* SET TRANSACTION READ ONLY, the first statement of a view-only session.
Limit(t) ==
  /\ stage[t] = "begun"
  /\ view[t]
  /\ readOnly' = [readOnly EXCEPT ![on[t]] = TRUE]
  /\ stage' = [stage EXCEPT ![t] = "limited"]
  /\ UNCHANGED <<processVars, context, view, on, given, setting, touched>>

\* Whether the transaction may be bound: a view-only one is limited before.
Bindable(t) == stage[t] = "limited" \/ (stage[t] = "begun" /\ ~ view[t])

\* set_config(app.organization_id, ..., true).
Bind(t) ==
  /\ Bindable(t)
  /\ setting' = [setting EXCEPT ![on[t]] = given[t]]
  /\ stage' = [stage EXCEPT ![t] = "bound"]
  /\ UNCHANGED <<processVars, context, view, on, given, readOnly, touched>>

\* What is left of the setting when its transaction has ended: it was local to it.
Left(c) == Nothing

\* The transaction commits, fails, or is rolled back when its time is up; its connection
\* returns to the pool.
End(t) ==
  /\ stage[t] # "out"
  /\ setting' = [setting EXCEPT ![on[t]] = Left(on[t])]
  /\ readOnly' = [readOnly EXCEPT ![on[t]] = FALSE]
  /\ on' = [on EXCEPT ![t] = Nothing]
  /\ given' = [given EXCEPT ![t] = Nothing]
  /\ stage' = [stage EXCEPT ![t] = "out"]
  /\ UNCHANGED <<processVars, context, view, touched>>

\* What the extension leaves of the organisations a query names. It refuses a scoped model
\* without a context; it passes on raw SQL, a child reached through its parent, and a model
\* the registry does not list.
Scoped(t, kind, named) ==
  IF kind = "scoped" /\ listed THEN named \cap {context[t]} ELSE named

\* The organisations whose rows the policies show a connection: the owner of the tables is
\* exempt.
Shown(c) == IF role = "owner" THEN Orgs ELSE {setting[c]} \ {Nothing}

\* A statement of a task, for an organisation, on a connection. One that writes fails in a
\* READ ONLY transaction.
Statement(t, o, c) ==
  \E kind \in {"scoped", "child", "raw"}, named \in SUBSET Orgs, wrote \in BOOLEAN :
    /\ wrote => ~ readOnly[c]
    /\ touched' =
         {[for |-> o, of |-> p, view |-> view[t], wrote |-> wrote] :
            p \in Scoped(t, kind, named) \cap Shown(c)}
    /\ UNCHANGED <<processVars, taskVars, connectionVars>>

\* A statement of the transaction.
Within(t) == stage[t] = "bound" /\ Statement(t, given[t], on[t])

\* A statement outside one, with or without a context, on whichever connection is free.
Outside(t) == up /\ \E c \in Free : Statement(t, context[t], c)

TaskStep(t) ==
  \/ \E o \in Orgs : Enter(t, o) \/ Passed(t, o)
  \/ OfContext(t) \/ Limit(t) \/ Bind(t) \/ Within(t) \/ Outside(t) \/ End(t) \/ Exit(t)

ScopeNext == Deploy \/ Boot \/ \E t \in Tasks : TaskStep(t)

ScopeSpec == ScopeInit /\ [][ScopeNext]_scopeVars

-----------------------------------------------------------------------------

\* A statement reaches rows of the organisation it is for and of no other: not those the
\* connection was last used for, nor those of a task that ran between two of its steps
\* (tenant-context.ts:6-11, client.ts:78-84). With no organisation it reaches none.
TenantsApart == \A x \in touched : x.of = x.for

\* A view-only session changes nothing, whatever its handlers try
\* (tenant-context.ts:25-30).
ViewsChangeNothing == \A x \in touched : x.view => ~ x.wrote

Isolated == TenantsApart /\ ViewsChangeNothing
=============================================================================
