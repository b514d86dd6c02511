------------------------------- MODULE Roles -------------------------------
(***************************************************************************)
(* Organisation plans, the AI roles they bring about, and the event bus    *)
(* that triggers the roles: internal/api/org_handlers.go, internal/roles,  *)
(* internal/events.  The rows of organizations and ai_role_instances       *)
(* outlive the process; agents, cron jobs, subscriptions and the events    *)
(* between Redis and the dispatcher do not.                                *)
(*                                                                         *)
(* An API request is a goroutine: each SQL statement and each registration *)
(* of a role is a step.  The main goroutine loads the roles of one tenant  *)
(* before the API starts, while the listener of the bus may already run.   *)
(***************************************************************************)
EXTENDS Naturals, Sequences

CONSTANTS
    Tenants,
    Boss,          \* the tenant of the configured boss
    RoleIds,
    EventTypes,
    BootTypes,     \* event types subscribed to before the listener starts
    Published,     \* event types the code publishes
    Cron,          \* the trigger of a capability with a schedule
    Plans,         \* the plans the LLM may return
    Requests,      \* goroutines handling API requests
    Nil,
    CallFaults, BusFaults, Crashes,
    MaxRequests, MaxEvents

VARIABLES
    org,        \* organizations: the row of each tenant, or Nil
    rows,       \* ai_role_instances: the configuration of each active role, or Nil
    phase,      \* of the main goroutine: "down", "boot", "loading", "up"
    toLoad,     \* the roles the main goroutine has read and not yet registered
    agents,     \* Manager.agents: by role id only
    regs,       \* capabilities handed to the scheduler or the bus, in order
    listening,  \* event types the bus receives, or Nil before it subscribes
    bus,        \* events received and not yet dispatched
    cur,        \* the event being dispatched and the handlers still to call
    req,        \* the local state of each request
    ran,        \* history: the handlers that ran a capability, and for which event
    owed,       \* history: <<event, handler>> subscribed when the bus received it
    events,     \* history: the number of events published
    amiss,      \* history: <<tenant, role>> whose row this process has not
                \* registered: it failed to, or the row is another tenant's
    overlapped, \* history: tenants with two activations at once in this process
    requests    \* history: the number of requests

vars == <<org, rows, phase, toLoad, agents, regs, listening, bus, cur, req,
          ran, owed, events, amiss, overlapped, requests>>
memory == <<agents, regs>>
dispatch == <<bus, cur, ran, owed, events>>
start == <<phase, toLoad, listening>>
tally == <<overlapped, requests>>

Triggers == EventTypes \cup {Cron}

\* A plan gives each role the triggers of its capabilities, in order.  A role
\* that is not in it, is no AI role or has no known action has none; a schedule
\* gocron refuses is no trigger.
Configs == Seq(Triggers)
InPlan(plan) == {r \in RoleIds : plan[r] # <<>>}

\* What the theorems ask of the constants.
PlansAssumption ==
    /\ \A p \in Plans : DOMAIN p = RoleIds /\ \A r \in RoleIds : p[r] \in Configs
    /\ Nil \notin Configs
BossAssumption == Boss \in Tenants
Dispatches ==
    [event : [id : Nat, tenant : Tenants, type : Published], todo : SUBSET Nat]
Agents == [tenant : Tenants, config : Configs]
NilAssumption == Nil \notin Dispatches /\ Nil \notin Agents

\* The row of organizations; plan_version only counts the changes and is left out.
Org(plan, status) == [plan |-> plan, status |-> status]
At(loc, t, got) == [pc |-> loc, tenant |-> t, got |-> got, role |-> Nil, todo |-> {}]
NoRequest == At("idle", Nil, Nil)

-----------------------------------------------------------------------------
(* registerAgent                                                           *)

Registrations == [tenant : Tenants, role : RoleIds, on : Triggers]
Capabilities(t, r, config) ==
    [i \in DOMAIN config |-> [tenant |-> t, role |-> r, on |-> config[i]]]

\* The map is keyed by the role; what was scheduled or subscribed before stays.
RegisterAgent(t, r, config) ==
    /\ agents' = [agents EXCEPT ![r] = [tenant |-> t, config |-> config]]
    /\ regs' = regs \o Capabilities(t, r, config)
    /\ amiss' = IF config = rows[t][r] THEN amiss \ {<<t, r>>} ELSE amiss

\* The engine of the mentor cannot be loaded: only a line in the log.
NotRegistered(t, r) ==
    /\ CallFaults
    /\ amiss' = amiss \cup {<<t, r>>}
    /\ UNCHANGED memory

-----------------------------------------------------------------------------
(* The start of the process                                                *)

Active(t) == {r \in RoleIds : rows[t][r] # Nil}

\* Only the roles of the boss's tenant will be loaded.
Boot ==
    /\ phase = "down"
    /\ phase' = "boot"
    /\ amiss' = amiss \cup {tr \in (Tenants \ {Boss}) \X RoleIds : tr[2] \in Active(tr[1])}
    /\ UNCHANGED <<org, rows, toLoad, memory, listening, dispatch, req, tally>>

LoadRead ==
    /\ phase = "boot"
    /\ phase' = "loading"
    /\ \/ toLoad' = Active(Boss) /\ UNCHANGED amiss
       \/ /\ CallFaults
          /\ toLoad' = {}
          /\ amiss' = amiss \cup ({Boss} \X RoleIds)
    /\ UNCHANGED <<org, rows, memory, listening, dispatch, req, tally>>

LoadOne ==
    /\ phase = "loading"
    /\ \E r \in toLoad :
         /\ RegisterAgent(Boss, r, rows[Boss][r]) \/ NotRegistered(Boss, r)
         /\ toLoad' = toLoad \ {r}
    /\ UNCHANGED <<org, rows, phase, listening, dispatch, req, tally>>

\* The API starts when the roles are loaded.
Serve ==
    /\ phase = "loading" /\ toLoad = {}
    /\ phase' = "up"
    /\ UNCHANGED <<org, rows, toLoad, memory, listening, dispatch, req, amiss, tally>>

\* The listener, a goroutine of its own, subscribes once to the types that have
\* a handler at that moment.
Listen ==
    /\ phase # "down" /\ listening = Nil
    /\ listening' = BootTypes \cup ({regs[i].on : i \in DOMAIN regs} \ {Cron})
    /\ UNCHANGED <<org, rows, phase, toLoad, memory, dispatch, req, amiss, tally>>

Crash ==
    /\ Crashes /\ phase # "down"
    /\ phase' = "down" /\ toLoad' = {} /\ listening' = Nil
    /\ agents' = [r \in RoleIds |-> Nil] /\ regs' = <<>>
    /\ bus' = <<>> /\ cur' = Nil /\ owed' = {}
    /\ req' = [q \in Requests |-> NoRequest]
    /\ amiss' = {} /\ overlapped' = {}
    /\ UNCHANGED <<org, rows, ran, events, requests>>

-----------------------------------------------------------------------------
(* The plan of an organisation                                             *)

NewRequest ==
    /\ phase = "up"
    /\ requests < MaxRequests
    /\ requests' = requests + 1

End(q) == req' = [req EXCEPT ![q] = NoRequest]

\* handleSetupOrg: the LLM first, then one statement.
SetupOrg(t) ==
    /\ NewRequest
    /\ \E p \in Plans : org' = [org EXCEPT ![t] = Org(p, "draft")]
    /\ UNCHANGED <<rows, start, memory, dispatch, req, amiss, overlapped>>

\* handleUpdatePlan: whatever plan it has read, the LLM may return any; the
\* status stays.
UpdatePlan(t) ==
    /\ NewRequest
    /\ org[t] # Nil
    /\ \E p \in Plans : org' = [org EXCEPT ![t] = Org(p, org[t].status)]
    /\ UNCHANGED <<rows, start, memory, dispatch, req, amiss, overlapped>>

\* handleActivatePlan: the roles come from the row read here.
ReadToActivate(q, t) ==
    /\ NewRequest /\ req[q].pc = "idle"
    /\ org[t] # Nil /\ org[t].status # "active"
    /\ req' = [req EXCEPT ![q] = At("activate", t, org[t].plan)]
    /\ UNCHANGED <<org, rows, start, memory, dispatch, amiss, overlapped>>

\* The activation goes on, with the roles still to create.
Goes(q, loc, r, todo) ==
    req' = [req EXCEPT ![q] =
       [pc |-> loc, tenant |-> req[q].tenant, got |-> req[q].got, role |-> r, todo |-> todo]]

Activating(q) == req[q].pc \in {"roles", "register"}

SetActive(q) ==
    LET t == req[q].tenant
    IN  /\ req[q].pc = "activate"
        /\ org' = [org EXCEPT ![t] = Org(org[t].plan, "active")]
        /\ Goes(q, "roles", Nil, InPlan(req[q].got))
        /\ overlapped' = overlapped \cup
             {u \in {t} : \E p \in Requests \ {q} : Activating(p) /\ req[p].tenant = u}
        /\ UNCHANGED <<rows, start, memory, dispatch, amiss, requests>>

\* ActivateForTenant: one role after the other; one that fails is left out.
CreateRole(q, r) ==
    LET t == req[q].tenant
    IN  /\ req[q].pc = "roles" /\ r \in req[q].todo
        /\ \/ /\ rows' = [rows EXCEPT ![t][r] = req[q].got[r]]
              /\ Goes(q, "register", r, req[q].todo \ {r})
           \/ /\ CallFaults
              /\ Goes(q, "roles", Nil, req[q].todo \ {r})
              /\ UNCHANGED rows
        /\ UNCHANGED <<org, start, memory, dispatch, amiss, tally>>

\* Faulty variant: an agent that is already there is kept.
RegisterOnce(q) ==
    LET r == req[q].role
    IN  /\ req[q].pc = "register"
        /\ IF agents[r] = Nil
           THEN RegisterAgent(req[q].tenant, r, req[q].got[r])
           ELSE UNCHANGED <<memory, amiss>>
        /\ Goes(q, "roles", Nil, req[q].todo)
        /\ UNCHANGED <<org, rows, start, dispatch, tally>>

Register(q) ==
    LET t == req[q].tenant
        r == req[q].role
    IN  /\ req[q].pc = "register"
        /\ RegisterAgent(t, r, req[q].got[r]) \/ NotRegistered(t, r)
        /\ Goes(q, "roles", Nil, req[q].todo)
        /\ UNCHANGED <<org, rows, start, dispatch, tally>>

EndActivate(q) ==
    /\ req[q].pc = "roles" /\ req[q].todo = {}
    /\ End(q)
    /\ UNCHANGED <<org, rows, start, memory, dispatch, amiss, tally>>

\* The write of the status fails.
Fail(q) ==
    /\ CallFaults
    /\ req[q].pc = "activate"
    /\ End(q)
    /\ UNCHANGED <<org, rows, start, memory, dispatch, amiss, tally>>

-----------------------------------------------------------------------------
(* The event bus                                                           *)

\* The handlers subscribed at this moment.
Handlers(type) == {i \in DOMAIN regs : regs[i].on = type}

\* A handler runs its capability for the events of its tenant.
OwnTenant(event, i) == regs[i].tenant = event.tenant

\* Redis hands an event to a listener that has subscribed to its type, or to
\* nobody.
Publish(t, type) ==
    /\ phase # "down"
    /\ events < MaxEvents
    /\ events' = events + 1
    /\ LET event == [id |-> events', tenant |-> t, type |-> type]
           heard == listening # Nil /\ type \in listening
       IN  \/ /\ heard
              /\ bus' = Append(bus, event)
              /\ owed' = owed \cup ({event.id} \X {i \in Handlers(type) : OwnTenant(event, i)})
           \/ (~ heard \/ BusFaults) /\ UNCHANGED <<bus, owed>>
    /\ UNCHANGED <<org, rows, start, memory, cur, req, ran, amiss, tally>>

\* Faulty variant: the event stays in the channel.
DispatchPeeks ==
    /\ cur = Nil /\ bus # <<>>
    /\ cur' = [event |-> Head(bus), todo |-> Handlers(Head(bus).type)]
    /\ UNCHANGED <<org, rows, start, memory, bus, req, ran, owed, events, amiss, tally>>

Dispatch ==
    /\ cur = Nil /\ bus # <<>>
    /\ cur' = [event |-> Head(bus), todo |-> Handlers(Head(bus).type)]
    /\ bus' = Tail(bus)
    /\ UNCHANGED <<org, rows, start, memory, req, ran, owed, events, amiss, tally>>

\* They are called in the order of their subscription; an error is logged.
Handle ==
    /\ cur # Nil
    /\ \E i \in cur.todo :
          /\ \A j \in cur.todo : i <= j
          /\ ran' = IF OwnTenant(cur.event, i)
                    THEN Append(ran, [id |-> cur.event.id, at |-> i]) ELSE ran
          /\ cur' = [cur EXCEPT !.todo = @ \ {i}]
    /\ UNCHANGED <<org, rows, start, memory, bus, req, owed, events, amiss, tally>>

Handled ==
    /\ cur # Nil /\ cur.todo = {}
    /\ cur' = Nil
    /\ UNCHANGED <<org, rows, start, memory, bus, req, ran, owed, events, amiss, tally>>

-----------------------------------------------------------------------------
Init ==
    /\ org \in [Tenants -> {Nil} \cup {Org(p, "draft") : p \in Plans}]
    /\ rows = [t \in Tenants |-> [r \in RoleIds |-> Nil]]
    /\ phase = "down" /\ toLoad = {} /\ listening = Nil
    /\ agents = [r \in RoleIds |-> Nil] /\ regs = <<>>
    /\ bus = <<>> /\ cur = Nil
    /\ req = [q \in Requests |-> NoRequest]
    /\ ran = <<>> /\ owed = {} /\ events = 0
    /\ amiss = {} /\ overlapped = {} /\ requests = 0

RequestStep(q) ==
    \/ \E t \in Tenants : ReadToActivate(q, t)
    \/ SetActive(q)
    \/ \E r \in RoleIds : CreateRole(q, r)
    \/ Register(q) \/ EndActivate(q) \/ Fail(q)

Next ==
    \/ Boot \/ LoadRead \/ LoadOne \/ Serve \/ Listen \/ Crash
    \/ \E t \in Tenants : SetupOrg(t) \/ UpdatePlan(t)
    \/ \E q \in Requests : RequestStep(q)
    \/ \E t \in Tenants, type \in Published : Publish(t, type)
    \/ Dispatch \/ Handle \/ Handled

Spec == Init /\ [][Next]_vars

-----------------------------------------------------------------------------
(* Properties                                                              *)

Rows == [plan : Plans, status : {"draft", "active"}]

\* Every variable holds a value of the program's types.
TypeOK ==
    /\ \A t \in Tenants : org[t] = Nil \/ org[t] \in Rows
    /\ \A t \in Tenants, r \in RoleIds : rows[t][r] = Nil \/ rows[t][r] \in Configs \ {<<>>}
    /\ phase \in {"down", "boot", "loading", "up"}
    /\ toLoad \subseteq Active(Boss)
    /\ listening # Nil => BootTypes \subseteq listening /\ listening \subseteq EventTypes
    /\ \A q \in Requests : req[q].pc # "register" => req[q].role = Nil
    /\ amiss \subseteq Tenants \X RoleIds
    /\ overlapped \subseteq Tenants

\* A request has written the row of a role and is about to register it.
Coming(t, r) == \E q \in Requests : req[q].pc = "register" /\ req[q].tenant = t /\ req[q].role = r

\* All triggers the row asks for are with the scheduler or the bus.
Runs(t, r) ==
    /\ agents[r] # Nil
    /\ \A k \in DOMAIN rows[t][r] : \E i \in DOMAIN regs :
          regs[i] = [tenant |-> t, role |-> r, on |-> rows[t][r][k]]

\* What runs and what is stored agree, after the start and through every
\* activation: what runs has an active row, every active row runs with all its
\* triggers, and the agent of a role works with the configuration of its row
\* (manager.go:84-101, 107-145, 157-206).  Excused are rows this process failed
\* to register or, being another tenant's, never loaded (main.go:116), those
\* about to be registered, and for the agent two activations at once.
RunningAsStored ==
    /\ \A i \in DOMAIN regs : rows[regs[i].tenant][regs[i].role] # Nil
    /\ \A r \in RoleIds : agents[r] # Nil => rows[agents[r].tenant][r] # Nil
    /\ phase = "up" => \A t \in Tenants : \A r \in Active(t) :
          <<t, r>> \in amiss \/ Coming(t, r) \/ Runs(t, r)
    /\ \A r \in RoleIds :
          LET t == agents[r].tenant
          IN  agents[r] # Nil /\ <<t, r>> \notin amiss /\ t \notin overlapped =>
                  agents[r].config = rows[t][r] \/ Coming(t, r)

\* What the bus has received it handles once and in order: handlers run for one
\* event after the other, each in the order of subscription and none twice,
\* across restarts too; and until the process goes down no event that came in is
\* dropped for a handler of its tenant that was subscribed by then (bus.go:107-120,
\* 157-188, manager.go:186-194).  A role registered twice has two handlers, and
\* handles an event twice (manager.go:189).
Before(a, b) == a.id < b.id \/ (a.id = b.id /\ a.at < b.at)
HandledOnce ==
    /\ \A m, n \in DOMAIN ran : m < n => Before(ran[m], ran[n])
    /\ \A o \in owed :
          \/ \E n \in DOMAIN ran : ran[n] = [id |-> o[1], at |-> o[2]]
          \/ \E n \in DOMAIN bus : bus[n].id = o[1]
          \/ cur # Nil /\ cur.event.id = o[1] /\ o[2] \in cur.todo

-----------------------------------------------------------------------------
(* What comments say and the code does not do                              *)

Busy(t) == \E q \in Requests : req[q].tenant = t

\* org_handlers.go:200-201: handleActivatePlan "changes the plan status from draft
\* to active and triggers AI role creation from the plan's support roles".
ActivePlanHasRoles ==
    \A t \in Tenants :
        org[t] # Nil /\ ~ Busy(t) =>
            (org[t].status = "active" => InPlan(org[t].plan) \subseteq Active(t))

\* bus.go:106: "Publish sends an event to all subscribers via Redis pub/sub".
SubscribersHeard ==
    phase = "up" /\ listening # Nil =>
        \A i \in DOMAIN regs : regs[i].on \in listening \cup {Cron}

\* OrganizationView.vue:64 reports roles_activated as "AI roles created", the
\* number of all agents of the process.
CountsCreated ==
    \A q \in Requests : phase' = "up" /\ req[q].pc = "roles" /\ req'[q].pc = "idle" =>
        {r \in RoleIds : agents[r] # Nil} \subseteq InPlan(req[q].got)
=============================================================================
