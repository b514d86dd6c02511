# Verification of AI Management Brain

TLA+ models of the Go server in `cmd/brain` and `internal/`, checked with TLC
and, where noted, proved with TLAPS.  All definitions are written from the
source; `PROJECT.json` names the lines each one stands for.

## 1. The system

One process (`cmd/brain/main.go`) holds a Telegram bot, webhooks for Slack,
Lark and Signal, an HTTP API (`internal/api`), a cron scheduler, an event bus
and a set of AI services.  State is kept in PostgreSQL (through the sqlc
queries of `sql/queries`), in Redis (conversations, rate limits, locks,
last-run times, pub/sub) and in the memory of the process (registered jobs,
role agents, event handlers).  The LLM, the chat services and the object stores
are outside.  telebot and gin run one goroutine per incoming message or
request, cron one per firing job: whatever two of them do for the same
employee or tenant interleaves at every Redis or SQL call.

| Component | State it keeps | Operations | What is hard about it | Modules |
|---|---|---|---|---|
| Daily check-in: `report/collector.go`, `cmd/brain/handlers.go`, `report/dbadapter.go`, `report/analyzer.go` | `conv:{employee}` in Redis with a 4 h TTL; rows of `reports` | remind, TriggerCheckin, answer, confirm, edit, analyse | read-modify-write of the conversation, confirm before save, duplicate confirms, restarts | `CheckIn`, `DailyReport` |
| Chase: `report/chaser.go`, `brain/engine.go`, `service/action.go` | `chase_logs` | ChaseAll, TriggerChase, named chase | three callers at once, send before log, list of employees read once | `Chase` |
| Summaries, alerts, triggers: `report/summarizer.go`, `alert.go`, `triggers.go`, `actions.go` | `summaries`, `ai_suggestions`; counts over `reports` | Generate, CheckAll (alerts, triggers), RunWeekly | dates of two time zones, a report that comes after the count, failing queries | `Watch` |
| Scheduler: `internal/scheduler`, `cmd/brain/scheduler_jobs.go` | job table (memory), last-run times (Redis) | AddJob, UpdateJobSchedule, TriggerJob, CheckMissedJobs, firing | restart, catch-up, missing overlap guard | `Scheduler` |
| Event bus: `events/bus.go` | handlers (memory), Redis pub/sub | Subscribe, Listen, Publish, dispatch | at-most-once, order of Subscribe and Listen | `Roles` |
| AI roles: `internal/roles`, `api/org_handlers.go` | `organizations`, `ai_role_instances`, running agents (memory), cron entries, subscriptions | plan, ActivateForTenant, LoadExistingForTenant, triggers | database and memory disagree, keys without tenant | `Roles` |
| Onboarding: `internal/onboarding` | `onboarding_sessions`, a lock in Redis, employees, organisation | HandleMessage: dialogue, plan, confirm, apply | lock with TTL, LLM call inside it, several tables written one by one | `Onboarding` |
| Consulting engagements: `brain/consulting.go`, `dispatcher.go` | engagement (phase, answers, plan), actions | Start, AnswerQuestion, ReviewAction, ExecuteApproved, CheckProgress | phase read long before written, actions executed twice | `Engagement` |
| Recommendations: `brain/recommender*.go`, `worldmodel/triggers.go` | `recommendations` | scan, storeIfNew, execute, dismiss, delete | check then create, no status guard | `Recommendations` |
| Mentor chat, AI seats, group mentor: `brain/chat.go`, `internal/seats`, `brain/group.go` | histories, rate counters, active seat in Redis; `seats`, `group_chats` | message, /talk, /assign, board, group post | read-modify-write of a history, INCR and EXPIRE, check then act | `Chat` |
| Memory: `internal/memory` | `memories` | extract, consolidate, build the profile, clean, delete | several statements per cluster, overlapping jobs | `Memory` |
| World model: `internal/worldmodel` | skills, relationships, blockers, insights | merge, decay, trigger | check then create, thresholds, repeated decay | `WorldModel` |
| Records: `api/*_handlers.go` for goals, reviews, training, careers, skills, projects, tasks, meetings, workflows, reporting lines | their tables | create, change, complete, delete | two clients with the same form, references | `Records` |
| Metrics and incentives: `cmd/brain/scheduler_jobs.go`, `brain/incentive_engine.go` | metric values, `goal_snapshots`, incentive scores | the two jobs | one failure of many, list read once | `Progress` |
| HalaOS bridge, state engine: `api/halaos_webhook.go`, `brain/halaos_mapper.go`, `state_engine.go` | events with an idempotency key, employees, signals | webhook, map, daily signals | repeated and overlapping deliveries, parts of a body | `Signals` |
| OpenClaw sync: `api/sync_handlers.go` | `sync_configs`, `sync_logs` | configuration, manifest, result | the time asked from, results of overlapping sessions | `Sync` |
| Accounts, employees, settings: `api/auth.go`, `oauth.go`, `handlers.go`, `admin_handlers.go`, `internal/bot` | `tenants`, `users`, `employees`, invite codes | sign-up, login, update, join, settings | read, then write every column; two people with one code | `Accounts` |
| Channels: `internal/channel` | adapters (memory), employee channel ids | resolve, send, webhook | fallback order, retries of the chat services | - |
| API keys, limit of addresses, billing: `api/apikey.go`, `ratelimit.go`, `billing.go` | keys, counters | create, revoke, count | expiry | - |
| CLI, web frontend, MCP server, plugins, configs, docs | none of the server's | - | clients and data | - |

## 2. Hard-to-test behaviour

`PROJECT.json` lists the hazards, each at its line with the properties that
watch it.

## 3. The models

### The daily check-in: `CheckIn`, `DailyReport`, `MCCheckIn`, `CheckIn_proofs`

`conv` is the Redis key `conv:{employee}`, `reports` the table, `hnd` the local
state of every goroutine inside `handleTelegramEmployeeMessage` or
`createUnifiedHandler` (they are the same program), `chk` that of a goroutine
inside `TriggerCheckin`, and `clock` the local date with a flag that says
whether the UTC date has caught up with it.  A handler reads the state
(`Receive...`), then makes one call per step: `AnswerLoad`, `AnswerSave`;
`Restart` for *edit*; `GetAnswers`, `ConfirmLoad`, `ConfirmSave`,
`CreateReport` or `CreateReportFails`, `PublishSubmitted` for *confirm*.
`Analyze` is the goroutine started last.  `Remind` and `CheckinCount`,
`CheckinStart` start conversations over whatever they were.  `RedisFaults`,
`DBFaults`, `Expiry` and `Crashes` switch on failing calls, the TTL and restarts
of the process.  `used`, `replies`, `overtaken` and the fields `asked` and
`overtaken` of a report are history.

`DailyReport` is what the rest of the system may rely on: at most one report
per employee and day, announced at most once and only after it was saved.

| Run | What it shows |
|---|---|
| `checkin_race` | two handlers and the remind job over two questions, with failing SQL calls: what is saved, announced and told agree; under weak fairness of the handlers a complete conversation is decided |
| `checkin_faults` | every fault, a second day, a concurrent TriggerCheckin: what still holds, and `DailySpec` |
| `checkin_lost_report` | a restart between Confirm and CreateReport loses the report |

`CheckIn_documents.cfg` is not among the runs; it lets TLC show, one at a time,
the other statements of the documentation that the code breaks (end of the module).

Bounds: races of this protocol are between two handlers of one employee (a
conversation is one key), so one employee, two handlers and two or three texts
suffice; two questions are the least number with an answer between the first
and the last; two days are needed for a second report.  Fairness: a goroutine
that can take its next call takes it (the Go scheduler), so `WF` of every
handler's steps and of nothing else: no message, tick or job must happen.

Proved (`CheckIn_proofs`): `TypeOK`, then `WellFormed` of every stored
conversation *and* of every copy a handler holds - the strengthening that makes
it inductive, because `AnswerSave` writes a copy that may be stale but was well
formed when it was read.  `OvertakenInv` says that a handler that was not
overtaken carries a confirming conversation; `AnnounceInv` that exactly one
handler can be at `publish` for a key and only while its event is unpublished.
`ImplementsDailyReport` follows from them step by step.  Model-checked only: the
liveness property `CompleteIsDecided`.

### The chase: `Chase`, `MCChase`, `Chase_proofs`

One day of one tenant.  `submitted` stands for the day's rows of `reports`,
`logged` for the rows of `chase_logs`, `run[r]` for a goroutine inside
`Chaser.ChaseAll` or `ActionService.TriggerChase`: the employees of its list it
has not come to, and the employee and step it is busy with.  The cron job, the
API and the AI roles (`Callers`) start runs independently, so they overlap.
`List` reads the employees without a report once; `GetStep` reads
`MAX(step) + 1` of the next one and looks the action up (with the cultural
override); `Send` sends; `Log` writes the row; `Finish` is the answer to the
caller.  `NamedCount` and `NamedSend` are the chase of one employee by name,
which neither reads nor writes the log.  `SendFaults`, `DBFaults` and `Crashes`
make sends, inserts and the process fail.  `sent`, `failed`, `unlogged`, `claims`,
`trigger` and `starts` are history.

| Run | What it shows |
|---|---|
| `chase_overlap` | two overlapping runs over two employees, with failing sends, queries and inserts, crashes and employees who submit meanwhile: a step is sent again only if runs overlap or its row was lost (`RepeatedOnlyByOverlap`), and a started chase ends (`RunsEnd`) |

`Chase_documents.cfg` is not among the runs; it lets TLC show, one at a time, the
statements of the documentation the code breaks (end of the module): someone who has submitted
is chased, someone nobody reached is called chased, a failed send leaves no
row, the delays of the escalation are not kept.

Bounds: two runs are the least that overlap and two employees the least for
which a list goes on after a failure; two starts per day let a run follow
another or overlap it, so an employee reaches the second step of the
escalation.  The kind of the caller only decides what is claimed at the end,
so one kind is enough.  Fairness: `WF` of each run's own steps (a goroutine
that was started runs on; every failure ends the call), nothing else.

`StepsInOrder`, `LoggedMeansSent` and `OneMessagePerRun` are proved and are not in the
run, whose questions they are part of.

Proved (`Chase_proofs`), for any employees, runs and escalation: `TypeOK`;
`StepsInOrder`, made inductive by `EarlierLogged` (a run that holds a step has
the earlier ones logged, so the row it will write leaves no gap);
`LoggedMeansSent`, by `LogCarriesSent`; `OneMessagePerRun`, by `ReachedOnce`;
and `RepeatedOnlyByOverlap`, by `SentOnce` (what a run has sent is logged, about
to be, or lost its log).  That the maximum of
the logged steps exists is `GreatestStep`, from well-foundedness of `<`.

### The scheduler: `Scheduler`, `MCScheduler`

`gocron` is the set of registrations gocron runs, `slices` the backing arrays
`s.jobs` had, `header` the current slice (an array and how much of it is used),
`upd[u]` a goroutine inside `UpdateJobSchedule` holding a pointer into one of the
arrays, `add[a]` one inside `AddJob`, `execs` the executions
in progress, `lastRun` the keys `scheduler:last_run:{job}`.  A cron expression
is the set of times at which it fires.  `Boot` is the registration at startup,
`CheckJob`, `CatchUpRan`, `CatchUpSaved` the loop of `CheckMissedJobs`,
`StartCron` the start of gocron after it; `Fire`, `Ran`, `Saved` an execution
by cron, `Trigger` one through the API, which does not write the last-run time;
`UpdateFind`, `UpdateRemove`, `UpdateAdd`, `UpdateAssign` the parts of a rescheduling.
`AddRegister`, `AddRead`, `AddAppend` are `AddJob` of a role's job, which may be there
already (an activated role may be activated again) and which nothing keeps apart from
another: the append is in place when the array has room, over whatever was appended
there since the slice was read, and else into a new array with some room to spare, and
the slice header is written last.  `Stop` and `Crash` forget
everything but `lastRun`.  Nothing keeps two executions of a job apart, in the
code or in the model.  History: `bootedAt`; `amiss` (jobs whose last-run time Redis
once failed to give or was never told); `from` in registrations and entries (which
`AddJob` or start they come from); `overwrote` (the `AddJob`s whose entry was written
over another).

Left out: a slice header read half-written (the code has no lock, so Go allows it); a
job added by a request in the short time between the start of the HTTP server and the loop of
`CheckMissedJobs` is not looked at for catch-up.

| Run | What it shows |
|---|---|
| `scheduler_process` | stops, crashes and starts at any time, with a Redis that fails at times: nothing overdue is left out, and the start comes to its end |
| `scheduler_updates` | two reschedulings and two requests that add the same job, racing on a slice that grows in place or moves, with stops and manual runs: what was added once runs on one schedule |

`Scheduler_documents.cfg` is not among the runs; it lets TLC show, one at a time,
the statements of the documentation the code breaks (end of the module): among them,
racing appends lose an entry (`RegisteredIsListed`), and a job added twice keeps its old
schedule next to the new one (`OneExpression`).

Bounds: the threshold is two ticks and a job is due every four, so runs on
either side of the threshold, and due times in between, occur; `MaxId` bounds
registrations (four: besides the job of the start, the role's job added twice and
rescheduled, or added once and rescheduled twice); `Spare`
bounds the room of a new array, 0 and 1 giving both the append in place and the move.  Fairness: `WF` of the
start (the main goroutine goes on and the callbacks return, because the calls they
make to the services return or fail and their loops are finite); ticks and
requests need not happen.

Proved (`Scheduler_proofs`), for any jobs, schedules, goroutines, times and bounds:
`SchedulerTypes`, with `Pointers` (who has found a job points to a cell that
exists, because cells are written over but never taken out) and `Additions`;
`AddedOnceRunsOnce`, made inductive by `SameFrom` (a cell with the id of a
registration, in whichever array, comes from the same `AddJob`: so `RemoveJob` removes
the right one or fails), `Assigns` (the same of what is about to be assigned), `OwnId`
(an id not yet appended is its own), `Removed` and `OneAdds` (who is about to add a
registration has removed the only one, and is alone with its origin) and `Old`, all of
them for what was not written over another; `CaughtUpBeforeCron`, by
`Pending` (during the start a job is still to be looked at, or is being caught up, or is
caught up) and `Clock`.  Model-checked only: `StartEnds`.

### Onboarding: `Onboarding`, in `MCBusiness`

One tenant.  `session` is its row of `onboarding_sessions`, `lock` whether
`onboarding:lock:{tenant}` exists, `completed`, `org` and `units` the columns
and rows the onboarding writes, `hnd[h]` a goroutine inside `HandleMessage`
with the session it loaded.  `Receive` is a message of the boss, `Lock` the
`SetNX` (which lets the handler in when Redis fails), `Load` and `Create`
`getOrCreateSession`, `Dialogue` a message before the required fields are
collected, `Plan` and `Modify` the generation and the change of the plan,
`ApplyColumn`, `ApplyOrgStructure` and `CreateUnit` what a confirmed part
writes, `Advance` the next part, `CompleteOrg`, `CompleteTenant` and
`CompleteSession` the three writes at the end, `Unlock` the deferred `Del`.
A handler stops after any of them (`Fail`, `Crash`).  A part of the plan is one
of its `Versions`; a plan from the LLM is any of `Plans`.  `confirmed`, `raced`
and `messages` are history: once two handlers have been inside at once
(`raced`), the properties say nothing.

| Run | What it shows |
|---|---|
| `business_onboarding` | six messages, two goroutines, every kind of failure: the session never goes back or forgets an answer, the units and the closed session are as confirmed |

The instance is one of `MCBusiness` (next section).  The last lines of
`Business_documents.cfg`, which is no run, let TLC show, one at a time,
the statements of the design or of a comment the code breaks (end of the module), such as
`CollectedWritten`: the answers of a tenant without a row in `organizations` are lost.  Step 1 never writes `tenants.mentor_id` or the
`seats`, although the design (line 269) says so; they are not in the model.

Bounds: one message collects and generates, four confirm, one more changes a
part, fails or races; two required fields let an answer be partial; two plans
differ in three parts; one structure has its root second, the other a team
before its department.  Only safety is
checked: how far a session comes is up to the boss.

Proved in `Team_proofs`, for any handlers, fields, plans, lists of units, faults and number
of messages: `ClosedAsPlanned`, `UnitsAsConfirmed` and the action property `GoesForward`.
All rest on one invariant: while at most one handler is inside (`~ raced`), the session it
loaded is still the row, so writing the whole row back loses nothing.  For the closing,
each place of the completion tells which of the three writes are done.  For the units,
what has been created is an initial part, in the order of `Before`, of the list that the
part confirmed gives; the handler's `made` is the names of that part, the table its rows,
each once if the list names no two alike, and under its parent if that one comes before.
What a handler that failed left behind is deleted before the next begins.

### AI roles, plans and the event bus: `Roles`, `MCBusiness`

`org` and `rows` are the tables `organizations` and `ai_role_instances`;
`agents`, `regs` and `listening` what the process keeps in memory: agents by
role id, the capabilities handed to gocron or to the bus, the event types the
bus has subscribed to.  `Boot`, `LoadRead`, `LoadOne` and `Serve` are the main
goroutine, `Listen` the goroutine of the bus, which subscribes once and at any
moment after `Boot`.  `SetupOrg` and `UpdatePlan` write a plan;
`ReadToActivate`, `SetActive`, `CreateRole`, `Register` and `EndActivate` are an
activation, one step per statement.  `Publish`, `Dispatch`, `Handle`, `Handled`
are the way of an event; Redis delivers it to a listener or to nobody.  A role's
configuration is the sequence of its triggers: `Cron` or an event type.  `ran`,
`owed`, `events`, `amiss`, `overlapped` and `requests` are history: `owed` pairs an
event the bus has received with the handlers of its tenant subscribed at that moment,
`amiss` holds the rows this process has not registered, because it failed to or because
only the roles of the boss's tenant are loaded at the start (`main.go:116`).  In `MCBusiness`, which takes
the names together with those of the other modules, `org`, `overlapped` and
`requests` are `organizations`, `doubled` and `activations`.

| Run | What it shows |
|---|---|
| `roles_bus` | two requests of two tenants and two events, and three requests with every failure: what runs is stored, with the stored configuration, and what is stored runs, with all its triggers; handlers run for the events in order, each once, and no event that came in is dropped for a handler of its tenant |

`Roles_documents.cfg` is not among the runs; it lets TLC show, one at a time, the
comments the code breaks (end of the module).

Bounds: `which` chooses between two instances.  In `plans`, activating, changing and
activating again takes three requests, of which two overlap, and statements and registrations
fail; in `events`, two requests of any tenants meet two events, one of which may wait
while the other is dispatched.  The two tenants use the same role ids, which share the map of agents.
A role activated twice in a process is registered twice, runs its scheduled capabilities
twice and handles an event twice (`manager.go:175`, `189`): the code has it so, and
`HandledOnce` speaks of handlers, not of roles.  Only safety is
checked: whether a plan's roles ever run is what `Roles_documents.cfg` refutes.

Proved in `Business_proofs`, for any tenants, roles, plans, event types, requests and
bounds, if plans give every role a configuration, `Nil` is no configuration, agent or event
being dispatched and the boss has a tenant (`RolesBase`, which `NoConfig` and the definitions of the instances meet):

- `RunsAsStored` (`RunningAsStored`), by `RolesInv`.  That what runs is stored and what is stored runs are two
  arguments.  For the first, every agent and every
  registration has a row (`Manned`, `Backed`), because no step takes a row away; that
  an agent has the row's configuration (`AsStored`) needs what lies between `CreateRole` and
  `Register`: the configuration a request is about to register is the one it wrote
  (`Created`), unless another activation of the tenant has written between, and then
  both were noted (`Together`).  For the second (`Loaded`), every stored row runs, or the
  configuration in it is about to be registered, or the start has yet to come to it, or it
  is in `amiss` (`AtHand`); registrations only grow, and no request runs before the start
  is over.
- `EventsHandledOnce` (`HandledOnce`), by `Delivery`: the ids on the bus grow from its head
  to its tail, above the one being dispatched, above those done, so what runs next comes
  after all that ran before; and what is owed is done, being done or waiting on the bus,
  where `Dispatch` finds every handler that was subscribed when it came in, since
  subscriptions are never taken back.

### Consulting engagements: `Engagement`, `MCEngagement`, `Engagement_proofs`

`eng` is the row of `engagements`, `rows` the rows of `engagement_actions`,
`pc` and `loc` where each request is and what it has read: answers, plans,
reviews and executions are goroutines of the API, of the bot, or (a check) of the
daily job, and between their statements they call the LLM or a service.
`AnswerStart`, `AskNext`, `EnoughAsked`, `PlanFails`, `MakePlan`, `CreateRow`
and `PlanReady` are `AnswerQuestion`; `ReviewAction` the API's review of one
action, `ReviewStart` and `ReviewNext` the bot's of all that are pending;
`ExecuteStart`, `Dispatch`, `MarkDone`, `TrackFrom` and `ScheduleCheck` are
`ExecuteApproved` with the dispatcher; `CheckStart`, `CheckEnd`, `CloseStart`,
`CloseEnd` the rest of the engine.  `NextDay` is the job of the next day, which
starts at 11:00 sharp, at an even instant; everything else happens at an odd
one, because each check calls the LLM before it writes.  Any statement may fail
(it is logged and the request goes on) and the process may die or be down when
the job is due.  `grants`, `effects`, `accepted`, `checked`, `amiss`, `faults`
and `turns` are history.

| Run | What it shows |
|---|---|
| `engagement_reviews` | four requests, days or crashes, two requests at a time next to the daily job, one fault: all safety properties |

`Engagement_documents.cfg` is not among the runs; it lets TLC show, one at a time,
the statements of the design document the code breaks (end of the module): a
tracked engagement is not looked at every day but every second day, an action
rejected while others are carried out is carried out too, and a closed engagement
opens again.

Bounds: two requests at a time are the least that overlap, and the job is the
third goroutine; four turns are an answer that plans, a review, an execution and
a day, or a review between two executions; two rows give a list that goes on
after the first action and both kinds of success (an effect, and a note without
one); two questions are the quick tier.  `faults` and `turns` bound the runs; the
other history variables guard no action.  Only safety is checked: whether an engagement moves on is up to its
users.

Proved (`Engagement_proofs`), for any number of requests, questions, rows, turns, days
and faults: `TypeOK`, made inductive by `Busy` (a goroutine that answers has a
turn, and what a goroutine has still to do exists); `DoneWasPerformed`, by
`ToldTrue` (a goroutine about to mark an action done has carried it out);
`AnswersKept`, by `AnswersSafe` (one answer at a time, and what it loaded is
still what is stored); `GrantSpentOnce`, by `GrantsSafe` (whatever is approved
or listed, and not about to be marked, has an approval that is not used up);
`CheckedEverySecondDay`, by `Watched` (`next_check_at` is the day after the last
check, unless the job or an execution is about to write it).


### Recommendations: `Recommendations`, `MCRecommendations`, `Recommendations_proofs`

`recs` are the rows of `recommendations`: status, subject (what the two duplicate
searches compare: category and entity, or category and title), priority and age,
which stands for `created_at` and `expires_at` together; `pc` and `loc` where each
goroutine is and what it has read.  A store is a goroutine of the scan, of the
triggers of a report, or of an event (`Inputs` says what each of them may store);
`Find`, `Expire` and `Create` are the three statements of `storeIfNew`.  A request
executes one action or all of a row (`Execute`: the load; `Act`: the dispatcher, a step
for each action; `MarkExecuted`: the status), dismisses it or deletes it, each of these whatever
another goroutine does meanwhile.  `Scan` is the expiry at the start of a daily
or a triggered scan, `Tick` the time that passes.  Any statement of a store or an
execution may fail, and the process may die.  `Actions` gives the kinds of a row's
actions and `Results` what each kind may return: an effect, a success without one, an
error, or nothing for those left to the boss.  `effects`, `replaced`, `refused`,
`overlapped` and `faults` are history.

| Run | What it shows |
|---|---|
| `recommendations_store` | two stores, a request, scans, time and one fault: all safety properties |

`Recommendations_documents.cfg` is not among the runs; it lets TLC show, one at a
time, the statements of the design document the code breaks (end of the module): overlapping stores leave two live recommendations for a subject,
one is expired for another that the CHECK on `source` then refuses, one that was
executed is expired, a failed execution makes one accepted, and one is executed though
none of its actions did anything.

Bounds: two stores are the least that overlap, with one request beside them; one
subject, because rows of different subjects meet nowhere; two priorities are the
least of which one is better; two rows are the replaced and the new one, and a
third store finds the table full before its last statement, which is a bound of
the model.  Of the two rows one has two actions with an effect, so that a request can fail between
them, and one has none.  The window is two instants, so that a row is young, nearly old and
old; time itself has no bound.  Only safety is checked: whether a recommendation
is acted upon is up to the boss.

Proved (`Recommendations_proofs`), for any number of stores, requests, subjects,
priorities, rows, instants and faults: `TypeOK`, which is inductive;
`OneLivePending`, by `OneStore` (a store alone with its subject knows the only
live row until it expires it, and no other while it creates);
`MarkedAsPerformed`, by `Told` (what a request about to write "executed" has
run so far has passed); `ReplacedByBetter`, by `Replacing` (a replaced row has its
better one in the table, or a store brings it, and no store expires a row of
another subject or of a higher priority).

### Conversations and knowledge: `Chat`, `Memory`, `WorldModel`, `MCBusiness`

`Chat` is the mentor's, the boss's and the seats' conversations: `history`,
`counter`, `expiring`, `cooling` and `talkTo` are Redis keys (`chat:...`,
`seat:...`, `chat_rate:...` with or without a time to live, `board_rate:...` and
`group:last_post:...`, `active_seat:...`), `holder` and `group` rows of `seats`
and `group_chats`, `request[p]` what a goroutine has read.  `EmployeeWrites` is
the INCR of the limit and `Expire` its EXPIRE (`ExpireNever` when that fails);
`Load`, `Trim`, `Ask`, `Save` the reading of a history, its fate after a silence
of six hours, the LLM and the write of the whole value; `Extract` the goroutine
that remembers a transcript.  `Begin`, `Discussed`, `Posted`, `Cool` are the
board's discussion and the post to a group: the key is read before the LLM works
and set after it.  A message is an *exchange*, a number; the history says where
each was written (`written`) and what became of it (`remembered`, `again`, `gone`), which
conversations two handlers had at a time or lost by a failed call (`crossed`), and what
began again within its window (`done`, `repeated`).

`Memory` is the table `memories` of one employee.  `Extract` and `Store` insert
short-term rows with or without an embedding, `Clean` deletes the expired;
`ReadShortTerm`, `Summarise`, `Mark`, `Merged` are the consolidation (a cluster,
its long-term row, then one UPDATE per member), `ReadLongTerm`, `Build`,
`Refresh`, `Replace` the profile; `Delete` is the boss's.  `Clusters` is the
clustering itself, one pass over the rows as `consolidator.go` makes it;
`Similar` says which embeddings are near.

`WorldModel` is what reports tell of skills, relationships and blockers:
`MergeSkill`, `MergeTie`, `MergeBlocker` with `WriteBlocker` (look for an open
row, then count or create), `Trigger` what is recommended after a report,
`Insights` the team's insights.  A mention is `reported` when its report is read,
from then on a goroutine carries it (`Carrying`), and it ends in a row or in
`lost`: `extractor.go:275-285` looks at no error of the write, and a crash ends
the goroutines.  `racing` counts, for each blocker, the mentions whose search
failed or found another mention about to be written.  `Decay` is the nightly
statement in thousandths, rounded as the column rounds: each run multiplies what
the last one left by 0.95^(age/7), from the first night on, and a skill by its
mentions as well.  `days` is a row's age, `runs` a history of the runs since it was seen.
The moment of the day is left open: a run sees the days gone by or one more
(`late`, for each row), the ends of the range its age lies in.

| Run | What it shows |
|---|---|
| `knowledge_kept` | the limit's counter ends; what was said stays, is remembered once or goes as meant; one discussion or post per window; a merged memory is recalled through the row that covers it; every mention of a blocker is counted, on its way or lost to a named fault, and open rows come one from each overlap; a skill mentioned often is not hidden by a week's nights |

The modules share no state, so one run checks them all, in instances of `MCBusiness`
(below): `mentor`, `board` and `group` of `Chat`, `faulty` and `longer` of `Memory`,
`blockers`, `nights` and `team` of `WorldModel`.  There `row`, `nextRow` and `overlapped`
of `Memory` are `memories`, `nextMemory` and `twoAtOnce`.

Bounds: two goroutines are the least that overlap; three exchanges with a
history of two let one be cut, and a limit of one message lets the second be
refused; four rows of memory are a chain of three near ones and one near to the
first, so that a cluster leaves rows out and another consolidation takes them,
and five are two of each tier, with a profile replaced; a third mention of a
blocker is the one that escalates; a skill is mentioned five times, the least
at which it lasts (six with `Slow = FALSE`, for a confidence above one), with the
lowest confidence a mention gives, over a week (`MaxDays` 7) and fourteen runs
(`MaxNights`), one more than it lasts.  One fault, except where only arithmetic or
the profile is looked at.  The goroutines `w1`, `w2` are interchangeable
(`SYMMETRY`): nothing tells them apart, and no property is about liveness.

`Knowledge_documents.cfg` lets TLC refute, one at a time, what documents and
comments say (a counter without end, a conversation forgotten without being
remembered, two discussions at a time, a hidden memory, an expired one that is
recalled, two profiles, a split cluster, a memory that cannot be deleted, a
confidence above one, a skill hidden after a week, a blocker with two open
rows); `Knowledge_types.cfg` checks the type invariants and three smaller
properties.

Proved in `Business_proofs`, for any values of the constants but for the hypotheses
named:

- *`Chat`*: `SaidIsKept`, by `ChatInv`, if histories keep at least one exchange and `None` is
  no conversation.  An exchange a handler carries has a number of its own and is not
  written yet (`Fresh`); no history and no transcript holds another conversation's
  exchanges (`Separate`); a conversation that was not crossed has one handler past the
  reading, and it has read what is stored (`Alone`), so that writing the whole value
  back loses nothing and a transcript is cut once (`InOnePlace`).  `CounterExpires`: an INCR
  that makes the counter 1 leaves its handler at the EXPIRE, or is noted.
  `WorkedOncePerWindow`: without a fault, what is done is a key that still cools (`HeldBack`).
- *`Memory`*: `StillRecalled`, by `MemoryInv`.  The consolidation marks a member only after
  the long-term row that covers it is stored, so a row's reference leads to a row that
  covers it (`References`), for which the goroutines must remember what they read
  (`GoroutinesOK`): a row keeps its tier or is gone, and no id is used again.
- *`WorldModel`*: `CountedInOneRow`, by `CountedInv`.  A mention leaves the goroutine that
  carries it in the step in which a row's sum grows or it is lost (`CountsKept`).  What can
  become an open row of a blocker is an open row or what a mention about to be written has
  found, and these claims are at most one more than the races (`OneOpen`): a search without
  a race adds no claim to the rows there are, a write exchanges one for a row.  The sum is a
  recursive function of the rows: the proof exhibits its partial sums, and a least place at
  which another solution would differ refutes itself, so it needs no induction theorem.
  `OftenMentionedShown`, by `SkillsOK`: after so many runs within the week a confidence is
  at least what 0.4 becomes when each takes one part in twenty (`Lasting`), whose last
  value, after thirteen runs, is 0.206; for every confidence, and for rows up to a week
  old (`MaxDays` at most 7).

### The company's records: `Records`, `Progress`, `Signals`, `Sync`, `Accounts`, `Watch`, `MCBusiness`

`Records` is every table a client of the API edits by a form: reviews, training,
careers, skills, projects, tasks, meetings, workflows, reporting lines, goals,
metrics and incentive rules.  A client shows a row (`open`), changes a field and
sends the form back; a handler checks what it checks and then executes one
statement.  The operators bear the names of the statements, with the columns each
writes, and the foreign keys and unique indexes are those of
`cmd/brain/migrations.go`; columns that nothing tells apart are one field
(`text`).  `given` is the history of what each field was last given.

`Progress` is the two jobs that measure, `goal_snapshots` and `incentive_calc`:
`ListMembers` reads the list once, then each member has its reading, its LLM
call and its row (`GetKeyResults`, `StoreSnapshot`; `ReadRules`, `Evaluate`,
`StoreScore`), and what fails for one passes to the next.  Values of a metric come
in any order beside them.

`Signals` is what comes from HalaOS and what the state engine makes of events:
`Deliver`, `CheckEvent`, then for each part of the body `ResolveById`,
`ResolveByNo`, `LinkEmployee`, `CreateEmployee`, `Store`, and `Record` at the
end; `StartSignals` ... `GenerateMemory` are the job `brain_signals`.  `applied`,
`disturbed` and `dropped` are history.  The mapper is never set by
`router.go` (a finding); the model is of the handler with the mapper set.

`Sync` is the manifest, the pushed rows and the result of a session of the
OpenClaw agent; the clock counts changes of rows.  `Accounts` is the requests
that write a tenant's, an employee's or a user's row (`patch`: read, then write
every column of the statement), the invite codes (`bind`) and the sign-ups
(`tenant`, then `user`).  `Watch` is the summary of a date (`reports`, `count`,
`save`, `send`), the alerts, triggers and weekly actions (`list`, `query`) and
the suggestions of the roles, with the dates of PostgreSQL and of the company.

| Run | What it shows |
|---|---|
| `business_kept` | a field holds what it was last given, and rows refer to rows; a snapshot is a progress of its date; one failure costs one member; a webhook becomes its rows, once, and makes no second employee; the manifests miss only what is listed; settings, welcomes and tenants' bosses stay; the summary that is kept is the one that was first sent and what an alert says of an employee's reports is so (`BossIsToldTheTruth`) |

The modules of this section and of the two sections on roles and on conversations share no
state, so one module checks them all: `Init` chooses the instance that runs (`which`), the
variables of the others are "off", and `Next` is the sum of the instances' next-state
relations.  No state of one instance is a state of another, and each is explored as if it
ran alone.  `First` ... `Fourth` give the constants of `Accounts`, `Signals`, `Sync`, `Chat`,
`Memory`, `WorldModel` and `Roles`, `One` ... `Four` those of `Records`, `Progress`, `Watch` and `Onboarding`; they are
instances of `Business_proofs` and `Team_proofs`, so that the theorems proved there for
any constants come with them.  `Chosen` is the set of instances a run may choose:
`Business` for the records (the onboarding has a run of its own), `Knowledge` and `Bus` for the
other two sections.  For `Records` it chooses a
desk as well: the handlers of one area, whose tables refer to each other and to
no table of another desk but `employees`; two clients at one desk meet in every
way two clients of all desks can.

Bounds: two clients, goroutines or agents overlap; three rows are a cycle, a
review and a second review, or a chain of references; three or four forms let
one client save over another twice.  For `Signals`, three deliveries of two
webhooks are a repetition beside another, a body of two parts fails in the
middle, and the employees are known by number, by nothing, or by parts of both.
For `Sync`, two storages and two sessions overlap, and a row of each of two tables
changes.  For `Accounts`, three requests are two that overlap and one before or
after, over five columns each of which another statement writes.  For `Watch`,
five days hold a break in the reports and its end with a window of three; two
dates let a summary cross midnight.  One statement may fail, or the process end.
Goroutines, clients and storages are interchangeable (`SYMMETRY`).

`Business_documents.cfg` lets TLC refute, one at a time, what comments, answers
and documents say; `Business_types.cfg` checks the type invariants and that the latest
value of a metric never goes backwards.

Proved in `Business_proofs` and `Team_proofs`, for any values of the constants but for the
hypotheses named:

- *`Sync`*: `OnlyTheseAreMissed` if `Tables` is a positive number, by `AllVouched` (a row
  that changed is shown or excused for the storage of every session, or the session's
  manifest has yet to come to its table and will find it young enough) and `Seen` (no row
  is too old for a storage before it was shown or excused).
- *`Accounts`*: `SettingsKept` (by `ReadIsStored`: what a request read is stored still, or
  was passed), `WelcomedStays` if `None` is no chat (by `Free` and `Alone`: an employee
  about to be bound is bound to nobody, and by one request, or is contended), and
  `TenantsHaveBosses` if no email is a boss's chat (by `Owned`, `NoneYet`, `OneSignUp`).
- *`Signals`*: for any webhooks with a body, `RecordedWasApplied` (by `SeenTo`: a delivery
  has stored or dropped every part before the one it is at) and `AppliedOnce` (by `Alone`,
  `Ahead` and `Held`: deliveries of an undisturbed webhook do not overlap, have stored
  nothing of the parts to come, and rows without a record belong to a delivery under
  way).  `OneEmployeePerPerson` for webhooks that give both id and number: an employee is
  created with an id only when none has it, and the unique index then guards the number.
- *`Records`*: `EditsKept` and `ReferencesHold`.  Every step of every desk is of one of a
  few kinds (`Kinds`): a client waits, a row is inserted, written, deleted with all that
  hangs on it, listed no more, or replaced under its key.  A lemma per statement says that
  it is of its kind and writes the columns it names, and a lemma per kind that it keeps
  `RecInv`: a reference leads to a row of the right table or was given up with that row, a
  key has one row, and a field is what it was last given unless the form was older.
- *`Progress`*: `SnapshotWasTrue` (a run under way has noted in `had` every progress of
  its goal since it began, so what it stores, whenever it read it, is among them),
  `OneFailureOneLoss` (what a run has not measured is still before it, or has failed, or
  was not there all the time), and `LatestNeverBackwards`.  The first two ask that the
  progress of a set of key results is never the value that stands for none:
  `CalculateGoalProgress` is a fold over rows, about which the prover can show nothing,
  so for the instances of the runs TLC evaluates that as an assumption (`Measurable`).
- *`Watch`*: `StoredIsTold` (until a summary is told, the row is there only with a
  goroutine that is about to send what it stores, unless the date is upset) and the action
  property `AlertsAreTrue`: the statement that counts days missed counts exactly the days
  since the last report, and the loop over the latest sentiments finds negative ones in a
  row exactly if there are, by lemmas on least numbers and on a set's decreasing sequence
  (`LatestFirstIs`), for any window and limits.

`MCBusiness_proofs` then shows the properties of the runs themselves, for any names of
clients, goals and webhooks: a behaviour of the sum in which an instance runs is one of
its component (`AccountsRun`, ..., `RolesRun`), whose theorem gives the property; in
the others the property says nothing.

## 4. Proofs

TLAPS proves the theorems `PROJECT.json` lists, each for every value of the constants
under the assumptions of its module (sorts and bounds that are numbers, an escalation
that is a sequence, `Nil` and `None` apart from what they stand for); the sections above
say along which inductive invariant.  The layout is the same in every proof module:
types, then one group of invariants per theorem, with a lemma per action, then the theorem
from the initial states, the steps and `PTL`.

The components of `MCBusiness` are proved about in `Business_proofs` (`Accounts`, `Signals`,
`Sync`, `Memory`, `WorldModel`, `Roles`, `Chat`) and `Team_proofs` (`Onboarding`, `Records`,
`Progress`, `Watch`), each an instance with all its constants free, and
`MCBusiness_proofs` carries every theorem over to the runs.  So every safety property a passing run checks, invariant or action property, and the
refinement of `DailyReport`, hold for every value of the constants; the hypotheses are
named in each theorem, and those about the runs' own constants (`NoChat`, `NoTalk`,
`NoEmail`, `NoSession`, `NoConfig`, `Measurable`) are evaluated by TLC.

Only model-checked:

- liveness (`CompleteIsDecided`, `RunsEnd`, `StartEnds`): it needs fairness and
  `ENABLED`, which this prover does not reason about;
- what a clustering or a fold over rows computes (which clusters a consolidation finds,
  the progress of a set of key results): it needs induction over data with an operator as
  a parameter.  No theorem depends on it but for the assumption `Measurable`: those about
  `Memory` hold whatever the clusters are;
- the type invariant of the sum `MCBusiness` and the smaller properties of
  `Business_types.cfg` and `Knowledge_types.cfg`, which are not among the runs (one of
  them, `LatestNeverBackwards`, is proved as well).

## 5. What could follow

- The order of what is recalled from memory and shown in a prompt; nothing decides by
  it today.
- A composition of `CheckIn` with `Chase` and `Watch` over one table of reports; each
  has the others' effect as a step of its environment (`submitted`, reports that come
  at any time), and no action of one reads another's variables.

## 6. Not modelled

- *API keys, the limit of addresses, billing.*  A key is created and revoked by one
  statement each, so there is nothing between its steps.  The counter of an address is
  the INCR and EXPIRE that `Chat` models for a conversation.  Billing keeps no state.
- *OpenClaw actions.*  Four handlers that call the action service: check-in, chase and
  summary are actions of `CheckIn`, `Chase` and `Watch`; a message is one send.
- *The organisation wizard.*  LLM calls that return a plan; storing one is in `Roles`
  and `Onboarding`.
- *Channels and webhooks.*  Input and output.  Every model that sends lets a send fail.
- *Bot commands.*  Parsing and texts; what changes state is in `CheckIn`, `Chat`,
  `Onboarding`, `Engagement` and `Accounts`.
- *Startup and wiring.*  Construction.  Its order matters to the scheduler and to the
  roles, whose models start with it.
- *HTTP plumbing, analytics, metrics of the process.*  Routes, checks of roles, reads.
- *Chief of staff, orchestrator, execution planner.*  They answer by a text or a send
  and write no table and no key.
- *Prompts, cultures, industries, the LLM client.*  Text and configuration; what an LLM
  answers is nondeterministic in every model that asks one.
- *Generated SQL code.*  The statements the models use are mapped one by one; the others
  are reads.
- *CLI, web frontend, MCP server, plugins.*  Clients, without state of the server.

Partly modelled, with what is left out:

- *Onboarding*: the chat history, which only the next prompt reads, and texts.
- *Consulting engagements*: `progress_pct`, the analysis and the stored lessons, which
  no decision reads; the tasks, meetings and messages of the dispatcher beyond their
  number.
- *Recommendations*: which trigger fires is nondeterministic; memories recorded as
  feedback are in `Memory`.
- *Group mentor*: a reply to a mention keeps no state.

No code of the server makes an employee inactive, although the queries look at
`is_active` and the frontend's `deleteEmployee` calls a route that does not exist;
the models have no such step either.

