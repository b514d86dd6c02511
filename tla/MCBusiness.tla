----------------------------- MODULE MCBusiness -----------------------------
(***************************************************************************)
(* Instances for TLC of what the brain keeps of the company: Accounts,     *)
(* Records, Progress, Signals, Sync, Watch and Onboarding; of what it      *)
(* keeps of conversations and reports: Chat, Memory and WorldModel; and of *)
(* Roles.  They share no state; the initial state chooses the instance     *)
(* that runs, and the variables of the others are "off".                   *)
(***************************************************************************)
EXTENDS Naturals, Sequences, FiniteSets, TLC

CONSTANTS
    company, e0, e1, e2, m1, m2, boss, c0, c1, c2, w0, w1, w2, g0, g1, g2, k0, k1, k2,
    u0, u1, u2, h1, h2, r1, s1, s2, v1, v2, None,
    Chosen,  \* the instances of which one runs
    Slow     \* whether two handlers of the onboarding may be inside at once, and calls
             \* that activate roles may fail; without, a skill is mentioned once more

ASSUME NoChat == None \notin {c1, c2}
ASSUME NoTalk == None \notin {e1, boss, u1}
ASSUME NoEmail == boss \notin {m1, m2}

VARIABLES
    which,
    row, nextRow, client, edits, given, clashed,
    today, goal, kr, snapshot, rule, staff, score, value, run, changes, started, had,
    employee, recorded, signal, event, memory, sent, age, applied, disturbed, dropped,
    changed, config, log, agent, clock, sessions, shown, excused,
    setting, gave, passed, hired, telegram, welcomed, tenant, user, requests, contended,
    day, local, active, report, summary, suggestion, runs, told, upset,
    session, lock, completed, org, units, hnd, confirmed, raced, messages,
    history, silence, counter, expiring, cooling, talkTo, holder, group, request, extracting,
    nextId, written, remembered, again, gone, crossed, admitted, uncounted, endless, done, repeated,
    memories, nextMemory, covers, twoAtOnce,
    skill, tie, blocker, insights, reported, lost, advised, racing,
    organizations, rows, phase, toLoad, agents, regs, listening, bus, cur, req, ran, owed, events,
    amiss, doubled, activations,
    work,   \* of Signals, Accounts, Watch, Memory or WorldModel
    faults  \* of the instance that runs

Alike == Permutations({w1, w2})
Symmetry == Alike \cup Permutations({c1, c2}) \cup Permutations({s1, s2})

recordVars == <<row, nextRow, client, edits, given, clashed>>
progressVars == <<today, goal, kr, snapshot, rule, staff, score, value, run, changes, started, had>>
signalVars == <<employee, recorded, signal, event, memory, sent, age, applied, disturbed, dropped>>
syncVars == <<changed, config, log, agent, clock, sessions, shown, excused>>
accountVars == <<setting, gave, passed, hired, telegram, welcomed, tenant, user, requests, contended>>
watchVars == <<day, local, active, report, summary, suggestion, runs, told, upset>>
onboardingVars == <<session, lock, completed, org, units, hnd, confirmed, raced, messages>>
chatVars == <<history, silence, counter, expiring, cooling, talkTo, holder, group, request, extracting,
              nextId, written, remembered, again, gone, crossed, admitted, uncounted, endless, done, repeated>>
memoryVars == <<memories, nextMemory, covers, twoAtOnce>>
modelVars == <<skill, tie, blocker, insights, reported, lost, advised, racing>>
roleVars == <<organizations, rows, phase, toLoad, agents, regs, listening, bus, cur, req, ran, owed, events,
              amiss, doubled, activations>>
companyVars == <<recordVars, progressVars, signalVars, syncVars, accountVars, watchVars, onboardingVars>>
knowledgeVars == <<chatVars, memoryVars, modelVars, roleVars>>
vars == <<which, companyVars, knowledgeVars, work, faults>>

-----------------------------------------------------------------------------
(* What the instances are given                                            *)

Person(id, no) == [id |-> id, no |-> no]
\* A risk of a person, and two anomalies, one of them of the same person.
Bodies(first, second) ==
    [h \in {h1, h2} |-> IF h = h1 THEN [type |-> "flight_risk", score |-> "high", of |-> first]
                        ELSE [type |-> "attendance_anomaly", score |-> "high", of |-> second]]
BothGiven == Bodies(<<Person(5, 7)>>, <<Person(5, 7), Person(6, 8)>>)
OneGiven == Bodies(<<Person(5, 0)>>, <<Person(0, 7), Person(5, 7)>>)
Risk == [h \in {h1, h2} |-> [type |-> "flight_risk", score |-> "high", of |-> <<Person(5, 7)>>]]

\* Plans that differ in some parts only.
Plans == {<<v1, v1, v1, v1>>, <<v2, v2, v1, v2>>}
\* The parents before their children, roots aside; and a team before its department.
Unit(ref, parent) == [ref |-> ref, parent |-> parent]
Units ==
    [v \in {v1, v2} |->
        IF v = v1 THEN <<Unit("sales", "company"), Unit("company", ""), Unit("field", "sales")>>
        ELSE <<Unit("field", "sales"), Unit("sales", "company"), Unit("company", "")>>]

ProfileColumns == {"job_title", "language", "signal_phone", "preferred_channel", "culture_code"}
CompanyColumns == {"slack_bot_token", "enabled_channels", "mentor_id", "mentor_blend", "name"}

\* The second memory is near to the first and to the third, the fourth to the first.
Near == {<<1, 2>>, <<2, 3>>, <<1, 4>>}
\* Plans that share a role, configured differently.
TwoPlans == {[r \in {"chief", "helper"} |-> IF r = "chief" THEN <<"cron", "report">> ELSE <<>>],
             [r \in {"chief", "helper"} |-> IF r = "chief" THEN <<"report">> ELSE <<"alert">>]}

-----------------------------------------------------------------------------
(* The instances.  Each gives every component its constants, and is used    *)
(* for some of them.  What follows is the same in all.                     *)

Clients == {c1, c2}
Storages == {s1, s2}  Tables == 2  Agents == {w1, w2}  MaxChanges == 2  MaxSessions == 2
Tenant == company
Handlers == {w1, w2}  Fields == {"name", "industry"}  Versions == {v1, v2}  NoRef == ""
SlowCalls == Slow  RedisFaults == Slow  CallFaults == TRUE  Crashes == TRUE  MaxMessages == 6
MaxFaults == 1
Tenants == {"ours", "theirs"}  Boss == "ours"  RoleIds == {"chief", "helper"}
EventTypes == {"report", "chase", "alert"}  BootTypes == {"report", "chase"}  Published == {"report"}
Cron == "cron"  RolePlans == TwoPlans  Requests == {w1, w2}  BusFaults == Slow
Mentions == IF Slow THEN 5 ELSE 6
Owner == boss  RateMax == 1  MessagesKept == 2

\* Accounts: settings of an employee, of the company; people who join and sign up.
\* Signals: both ids given and a number known, nobody known, one id given; the job.
\* Chat: an employee's conversation and its rate limit; the boss, a seat and the board;
\* a seat and a group.
\* Memory: four rows with faults, five without.
\* WorldModel: a blocker found by two goroutines, with faults; five mentions of a skill, a
\* week and its nights; two employees, a skill that helps, a pair.
\* Roles: two requests and two events; three requests, of which two may overlap, and failures.
First == INSTANCE Business_proofs WITH
   Workers <- {w1, w2}, Employees <- {e0}, AtFirst <- {e0}, Emails <- {}, Chats <- {}, Bosses <- {},
   Columns <- ProfileColumns, MaxRequests <- 3,
   Webhooks <- {h1, h2}, Body <- BothGiven, Known <- <<Person(0, 7)>>, Reports <- {},
   MaxRows <- 4, MaxSent <- 3, MaxAge <- 0,
   Speakers <- {e1}, Seats <- {}, Groups <- {}, Boards <- {}, Personas <- {}, SeatKept <- 2,
   MaxExchanges <- 3, MaxMemories <- 4, Similar <- Near, CallFaults <- FALSE,
   MaxActivations <- 2, MaxEvents <- 2,
   Reporters <- {e1}, Names <- {}, Categories <- {"tooling"}, Pairs <- {},
   Helps <- {}, Proficiencies <- {}, MaxItems <- 1, MaxMentions <- 3,
   MaxBlockers <- 2, MaxInsights <- 1, MaxDays <- 0, MaxNights <- 0
Second == INSTANCE Business_proofs WITH
   Workers <- {w1, w2}, Employees <- {}, AtFirst <- {}, Emails <- {}, Chats <- {}, Bosses <- {},
   Columns <- CompanyColumns, MaxRequests <- 3,
   Webhooks <- {h1, h2}, Body <- BothGiven, Known <- <<>>, Reports <- {},
   MaxRows <- 4, MaxSent <- 3, MaxAge <- 0,
   Speakers <- {}, Seats <- {u1}, Groups <- {}, Boards <- {company}, Personas <- {m1}, SeatKept <- 1,
   MaxExchanges <- 2, MaxMemories <- 5, Similar <- {<<1, 2>>}, CallFaults <- Slow,
   MaxActivations <- 3, MaxEvents <- 0,
   Reporters <- {e1}, Names <- {"go"}, Categories <- {}, Pairs <- {},
   Helps <- {}, Proficiencies <- {"low"}, MaxItems <- 1, MaxMentions <- Mentions,
   MaxBlockers <- 0, MaxInsights <- 0, MaxDays <- 7, MaxNights <- 14
Third == INSTANCE Business_proofs WITH
   Workers <- {w1, w2}, Employees <- {e1, e2}, AtFirst <- {}, Emails <- {m1, m2}, Chats <- {c1, c2},
   Bosses <- {boss}, Columns <- {}, MaxRequests <- 4,
   Webhooks <- {h1, h2}, Body <- OneGiven, Known <- <<Person(0, 7)>>, Reports <- {},
   MaxRows <- 4, MaxSent <- 3, MaxAge <- 0,
   Speakers <- {}, Seats <- {u1}, Groups <- {g1}, Boards <- {}, Personas <- {m1, m2}, SeatKept <- 1,
   MaxExchanges <- 0, MaxMemories <- 0, Similar <- {}, CallFaults <- Slow,
   MaxActivations <- 0, MaxEvents <- 0,
   Reporters <- {}, Names <- {}, Categories <- {}, Pairs <- {},
   Helps <- {}, Proficiencies <- {}, MaxItems <- 0, MaxMentions <- 0,
   MaxBlockers <- 0, MaxInsights <- 0, MaxDays <- 0, MaxNights <- 0
Fourth == INSTANCE Business_proofs WITH
   Workers <- {w0}, Employees <- {}, AtFirst <- {}, Emails <- {}, Chats <- {}, Bosses <- {},
   Columns <- {}, MaxRequests <- 0,
   Webhooks <- {h1, h2}, Body <- Risk, Known <- <<Person(0, 7)>>, Reports <- {r1},
   MaxRows <- 2, MaxSent <- 3, MaxAge <- 1,
   Speakers <- {}, Seats <- {}, Groups <- {}, Boards <- {}, Personas <- {}, SeatKept <- 1,
   MaxExchanges <- 0, MaxMemories <- 0, Similar <- {}, CallFaults <- Slow,
   MaxActivations <- 0, MaxEvents <- 0,
   Reporters <- {e1, e2}, Names <- {"go"}, Categories <- {"tooling"}, Pairs <- {<<e1, e2, "collaborates">>},
   Helps <- {<<"go", "tooling">>}, Proficiencies <- {"expert"}, MaxItems <- 2, MaxMentions <- 1,
   MaxBlockers <- 1, MaxInsights <- 0, MaxDays <- 0, MaxNights <- 1

\* Records: two clients, at desks.
\* Progress: two goals of a key result, a goal of two and a metric; employees and rules;
\* two runs for an employee and a rule.
\* Watch: summaries over midnight, of the API and a role; of the job; alerts that lead
\* to suggestions and reviews of them; five days of one employee's reports, and a check.
One == INSTANCE Team_proofs WITH
   People <- {e0}, MaxRecords <- 3, MaxEdits <- 4,
   Goals <- {g1, g2}, KeyResults <- {k0}, Targets <- {2}, Scored <- {}, Rules <- {},
   Runs <- {w1, w2}, MaxDates <- 2, MaxValues <- 0, MaxMoves <- 2, MaxStarts <- 2,
   Workers <- {w1, w2}, Staff <- {e0}, Newcomers <- {e0}, Askers <- {"request", "role"},
   Checkers <- {}, Moods <- {},
   Window <- 1, Long <- 1, Critical <- 2, Often <- 2, Looked <- 2, InARow <- 2,
   MaxDays <- 2, MaxRuns <- 2, MaxSuggestions <- 0
Two == INSTANCE Team_proofs WITH
   People <- {e0}, MaxRecords <- 2, MaxEdits <- 3,
   Goals <- {g0}, KeyResults <- {k1, k2}, Targets <- {0, 2}, Scored <- {}, Rules <- {},
   Runs <- {w0}, MaxDates <- 2, MaxValues <- 3, MaxMoves <- 4, MaxStarts <- 1,
   Workers <- {w1, w2}, Staff <- {e0}, Newcomers <- {e0}, Askers <- {"job"},
   Checkers <- {}, Moods <- {},
   Window <- 1, Long <- 1, Critical <- 2, Often <- 2, Looked <- 2, InARow <- 2,
   MaxDays <- 1, MaxRuns <- 3, MaxSuggestions <- 0
Three == INSTANCE Team_proofs WITH
   People <- {e1, e2}, MaxRecords <- 3, MaxEdits <- 3,
   Goals <- {}, KeyResults <- {k0}, Targets <- {2}, Scored <- {e1, e2}, Rules <- {u1, u2},
   Runs <- {w0}, MaxDates <- 1, MaxValues <- 0, MaxMoves <- 2, MaxStarts <- 1,
   Workers <- {w1, w2}, Staff <- {e0}, Newcomers <- {e0}, Askers <- {},
   Checkers <- {"alerts", "weekly"}, Moods <- {},
   Window <- 2, Long <- 1, Critical <- 2, Often <- 2, Looked <- 2, InARow <- 2,
   MaxDays <- 1, MaxRuns <- 2, MaxSuggestions <- 2
Four == INSTANCE Team_proofs WITH
   People <- {}, MaxRecords <- 0, MaxEdits <- 0,
   Goals <- {}, KeyResults <- {k0}, Targets <- {2}, Scored <- {e0}, Rules <- {u0},
   Runs <- {w1, w2}, MaxDates <- 1, MaxValues <- 0, MaxMoves <- 2, MaxStarts <- 2,
   Workers <- {w0}, Staff <- {e0}, Newcomers <- {}, Askers <- {},
   Checkers <- {"alerts", "weekly"}, Moods <- {"negative", "other"},
   Window <- 3, Long <- 2, Critical <- 3, Often <- 3, Looked <- 3, InARow <- 2,
   MaxDays <- 5, MaxRuns <- 1, MaxSuggestions <- 0

\* None stands for no session.
ASSUME NoSession == None \notin One!Onb!Sessions

\* None stands for no row of a role.
ASSUME NoConfig ==
    None \notin First!Rol!Configs /\ First!Rol!NilAssumption /\ Second!Rol!NilAssumption

\* None stands for no progress and no score.
ASSUME Measurable ==
    /\ None \notin One!Pro!Score /\ \A k \in One!KeyResultSets : One!Pro!CalculateGoalProgress(k) # None
    /\ None \notin Two!Pro!Score /\ \A k \in Two!KeyResultSets : Two!Pro!CalculateGoalProgress(k) # None
    /\ None \notin Three!Pro!Score /\ \A k \in Three!KeyResultSets : Three!Pro!CalculateGoalProgress(k) # None
    /\ None \notin Four!Pro!Score /\ \A k \in Four!KeyResultSets : Four!Pro!CalculateGoalProgress(k) # None

\* Records: two clients, by desk.
FirstDesks == {"reviews", "training", "careers", "skills", "meetings", "workflows"}
SecondDesks == {"work", "goals", "measures"}

\* All but the onboarding, which has a run of its own.
Business ==
    FirstDesks \cup SecondDesks \cup
    {"lines", "nightly", "mean", "metric", "monthly", "twice", "numbered", "unknown", "partial",
     "engine", "storage", "profile", "company", "joining", "evenings", "evening", "advice", "week"}

\* What the brain knows from conversations and reports.
Knowledge == {"mentor", "board", "group", "faulty", "longer", "blockers", "nights", "team"}

\* The roles and the bus.
Bus == {"events", "plans"}

FirstRecords ==
    \E p \in {c1, c2} :
       \/ which = "reviews" /\ One!Rec!Reviews(p)
       \/ which = "training" /\ One!Rec!Training(p)
       \/ which = "careers" /\ One!Rec!Careers(p)
       \/ which = "skills" /\ One!Rec!Skills(p)
       \/ which = "meetings" /\ One!Rec!Meetings(p)
       \/ which = "workflows" /\ One!Rec!Workflows(p)
       \/ which \in FirstDesks /\ One!Rec!Fails(p)
SecondRecords ==
    \E p \in {c1, c2} :
       \/ which = "work" /\ Two!Rec!Work(p)
       \/ which = "goals" /\ Two!Rec!TheGoals(p)
       \/ which = "measures" /\ Two!Rec!Measures(p)
       \/ which \in SecondDesks /\ Two!Rec!Fails(p)
ThirdRecords == which = "lines" /\ \E p \in {c1, c2} : Three!Rec!Lines(p) \/ Three!Rec!Fails(p)

-----------------------------------------------------------------------------
(* The sum                                                                 *)

RecordsOff ==
    /\ row = "off" /\ nextRow = "off" /\ client = "off" /\ edits = "off" /\ given = "off"
    /\ clashed = "off"
ProgressOff ==
    /\ today = "off" /\ goal = "off" /\ kr = "off" /\ snapshot = "off" /\ rule = "off"
    /\ staff = "off" /\ score = "off" /\ value = "off" /\ run = "off" /\ changes = "off"
    /\ started = "off" /\ had = "off"
SignalsOff ==
    /\ employee = "off" /\ recorded = "off" /\ signal = "off" /\ event = "off" /\ memory = "off"
    /\ sent = "off" /\ age = "off" /\ applied = "off" /\ disturbed = "off" /\ dropped = "off"
SyncOff ==
    /\ changed = "off" /\ config = "off" /\ log = "off" /\ agent = "off" /\ clock = "off"
    /\ sessions = "off" /\ shown = "off" /\ excused = "off"
AccountsOff ==
    /\ setting = "off" /\ gave = "off" /\ passed = "off" /\ hired = "off" /\ telegram = "off"
    /\ welcomed = "off" /\ tenant = "off" /\ user = "off" /\ requests = "off" /\ contended = "off"
WatchOff ==
    /\ day = "off" /\ local = "off" /\ active = "off" /\ report = "off" /\ summary = "off"
    /\ suggestion = "off" /\ runs = "off" /\ told = "off" /\ upset = "off"
OnboardingOff ==
    /\ session = "off" /\ lock = "off" /\ completed = "off" /\ org = "off" /\ units = "off"
    /\ hnd = "off" /\ confirmed = "off" /\ raced = "off" /\ messages = "off"
ChatOff ==
    /\ history = "off" /\ silence = "off" /\ counter = "off" /\ expiring = "off" /\ cooling = "off"
    /\ talkTo = "off" /\ holder = "off" /\ group = "off" /\ request = "off" /\ extracting = "off"
    /\ nextId = "off" /\ written = "off" /\ remembered = "off" /\ again = "off" /\ gone = "off"
    /\ crossed = "off" /\ admitted = "off" /\ uncounted = "off" /\ endless = "off" /\ done = "off"
    /\ repeated = "off"
MemoryOff == memories = "off" /\ nextMemory = "off" /\ covers = "off" /\ twoAtOnce = "off"
ModelOff ==
    /\ skill = "off" /\ tie = "off" /\ blocker = "off" /\ insights = "off" /\ reported = "off"
    /\ advised = "off" /\ racing = "off" /\ lost = "off"
RolesOff ==
    /\ organizations = "off" /\ rows = "off" /\ phase = "off" /\ toLoad = "off" /\ agents = "off"
    /\ regs = "off" /\ listening = "off" /\ bus = "off" /\ cur = "off" /\ req = "off" /\ ran = "off"
    /\ owed = "off" /\ events = "off" /\ amiss = "off" /\ doubled = "off" /\ activations = "off"
CompanyOff ==
    RecordsOff /\ ProgressOff /\ SignalsOff /\ SyncOff /\ AccountsOff /\ WatchOff /\ OnboardingOff
KnowledgeOff == ChatOff /\ MemoryOff /\ ModelOff /\ RolesOff

InitRecords ==
    /\ \/ which \in FirstDesks /\ One!Rec!Init
       \/ which \in SecondDesks /\ Two!Rec!Init
       \/ which = "lines" /\ Three!Rec!Init
    /\ ProgressOff /\ SignalsOff /\ SyncOff /\ AccountsOff /\ WatchOff /\ OnboardingOff
    /\ KnowledgeOff /\ work = "off" /\ faults = "off"
InitProgress ==
    /\ \/ which = "nightly" /\ One!Pro!Init
       \/ which \in {"mean", "metric"} /\ Two!Pro!Init
       \/ which = "monthly" /\ Three!Pro!Init
       \/ which = "twice" /\ Four!Pro!Init
    /\ RecordsOff /\ SignalsOff /\ SyncOff /\ AccountsOff /\ WatchOff /\ OnboardingOff
    /\ KnowledgeOff /\ work = "off"
InitSignals ==
    /\ \/ which = "numbered" /\ First!Sig!Init
       \/ which = "unknown" /\ Second!Sig!Init
       \/ which = "partial" /\ Third!Sig!Init
       \/ which = "engine" /\ Fourth!Sig!Init
    /\ RecordsOff /\ ProgressOff /\ SyncOff /\ AccountsOff /\ WatchOff /\ OnboardingOff
    /\ KnowledgeOff
InitSync ==
    /\ which = "storage" /\ First!Syn!Init
    /\ RecordsOff /\ ProgressOff /\ SignalsOff /\ AccountsOff /\ WatchOff /\ OnboardingOff
    /\ KnowledgeOff /\ work = "off"
InitAccounts ==
    /\ \/ which = "profile" /\ First!Acc!Init
       \/ which = "company" /\ Second!Acc!Init
       \/ which = "joining" /\ Third!Acc!Init
    /\ RecordsOff /\ ProgressOff /\ SignalsOff /\ SyncOff /\ WatchOff /\ OnboardingOff
    /\ KnowledgeOff
InitWatch ==
    /\ \/ which = "evenings" /\ One!Wat!Init
       \/ which = "evening" /\ Two!Wat!Init
       \/ which = "advice" /\ Three!Wat!Init
       \/ which = "week" /\ Four!Wat!Init
    /\ RecordsOff /\ ProgressOff /\ SignalsOff /\ SyncOff /\ AccountsOff /\ OnboardingOff
    /\ KnowledgeOff
InitOnboarding ==
    /\ which = "onboarding" /\ One!Onb!Init
    /\ RecordsOff /\ ProgressOff /\ SignalsOff /\ SyncOff /\ AccountsOff /\ WatchOff
    /\ KnowledgeOff /\ work = "off" /\ faults = "off"
InitChat ==
    /\ \/ which = "mentor" /\ First!Cha!Init
       \/ which = "board" /\ Second!Cha!Init
       \/ which = "group" /\ Third!Cha!Init
    /\ CompanyOff /\ MemoryOff /\ ModelOff /\ RolesOff /\ work = "off"
InitMemory ==
    /\ \/ which = "faulty" /\ First!Mem!Init
       \/ which = "longer" /\ Second!Mem!Init
    /\ CompanyOff /\ ChatOff /\ ModelOff /\ RolesOff
InitModel ==
    /\ \/ which = "blockers" /\ First!Wor!Init
       \/ which = "nights" /\ Second!Wor!Init
       \/ which = "team" /\ Fourth!Wor!Init
    /\ CompanyOff /\ ChatOff /\ MemoryOff /\ RolesOff
InitRoles ==
    /\ \/ which = "events" /\ First!Rol!Init
       \/ which = "plans" /\ Second!Rol!Init
    /\ CompanyOff /\ ChatOff /\ MemoryOff /\ ModelOff /\ work = "off" /\ faults = "off"

Init ==
    /\ which \in Chosen
    /\ \/ InitRecords \/ InitProgress \/ InitSignals \/ InitSync \/ InitAccounts
       \/ InitWatch \/ InitOnboarding \/ InitChat \/ InitMemory \/ InitModel \/ InitRoles

NextRecords ==
    /\ FirstRecords \/ SecondRecords \/ ThirdRecords
    /\ UNCHANGED <<progressVars, signalVars, syncVars, accountVars, watchVars, onboardingVars,
                  knowledgeVars, work, faults>>
NextProgress ==
    /\ \/ which = "nightly" /\ One!Pro!Next
       \/ which = "mean" /\ Two!Pro!Next /\ UNCHANGED value
       \/ which = "metric" /\ (Two!Pro!IngestMetricValue \/ Two!Pro!Midnight)
       \/ which = "monthly" /\ Three!Pro!Next
       \/ which = "twice" /\ Four!Pro!Next
    /\ UNCHANGED <<recordVars, signalVars, syncVars, accountVars, watchVars, onboardingVars,
                  knowledgeVars, work>>
NextSignals ==
    /\ \/ which = "numbered" /\ First!Sig!Next
       \/ which = "unknown" /\ Second!Sig!Next
       \/ which = "partial" /\ Third!Sig!Next
       \/ which = "engine" /\ Fourth!Sig!Next
    /\ UNCHANGED <<recordVars, progressVars, syncVars, accountVars, watchVars, onboardingVars,
                  knowledgeVars>>
NextSync ==
    /\ which = "storage" /\ First!Syn!Next
    /\ UNCHANGED <<recordVars, progressVars, signalVars, accountVars, watchVars, onboardingVars,
                  knowledgeVars, work>>
NextAccounts ==
    /\ \/ which = "profile" /\ First!Acc!Next
       \/ which = "company" /\ Second!Acc!Next
       \/ which = "joining" /\ Third!Acc!Next
    /\ UNCHANGED <<recordVars, progressVars, signalVars, syncVars, watchVars, onboardingVars,
                  knowledgeVars>>
NextWatch ==
    /\ \/ which = "evenings" /\ One!Wat!Next
       \/ which = "evening" /\ Two!Wat!Next
       \/ which = "advice" /\ Three!Wat!Next
       \/ which = "week" /\ Four!Wat!Next /\ UNCHANGED faults
    /\ UNCHANGED <<recordVars, progressVars, signalVars, syncVars, accountVars, onboardingVars,
                  knowledgeVars>>
NextOnboarding ==
    /\ which = "onboarding" /\ One!Onb!Next
    /\ UNCHANGED <<recordVars, progressVars, signalVars, syncVars, accountVars, watchVars,
                  knowledgeVars, work, faults>>
NextChat ==
    /\ \/ which = "mentor" /\ First!Cha!Next
       \/ which = "board" /\ Second!Cha!Next
       \/ which = "group" /\ Third!Cha!Next
    /\ UNCHANGED <<companyVars, memoryVars, modelVars, roleVars, work>>
NextMemory ==
    /\ \/ which = "faulty" /\ First!Mem!Next
       \/ which = "longer" /\ Second!Mem!Next /\ UNCHANGED faults
    /\ UNCHANGED <<companyVars, chatVars, modelVars, roleVars>>
NextModel ==
    /\ \/ which = "blockers" /\ First!Wor!Next
       \/ which = "nights" /\ Second!Wor!Next /\ UNCHANGED faults
       \/ which = "team" /\ Fourth!Wor!Next
    /\ UNCHANGED <<companyVars, chatVars, memoryVars, roleVars>>
NextRoles ==
    /\ \/ which = "events" /\ First!Rol!Next
       \/ which = "plans" /\ Second!Rol!Next
    /\ UNCHANGED <<companyVars, chatVars, memoryVars, modelVars, work, faults>>

Next ==
    /\ UNCHANGED which
    /\ \/ NextRecords \/ NextProgress \/ NextSignals \/ NextSync \/ NextAccounts
       \/ NextWatch \/ NextOnboarding \/ NextChat \/ NextMemory \/ NextModel \/ NextRoles

Spec == Init /\ [][Next]_vars

-----------------------------------------------------------------------------
(* Properties, stated in the modules                                       *)

\* Every variable of the instance that runs holds a value of its type.
TypeOK ==
    /\ which \in FirstDesks => One!Rec!TypeOK
    /\ which \in SecondDesks => Two!Rec!TypeOK
    /\ which = "lines" => Three!Rec!TypeOK
    /\ which = "nightly" => One!Pro!TypeOK
    /\ which = "mean" => Two!Pro!TypeOK
    /\ which = "monthly" => Three!Pro!TypeOK
    /\ which = "twice" => Four!Pro!TypeOK
    /\ which = "metric" => Two!Pro!TypeOK
    /\ which = "numbered" => First!Sig!TypeOK
    /\ which = "unknown" => Second!Sig!TypeOK
    /\ which = "partial" => Third!Sig!TypeOK
    /\ which = "engine" => Fourth!Sig!TypeOK
    /\ which = "storage" => First!Syn!TypeOK
    /\ which = "profile" => First!Acc!TypeOK
    /\ which = "company" => Second!Acc!TypeOK
    /\ which = "joining" => Third!Acc!TypeOK
    /\ which = "week" => Four!Wat!TypeOK
    /\ which = "evenings" => One!Wat!TypeOK
    /\ which = "evening" => Two!Wat!TypeOK
    /\ which = "advice" => Three!Wat!TypeOK
    /\ which = "mentor" => First!Cha!TypeOK
    /\ which = "board" => Second!Cha!TypeOK
    /\ which = "group" => Third!Cha!TypeOK
    /\ which = "faulty" => First!Mem!TypeOK
    /\ which = "longer" => Second!Mem!TypeOK
    /\ which = "blockers" => First!Wor!TypeOK
    /\ which = "nights" => Second!Wor!TypeOK
    /\ which = "team" => Fourth!Wor!TypeOK
    /\ which = "events" => First!Rol!TypeOK
    /\ which = "plans" => Second!Rol!TypeOK

\* What was last given to a field of a row is what the row holds, whichever
\* requests wrote other fields since, unless a form was saved that was older than
\* the row (internal/db/sqlc/reviews.sql.go:288 and the other UPDATEs).
EditsKept ==
    /\ which \in FirstDesks => One!Rec!EditsKept
    /\ which \in SecondDesks => Two!Rec!EditsKept
    /\ which = "lines" => Three!Rec!EditsKept

\* A row refers to rows that exist, or to NULL after its row was deleted, and no
\* two rows have one key (cmd/brain/migrations.go:345).
ReferencesHold ==
    /\ which \in FirstDesks => One!Rec!ReferencesHold
    /\ which \in SecondDesks => Two!Rec!ReferencesHold
    /\ which = "lines" => Three!Rec!ReferencesHold

\* The snapshot of a date is a progress the goal had during a run of that date
\* (scheduler_jobs.go:319).
SnapshotWasTrue ==
    /\ which = "nightly" => One!Pro!SnapshotWasTrue
    /\ which = "mean" => Two!Pro!SnapshotWasTrue

\* A run that has ended has measured every member but those that failed or were
\* not there all the time (scheduler_jobs.go:330, incentive_engine.go:169).
OneFailureOneLoss ==
    /\ which = "nightly" => One!Pro!OneFailureOneLoss
    /\ which = "mean" => Two!Pro!OneFailureOneLoss
    /\ which = "monthly" => Three!Pro!OneFailureOneLoss
    /\ which = "twice" => Four!Pro!OneFailureOneLoss

\* The latest value of a metric is never replaced by an older one (metrics.sql.go:85).
LatestNeverBackwards ==
    [][which = "metric" /\ value # <<>> =>
          Two!Pro!GetLatestMetricValue(value').observed >= Two!Pro!GetLatestMetricValue(value).observed]_vars

\* A webhook becomes its rows once, however often it is delivered, unless two
\* deliveries overlapped or one was cut off (halaos_webhook.go:141).
AppliedOnce ==
    /\ which = "numbered" => First!Sig!AppliedOnce
    /\ which = "unknown" => Second!Sig!AppliedOnce
    /\ which = "partial" => Third!Sig!AppliedOnce
    /\ which = "engine" => Fourth!Sig!AppliedOnce

\* A webhook that is recorded has become its rows, but for those that failed
\* (halaos_webhook.go:187).
RecordedWasApplied ==
    /\ which = "numbered" => First!Sig!RecordedWasApplied
    /\ which = "unknown" => Second!Sig!RecordedWasApplied
    /\ which = "partial" => Third!Sig!RecordedWasApplied
    /\ which = "engine" => Fourth!Sig!RecordedWasApplied

\* Two employees never stand for one person of HalaOS, if its webhooks give both
\* id and number (halaos_mapper.go:47).
OneEmployeePerPerson ==
    /\ which = "numbered" => First!Sig!OneEmployeePerPerson
    /\ which = "unknown" => Second!Sig!OneEmployeePerPerson

\* A change is missed by the manifests only if it came between a manifest and its
\* result, or its query failed (sync_handlers.go:174).
OnlyTheseAreMissed == which = "storage" => First!Syn!OnlyTheseAreMissed

\* A setting is lost only to a request that had read the row before
\* (handlers.go:385, admin_handlers.go:99, 260).
SettingsKept ==
    /\ which = "profile" => First!Acc!SettingsKept
    /\ which = "company" => Second!Acc!SettingsKept

\* A Telegram user who was welcomed stays linked, unless two send a code at the
\* same time (commands_onboarding.go:102).
WelcomedStays == which = "joining" => Third!Acc!WelcomedStays

\* No tenant is without its boss, unless its sign-up overlapped another or broke
\* off (auth.go:115).
TenantsHaveBosses == which = "joining" => Third!Acc!TenantsHaveBosses

\* The summary the boss is first sent of a date is the one that is kept, however many
\* follow, unless two overlapped, or one failed or was cut off (summarizer.go:135).
StoredIsTold ==
    /\ which = "evenings" => One!Wat!StoredIsTold
    /\ which = "evening" => Two!Wat!StoredIsTold

\* What the boss is told of an employee's reports is so when it is read: the days missed
\* in a row, and the negative reports in a row (alert.go:72, 90).
AlertsAreTrue == [][which = "week" => Four!Wat!AlertsAreTrue]_vars

\* What the boss is told is so: of a date what is kept of it, of an employee what the
\* reports say (summarizer.go:135, alert.go:72).
BossIsToldTheTruth == []StoredIsTold /\ AlertsAreTrue

\* Behind step 2 the table holds exactly the units the boss confirmed, once each and
\* under their parents if those are listed first (service.go:359).
UnitsAsConfirmed == which = "onboarding" => One!Onb!UnitsAsConfirmed

\* A tenant whose onboarding session is closed counts as completed and has the
\* profile it gave and the plan of its session (service.go:458).
ClosedAsPlanned == which = "onboarding" => One!Onb!ClosedAsPlanned

\* Unless two handlers were inside at once, the onboarding never goes back and no
\* answer of the boss is forgotten (service.go:145, 192, 230, 272, 299).
SessionGoesForward == [][which = "onboarding" => One!Onb!GoesForward]_vars

\* A counter of the rate limit has an end, or is about to get one, unless the
\* call that sets it failed or the process ended first (chat.go:301).
CounterExpires == which = "mentor" => First!Cha!CounterExpires

\* No more messages of an employee reach the LLM in a window than the limit,
\* except those that could not be counted (chat.go:296).
AdmittedPerWindow == which = "mentor" => First!Cha!AdmittedPerWindow

\* What was said is kept, remembered once, or goes as the code means it to,
\* unless two handlers or a failed call come between (chat.go:143, service.go:124).
SaidIsKept ==
    /\ which = "mentor" => First!Cha!SaidIsKept
    /\ which = "board" => Second!Cha!SaidIsKept

\* No second discussion of the board, and no second post to a group, begins
\* within the window of one that ended, unless a call failed (service.go:159).
WorkedOncePerWindow ==
    /\ which = "board" => Second!Cha!WorkedOncePerWindow
    /\ which = "group" => Third!Cha!WorkedOncePerWindow

\* A memory that was merged is covered by the row it refers to, which is
\* recalled in its place (consolidator.go:113).
StillRecalled ==
    /\ which = "faulty" => First!Mem!StillRecalled
    /\ which = "longer" => Second!Mem!StillRecalled

\* A memory is summarised twice only by overlapping consolidations or after a
\* fault (consolidator.go:51).
SummarisedOnce ==
    /\ which = "faulty" => First!Mem!SummarisedOnce
    /\ which = "longer" => Second!Mem!SummarisedOnce

\* Every mention of a blocker is counted once, on its way, or dropped by a failed
\* write or a crash; each second open row comes from a search that failed or
\* overlapped another mention's write (extractor.go:269-285).
CountedInOneRow ==
    /\ which = "blockers" => First!Wor!CountedInOneRow
    /\ which = "team" => Fourth!Wor!CountedInOneRow

\* The boss hears of a recurring blocker after three mentions (triggers of the
\* world model).
AdvisedAfterThree == which = "blockers" => First!Wor!AdvisedAfterThree

\* A skill mentioned five times, and within the week, is shown though the decay
\* multiplied what it left up to thirteen times since (decay.go:28).
OftenMentionedShown == which = "nights" => Second!Wor!OftenMentionedShown

\* What runs in the process has an active row, and an agent works with the configuration
\* in it, unless its registration failed or two activations of its tenant ran at once
\* (manager.go:84).
RunningAsStored ==
    /\ which = "events" => First!Rol!RunningAsStored
    /\ which = "plans" => Second!Rol!RunningAsStored

\* An event is handled at most once by each role, and by its tenant's roles only
\* (manager.go:186, bus.go:177).
HandledOnce == which = "events" => First!Rol!HandledOnce

-----------------------------------------------------------------------------
(* What documents and comments say, which the code does not keep           *)

\* A form is saved over the row it shows.
NeverOverwritten == which \in FirstDesks => One!Rec!NeverOverwritten
\* An evaluation the LLM is not sure of is reviewed.
NeverUnreviewed == which = "twice" => Four!Pro!ReviewIsAsked
\* "Count high-risk employees".
NeverMoreRisks == which = "engine" => Fourth!Sig!HighRiskCountsEmployees
\* "Get top risks".
NeverWithoutRisks == which = "engine" => Fourth!Sig!RisksReachTheContext
\* "Get recent events for this person".
NeverWithoutEvents == which = "engine" => Fourth!Sig!EventsReachTheGenerator
\* The latest working memory.
NeverForgetful == which = "engine" => Fourth!Sig!MemoryIsFound
\* "returns changed entities since last sync".
NeverMissed == which = "storage" => First!Syn!NothingIsMissed
\* "only update provided fields", "avoid overwriting unset fields".
NeverWrittenBack == which = "profile" => First!Acc!OnlyProvidedFields
\* "You're now linked to the team."
NeverUnlinked == which = "joining" => Third!Acc!NowLinked
\* "has missed %d consecutive days of check-in".
NeverBeforeHired == which = "advice" => Three!Wat!NewcomersMissNothing
\* "checks if the last 3+ sentiments are negative".
NeverLate == [][which = "week" => Four!Wat!LatestIsNegative]_vars
\* "days out of last 7".
NeverAnEighth == which = "week" => Four!Wat!AtMostTheWindow
\* "%d/7 days submitted".
NeverTakenForZero == [][which = "advice" => Three!Wat!ZeroIsCounted]_vars
\* "rejects a pending suggestion".
NeverReviewedAgain == [][which = "advice" => Three!Wat!ReviewedOnce]_vars
\* "today".
NeverYesterday == which = "evenings" => One!Wat!RolesSumUpToday
\* "prevents concurrent LLM calls from racing".
NeverRaced == which = "onboarding" => One!Onb!LockExclusive
\* "writes all collected data to the organization".
NeverUnwritten == which = "onboarding" => One!Onb!CollectedWritten
\* "parents first, then children".
NeverRootless == which = "onboarding" => One!Onb!UnitsUnderParents
\* "a single database transaction".
NeverHalf == which = "onboarding" => One!Onb!UnitsAllOrNothing
\* "we write everything that hasn't been written yet".
NeverErased == which = "onboarding" => One!Onb!WrittenStaysWritten
\* "boss reviews and adjusts each part before activation".
NeverUnseen == which = "onboarding" => One!Onb!ActivatedAsReviewed
\* "EXPIRE 60".
NeverEndless == which = "mentor" => First!Cha!NeverEndless
\* "If gap > 6 hours: extract old conversation".
NeverForgotten == [][which = "mentor" => First!Cha!NeverForgotten]_vars
\* "once per 5 minutes per tenant", "max 1 proactive message per group per day".
NeverTwoAtOnce ==
    /\ which = "board" => Second!Cha!NeverTwoAtOnce
    /\ which = "group" => Third!Cha!NeverTwoAtOnce
\* "Store memory with embedding = NULL; background job backfills".
NeverHidden == which = "faulty" => First!Mem!NeverHidden
\* "expires_at IS NULL OR expires_at > NOW()".
NeverExpiredRecalled == which = "faulty" => First!Mem!NeverExpiredRecalled
\* "Permanent, periodically refreshed".
NeverTwoProfiles == which = "longer" => Second!Mem!NeverTwoProfiles
\* "using single-linkage clustering".
NeverSplit == which = "faulty" => First!Mem!NeverSplit
\* "Delete a memory manually".
NeverRefused == which = "faulty" => First!Mem!NeverRefused
\* "math.Min(1.0, result)".
NeverTooSure == which = "nights" => Second!Wor!NeverTooSure
\* The test's "1 week old" skill with three mentions has at least 0.40.
NeverHiddenNextWeek == which = "nights" => Second!Wor!NeverHiddenNextWeek
\* A blocker has one open row.
NeverTwoOpen == which = "blockers" => First!Wor!NeverTwoOpen
\* "changes the plan status from draft to active and triggers AI role creation".
NeverWithoutRoles == which = "plans" => Second!Rol!ActivePlanHasRoles
\* "sends an event to all subscribers".
NeverUnheard == which = "events" => First!Rol!SubscribersHeard
\* "AI roles created".
NeverMiscounted == [][which = "plans" => Second!Rol!CountsCreated]_vars
=============================================================================
