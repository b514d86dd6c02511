------------------------------ MODULE Accounts ------------------------------
(***************************************************************************)
(* Companies and their people: signing up (internal/api/auth.go, oauth.go, *)
(* /start of internal/bot/commands_onboarding.go), hiring and /join, and   *)
(* the settings of a tenant and its employees, which the API               *)
(* (internal/api/handlers.go, admin_handlers.go, openclaw.go) and the bot  *)
(* (internal/bot/commands_config.go) change: a request that gives some of  *)
(* the columns of a statement reads the row first and writes the others    *)
(* back.  Every statement is a step; requests are handled at the same      *)
(* time.  The settings are those of one tenant; a column's value is the    *)
(* number of the request that gave it, 0 if it is NULL or as it was at     *)
(* first.                                                                  *)
(***************************************************************************)
EXTENDS Naturals, Sequences, FiniteSets

CONSTANTS
    Employees,    \* employees of the tenant, there or to be hired
    AtFirst,      \* the employees there at first
    Emails,       \* people who sign up
    Chats,        \* Telegram users who join
    Bosses,       \* the configured boss's chat, or nobody
    Columns,      \* the columns followed
    Workers,      \* goroutines that handle requests
    Tenant,       \* the tenant's row
    None,         \* no value
    MaxRequests,  \* bound: requests
    MaxFaults     \* bound: statements that fail, crashes

VARIABLES
    setting,      \* the columns of the tenant's and the employees' rows
    hired,        \* the employees there are
    telegram,     \* telegram_id of the employees
    tenant,       \* the tenants signed up: by whom
    user,         \* users: the tenant of an email
    work,         \* what each goroutine is doing
    requests, faults,
    gave,         \* history: what a request that was answered gave the column last
    passed,       \* history: columns written back by a request that had read before
    welcomed,     \* history: employees whose Telegram user was welcomed
    contended     \* history: sign-ups and invitations that overlapped or broke off

settings == <<setting, gave, passed>>
people == <<hired, telegram, welcomed>>
companies == <<tenant, user>>
bounds == <<requests, faults>>
vars == <<settings, people, companies, work, bounds, contended>>

Idle == [at |-> "idle"]
Rows == {Tenant} \cup Employees

Init ==
    /\ setting = [r \in Rows |-> [c \in Columns |-> 0]]
    /\ gave = setting /\ passed = {}
    /\ hired = AtFirst /\ telegram = [e \in Employees |-> None] /\ welcomed = {}
    /\ tenant = <<>> /\ user = [m \in Emails |-> 0]
    /\ work = [w \in Workers |-> Idle]
    /\ requests = 0 /\ faults = 0 /\ contended = {}

Does(w, r) == work' = [work EXCEPT ![w] = r]
Breaks(ok) == ~ok => faults < MaxFaults
Counts(ok) == faults' = faults + (IF ok THEN 0 ELSE 1)

\* The number of the request that comes now.
New == requests + 1
Begins(w, r) ==
    /\ work[w] = Idle /\ requests < MaxRequests
    /\ requests' = New
    /\ Does(w, r)

-----------------------------------------------------------------------------
(* Statements                                                              *)

\* The columns each statement sets.
UpdateEmployeeProfile == {"job_title", "responsibilities", "country", "language"}
UpdateEmployeeChannels == {"signal_phone", "slack_id", "lark_id", "preferred_channel"}
UpdateEmployeePreferredChannel == {"preferred_channel"}
UpdateEmployeeCulture == {"culture_code"}
UpdateTenantChannels == {"slack_bot_token", "slack_signing_secret", "lark_app_id", "lark_app_secret",
                         "signal_phone", "enabled_channels"}
UpdateTenantMentor == {"mentor_id", "mentor_blend"}
UpdateTenantNameTimezone == {"name", "timezone"}

\* A mutation: an invitation is valid for ever.
AnyInviteCode(e) == e \in hired

\* The employee of an invite code that nobody has used.
GetEmployeeByInviteCode(e) == e \in hired /\ telegram[e] = None

\* telegram_id is unique.
UpdateEmployeeTelegramID(e, c) == [telegram EXCEPT ![e] = c]
Taken(c) == \E e \in Employees : telegram[e] = c

\* A mutation: a user is found by nothing.
GetNoUser(m) == m \notin Emails

GetUserByEmail(m) == user[m] # 0

GetTenantByBossChatID(b) == \E n \in DOMAIN tenant : tenant[n] = b

CreateTenant(who) == Append(tenant, who)

CreateUser(m, n) == [user EXCEPT ![m] = n]

-----------------------------------------------------------------------------
(* Settings                                                                *)

\* The request gives some columns values; the row is read for the others.
Patch(w, r, statement, gives) ==
    /\ r \in {Tenant} \cup hired
    /\ DOMAIN gives # {}
    /\ Begins(w, [at |-> "patch", row |-> r, sets |-> statement \cap Columns, gives |-> gives,
                  read |-> setting[r]])
    /\ UNCHANGED <<settings, people, companies, faults, contended>>

All(statement) == [c \in statement \cap Columns |-> New]
Some(w, r, statement) ==
    \E cs \in SUBSET (statement \cap Columns) : Patch(w, r, statement, [c \in cs |-> New])

handleUpdateProfile(w, e) == Some(w, e, UpdateEmployeeProfile)

handleUpdateEmployeeChannels(w, e) == Some(w, e, UpdateEmployeeChannels)

handleUpdateEmployeePreferred(w, e) ==
    Patch(w, e, UpdateEmployeePreferredChannel, All(UpdateEmployeePreferredChannel))

handleUpdateEmployeeCulture(w, e) == Patch(w, e, UpdateEmployeeCulture, All(UpdateEmployeeCulture))

handleUpdateChannels(w) == Some(w, Tenant, UpdateTenantChannels)

handleUpdateTenant(w) == Patch(w, Tenant, UpdateTenantNameTimezone, All(UpdateTenantNameTimezone))

\* A mentor is chosen: from the API, by a command of OpenClaw, or by /mentor. No
\* blend is given, so that it becomes NULL.
MentorAlone == [c \in UpdateTenantMentor \cap Columns |-> IF c = "mentor_id" THEN New ELSE 0]
handleUpdateMentor(w) == Patch(w, Tenant, UpdateTenantMentor, MentorAlone)

\* A blend is chosen; its first mentor is the mentor.
handleUpdateBlend(w) == Patch(w, Tenant, UpdateTenantMentor, All(UpdateTenantMentor))

\* /blend off writes back the mentor it read.
HandleBlendOff(w) ==
    Patch(w, Tenant, UpdateTenantMentor, [c \in {"mentor_blend"} \cap Columns |-> 0])

\* A mutation: what the request does not give becomes NULL.
WithoutCurrent(r, c) == IF c \in DOMAIN r.gives THEN r.gives[c] ELSE 0

\* What a statement writes to a column.
Merged(r, c) == IF c \in DOMAIN r.gives THEN r.gives[c] ELSE r.read[c]

\* The requests under way that will write a column back to what they read.
WritesBack(w, r, c) ==
    \E v \in Workers \ {w} :
       /\ work[v].at = "patch" /\ work[v].row = r
       /\ c \in work[v].sets /\ c \notin DOMAIN work[v].gives

\* The statement; an error is answered.
Write(w) ==
    LET r == work[w]  i == work[w].row IN
    /\ r.at = "patch"
    /\ \E ok \in BOOLEAN :
          /\ Breaks(ok) /\ Counts(ok)
          /\ IF ok
             THEN /\ setting' = [setting EXCEPT ![i] = [c \in Columns |->
                         IF c \in r.sets THEN Merged(r, c) ELSE @[c]]]
                  /\ gave' = [gave EXCEPT ![i] = [c \in Columns |->
                         IF c \in DOMAIN r.gives THEN r.gives[c] ELSE @[c]]]
                  /\ passed' = {p \in passed : ~(p[1] = i /\ p[2] \in DOMAIN r.gives)}
                         \cup {<<i, c>> : c \in {c \in DOMAIN r.gives : WritesBack(w, i, c)}}
             ELSE UNCHANGED settings
    /\ Does(w, Idle)
    /\ UNCHANGED <<people, companies, requests, contended>>

Settings(w) ==
    \/ \E e \in Employees : \/ handleUpdateProfile(w, e) \/ handleUpdateEmployeeChannels(w, e)
                            \/ handleUpdateEmployeePreferred(w, e) \/ handleUpdateEmployeeCulture(w, e)
    \/ handleUpdateChannels(w) \/ handleUpdateTenant(w) \/ handleUpdateMentor(w)
    \/ handleUpdateBlend(w) \/ HandleBlendOff(w)
    \/ Write(w)

-----------------------------------------------------------------------------
(* Hiring and joining                                                      *)

\* handleCreateEmployee, /addemployee: an employee with a code of its own.
CreateEmployee(e) ==
    /\ e \notin hired
    /\ hired' = hired \cup {e}
    /\ UNCHANGED <<settings, telegram, welcomed, companies, work, bounds, contended>>

\* Another join with the same code is under way.
Joining(e) == \E v \in Workers : work[v].at = "bind" /\ work[v].who = e

\* /join: the employee is looked up by the code.
HandleJoin(w, c, e) ==
    /\ Begins(w, IF GetEmployeeByInviteCode(e) THEN [at |-> "bind", who |-> e, chat |-> c] ELSE Idle)
    /\ contended' = IF Joining(e) THEN contended \cup {e} ELSE contended
    /\ UNCHANGED <<settings, people, companies, faults>>

\* The Telegram user is bound to the employee and welcomed.
Bind(w) ==
    LET e == work[w].who  c == work[w].chat IN
    /\ work[w].at = "bind"
    /\ \E ok \in BOOLEAN :
          /\ Breaks(ok) /\ Counts(ok)
          /\ IF ok /\ (Taken(c) => telegram[e] = c)
             THEN /\ telegram' = UpdateEmployeeTelegramID(e, c)
                  /\ welcomed' = welcomed \cup {<<e, c>>}
             ELSE UNCHANGED <<telegram, welcomed>>
    /\ Does(w, Idle)
    /\ UNCHANGED <<settings, hired, companies, requests, contended>>

People(w) == (\E c \in Chats, e \in Employees : HandleJoin(w, c, e)) \/ Bind(w)

-----------------------------------------------------------------------------
(* Signing up                                                              *)

\* Another sign-up of the same person is under way.
SigningUp(m) == \E v \in Workers : work[v].at \in {"tenant", "user"} /\ work[v].who = m

\* HandleRegister and HandleGoogleCallback: somebody who is no user yet gets a
\* tenant; a user is refused by the one, and signed in by the other.
HandleRegister(w, m) ==
    /\ Begins(w, IF GetUserByEmail(m) THEN Idle ELSE [at |-> "tenant", who |-> m])
    /\ contended' = IF SigningUp(m) THEN contended \cup {m} ELSE contended
    /\ UNCHANGED <<settings, people, companies, faults>>

\* /start: the boss who has no tenant gets one.
HandleStart(w, b) ==
    /\ Begins(w, IF GetTenantByBossChatID(b) THEN Idle ELSE [at |-> "tenant", who |-> b])
    /\ contended' = IF SigningUp(b) THEN contended \cup {b} ELSE contended
    /\ UNCHANGED <<settings, people, companies, faults>>

\* The tenant is created; an error is answered.
NewTenant(w) ==
    LET m == work[w].who IN
    /\ work[w].at = "tenant"
    /\ \E ok \in BOOLEAN :
          /\ Breaks(ok) /\ Counts(ok)
          /\ tenant' = IF ok THEN CreateTenant(m) ELSE tenant
          /\ Does(w, IF ok /\ m \in Emails THEN [at |-> "user", who |-> m, tenant |-> Len(tenant) + 1]
                     ELSE Idle)
    /\ UNCHANGED <<settings, people, user, requests, contended>>

\* Then the user; the email is unique, and the tenant stays when that fails.
NewUser(w) ==
    LET m == work[w].who IN
    /\ work[w].at = "user"
    /\ \E ok \in BOOLEAN :
          /\ Breaks(ok) /\ Counts(ok)
          /\ user' = IF ok /\ ~GetUserByEmail(m) THEN CreateUser(m, work[w].tenant) ELSE user
          /\ contended' = IF ok THEN contended ELSE contended \cup {m}
    /\ Does(w, Idle)
    /\ UNCHANGED <<settings, people, tenant, requests>>

SignUps(w) ==
    \/ \E m \in Emails : HandleRegister(w, m)
    \/ \E b \in Bosses : HandleStart(w, b)
    \/ NewTenant(w) \/ NewUser(w)

\* The process ends.
Crash ==
    /\ faults < MaxFaults /\ faults' = faults + 1
    /\ \E w \in Workers : work[w] # Idle
    /\ work' = [w \in Workers |-> Idle]
    /\ contended' = contended \cup {work[w].who : w \in {w \in Workers : work[w].at = "user"}}
    /\ UNCHANGED <<settings, people, companies, requests>>

Next ==
    \/ \E w \in Workers : Settings(w) \/ People(w) \/ SignUps(w)
    \/ \E e \in Employees : CreateEmployee(e)
    \/ Crash

Spec == Init /\ [][Next]_vars

-----------------------------------------------------------------------------
(* Properties                                                              *)

\* What a goroutine remembers of the request it handles: a request gives values
\* only to columns its statement sets.
RequestOK(r) ==
    /\ r.at \in {"idle", "patch", "bind", "tenant", "user"}
    /\ r.at = "patch" => /\ r.row \in Rows /\ r.sets \in SUBSET Columns /\ r.read \in [Columns -> Nat]
                         /\ DOMAIN r.gives \in SUBSET r.sets /\ r.gives \in [DOMAIN r.gives -> Nat]
    /\ r.at = "bind" => r.who \in Employees /\ r.chat \in Chats
    /\ r.at = "tenant" => r.who \in Emails \cup Bosses
    /\ r.at = "user" => r.who \in Emails /\ r.tenant \in Nat

\* Every variable holds a value of its type.
TypeOK ==
    /\ setting \in [Rows -> [Columns -> Nat]] /\ gave \in [Rows -> [Columns -> Nat]]
    /\ passed \in SUBSET (Rows \X Columns)
    /\ hired \in SUBSET Employees
    /\ telegram \in [Employees -> Chats \cup {None}]
    /\ welcomed \in SUBSET (Employees \X Chats)
    /\ tenant \in Seq(Emails \cup Bosses)
    /\ user \in [Emails -> Nat]
    /\ work = [w \in Workers |-> work[w]] /\ \A w \in Workers : RequestOK(work[w])
    /\ requests \in Nat /\ faults \in Nat
    /\ contended \in SUBSET (Emails \cup Bosses \cup Employees)

\* A setting has the value the last answered request gave it, unless another
\* request that does not give it had read the row before: it is written back only
\* by requests that overlap (handlers.go:385, admin_handlers.go:99, 260).
SettingsKept ==
    \A r \in Rows, c \in Columns : <<r, c>> \notin passed => setting[r][c] = gave[r][c]

\* A Telegram user who was welcomed is the employee's and stays it: a code is used
\* once, unless two users send it at the same time (commands_onboarding.go:102).
WelcomedStays ==
    \A p \in welcomed : p[1] \notin contended => telegram[p[1]] = p[2]

\* No tenant is without its boss: it is its user's, or the only one of the boss's
\* chat, unless sign-ups of one person overlapped, or one broke off between its
\* two inserts (auth.go:115).
TenantsHaveBosses ==
    \A n \in DOMAIN tenant : tenant[n] \notin contended =>
        \/ tenant[n] \in Emails /\ user[tenant[n]] = n
        \/ tenant[n] \in Emails /\ \E w \in Workers : work[w].at = "user" /\ work[w].tenant = n
        \/ tenant[n] \in Bosses /\ \A k \in DOMAIN tenant : tenant[k] = tenant[n] => k = n

(* What comments and answers say.                                          *)

\* "avoid overwriting unset fields" (admin_handlers.go:99), "only update provided
\* fields" (handlers.go:397): it writes all of them, as it read them.
OnlyProvidedFields == \A r \in Rows, c \in Columns : setting[r][c] = gave[r][c]

\* "You're now linked to the team" (commands_onboarding.go:113).
NowLinked == \A p \in welcomed : telegram[p[1]] = p[2]
=============================================================================
