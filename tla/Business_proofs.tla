--------------------------- MODULE Business_proofs ---------------------------
(***************************************************************************)
(* Accounts, Signals, Sync, Memory, WorldModel, Roles and Chat, side by    *)
(* side, and the theorems about each, for every value of its constants.    *)
(***************************************************************************)
EXTENDS Integers, Sequences, FiniteSets, FiniteSetTheorems, WellFoundedInduction, TLAPS

CONSTANTS
    Workers, None, MaxFaults,
    \* of Accounts
    Employees, AtFirst, Emails, Chats, Bosses, Columns, Tenant, MaxRequests,
    \* of Signals
    Webhooks, Body, Known, Reports, MaxRows, MaxSent, MaxAge,
    \* of Sync
    Storages, Tables, Agents, MaxChanges, MaxSessions

VARIABLES
    work, faults,
    setting, gave, passed, hired, telegram, welcomed, tenant, user, requests, contended,
    employee, recorded, signal, event, memory, sent, age, applied, disturbed, dropped,
    changed, config, log, agent, clock, sessions, shown, excused

Acc == INSTANCE Accounts
Sig == INSTANCE Signals
Syn == INSTANCE Sync

-----------------------------------------------------------------------------
(* Accounts: types                                                         *)

SettingsOK ==
    /\ setting \in [Acc!Rows -> [Columns -> Nat]] /\ gave \in [Acc!Rows -> [Columns -> Nat]]
    /\ passed \in SUBSET (Acc!Rows \X Columns)
PeopleOK ==
    /\ hired \in SUBSET Employees
    /\ telegram \in [Employees -> Chats \cup {None}]
    /\ welcomed \in SUBSET (Employees \X Chats)
CompaniesOK == tenant \in Seq(Emails \cup Bosses) /\ user \in [Emails -> Nat]
AccWorkOK == work = [w \in Workers |-> work[w]] /\ \A w \in Workers : Acc!RequestOK(work[w])
BoundsOK == requests \in Nat /\ faults \in Nat /\ contended \in SUBSET (Emails \cup Bosses \cup Employees)

LEMMA AccParts == Acc!TypeOK <=> SettingsOK /\ PeopleOK /\ CompaniesOK /\ AccWorkOK /\ BoundsOK
  BY DEF Acc!TypeOK, SettingsOK, PeopleOK, CompaniesOK, AccWorkOK, BoundsOK

LEMMA AccPartsNext == (Acc!TypeOK <=> SettingsOK /\ PeopleOK /\ CompaniesOK /\ AccWorkOK /\ BoundsOK)'
  BY DEF Acc!TypeOK, SettingsOK, PeopleOK, CompaniesOK, AccWorkOK, BoundsOK

LEMMA IdleOK == Acc!RequestOK(Acc!Idle) /\ Acc!Idle.at = "idle"
  BY DEF Acc!RequestOK, Acc!Idle

\* The other goroutines stay at what they do.
AccOthers(w) == \A v \in Workers : v # w => work'[v] = work[v]

LEMMA AccSteps ==
    ASSUME AccWorkOK, NEW w \in Workers, NEW r, Acc!RequestOK(r), Acc!Does(w, r)
    PROVE  AccWorkOK' /\ work'[w] = r /\ AccOthers(w)
  BY DEF AccWorkOK, Acc!Does, AccOthers

LEMMA AccCountsType == ASSUME faults \in Nat, NEW ok \in BOOLEAN, Acc!Counts(ok) PROVE faults' \in Nat
  BY DEF Acc!Counts

\* The request that gives a statement's columns values.
Patching(r, statement, gives) ==
    [at |-> "patch", row |-> r, sets |-> statement \cap Columns, gives |-> gives, read |-> setting[r]]

\* Every handler of settings begins with one: only its statement's columns are given values.
Gives(w, r, statement, gives) ==
    /\ Acc!Patch(w, r, statement, gives)
    /\ gives \in [DOMAIN gives -> Nat] /\ DOMAIN gives \in SUBSET (statement \cap Columns)

LEMMA AllGives ==
    ASSUME BoundsOK, NEW w, NEW r, NEW statement, Acc!Patch(w, r, statement, Acc!All(statement))
    PROVE  Gives(w, r, statement, Acc!All(statement))
  BY DEF BoundsOK, Gives, Acc!All, Acc!New

LEMMA SomeGives ==
    ASSUME BoundsOK, NEW w, NEW r, NEW statement, Acc!Some(w, r, statement)
    PROVE  \E gives : Gives(w, r, statement, gives)
<1>1. PICK cs \in SUBSET (statement \cap Columns) : Acc!Patch(w, r, statement, [c \in cs |-> Acc!New])
  BY DEF Acc!Some
<1>2. [c \in cs |-> Acc!New] \in [cs -> Nat] /\ DOMAIN [c \in cs |-> Acc!New] = cs
  BY DEF BoundsOK, Acc!New
<1>3. Gives(w, r, statement, [c \in cs |-> Acc!New])
  BY <1>1, <1>2 DEF Gives
<1>4. QED
  BY <1>3

LEMMA SettingsGive ==
    ASSUME BoundsOK, NEW w \in Workers, Acc!Settings(w)
    PROVE  Acc!Write(w) \/ \E r, statement, gives : Gives(w, r, statement, gives)
<1>1. ASSUME NEW e \in Employees, Acc!handleUpdateProfile(w, e) \/ Acc!handleUpdateEmployeeChannels(w, e)
      PROVE  \E r, statement, gives : Gives(w, r, statement, gives)
  BY <1>1, SomeGives, Zenon DEF Acc!handleUpdateProfile, Acc!handleUpdateEmployeeChannels
<1>2. ASSUME NEW e \in Employees, Acc!handleUpdateEmployeePreferred(w, e) \/ Acc!handleUpdateEmployeeCulture(w, e)
      PROVE  \E r, statement, gives : Gives(w, r, statement, gives)
  BY <1>2, AllGives, Zenon DEF Acc!handleUpdateEmployeePreferred, Acc!handleUpdateEmployeeCulture
<1>3. ASSUME Acc!handleUpdateChannels(w) PROVE \E r, statement, gives : Gives(w, r, statement, gives)
  BY <1>3, SomeGives, Zenon DEF Acc!handleUpdateChannels
<1>4. ASSUME Acc!handleUpdateTenant(w) \/ Acc!handleUpdateBlend(w)
      PROVE  \E r, statement, gives : Gives(w, r, statement, gives)
  BY <1>4, AllGives, Zenon DEF Acc!handleUpdateTenant, Acc!handleUpdateBlend
<1>5. ASSUME Acc!handleUpdateMentor(w) PROVE \E r, statement, gives : Gives(w, r, statement, gives)
  <2>1. /\ Acc!MentorAlone \in [DOMAIN Acc!MentorAlone -> Nat]
        /\ DOMAIN Acc!MentorAlone \in SUBSET (Acc!UpdateTenantMentor \cap Columns)
    BY DEF Acc!MentorAlone, BoundsOK, Acc!New
  <2>2. Acc!Patch(w, Tenant, Acc!UpdateTenantMentor, Acc!MentorAlone)
    BY <1>5 DEF Acc!handleUpdateMentor
  <2>3. Gives(w, Tenant, Acc!UpdateTenantMentor, Acc!MentorAlone)
    BY <2>1, <2>2 DEF Gives
  <2>4. QED
    BY <2>3
<1>6. ASSUME Acc!HandleBlendOff(w) PROVE \E r, statement, gives : Gives(w, r, statement, gives)
  <2> DEFINE off == [c \in {"mentor_blend"} \cap Columns |-> 0]
  <2>1. off \in [DOMAIN off -> Nat] /\ DOMAIN off \in SUBSET (Acc!UpdateTenantMentor \cap Columns)
    BY DEF Acc!UpdateTenantMentor
  <2>2. Acc!Patch(w, Tenant, Acc!UpdateTenantMentor, off)
    BY <1>6 DEF Acc!HandleBlendOff
  <2>3. Gives(w, Tenant, Acc!UpdateTenantMentor, off)
    BY <2>1, <2>2 DEF Gives
  <2>4. QED
    BY <2>3
<1>7. QED
  BY <1>1, <1>2, <1>3, <1>4, <1>5, <1>6 DEF Acc!Settings

LEMMA PatchSteps ==
    ASSUME Acc!TypeOK, NEW w \in Workers, NEW r, NEW statement, NEW gives, Gives(w, r, statement, gives)
    PROVE  /\ r \in Acc!Rows /\ Acc!RequestOK(Patching(r, statement, gives))
           /\ AccWorkOK' /\ work'[w] = Patching(r, statement, gives) /\ AccOthers(w)
           /\ UNCHANGED <<Acc!settings, Acc!people, Acc!companies, faults, contended>> /\ requests' = requests + 1
<1>1. r \in Acc!Rows /\ setting[r] \in [Columns -> Nat]
  BY DEF Gives, Acc!Patch, Acc!Rows, Acc!TypeOK
<1>2. Acc!RequestOK(Patching(r, statement, gives))
  BY <1>1 DEF Acc!RequestOK, Patching, Gives
<1>3. Acc!Does(w, Patching(r, statement, gives))
  BY DEF Gives, Acc!Patch, Acc!Begins, Patching
<1>4. QED
  BY <1>1, <1>2, <1>3, AccParts, AccSteps DEF Gives, Acc!Patch, Acc!Begins, Acc!New

LEMMA AccTypeInit == ASSUME AtFirst \in SUBSET Employees, Acc!Init PROVE Acc!TypeOK
<1>1. SettingsOK
  BY DEF Acc!Init, SettingsOK
<1>2. PeopleOK /\ CompaniesOK
  BY DEF Acc!Init, PeopleOK, CompaniesOK
<1>3. AccWorkOK /\ BoundsOK
  BY IdleOK DEF Acc!Init, AccWorkOK, BoundsOK
<1>4. QED
  BY <1>1, <1>2, <1>3, AccParts

LEMMA TypeGives ==
    ASSUME Acc!TypeOK, NEW w \in Workers, NEW r, NEW statement, NEW gives, Gives(w, r, statement, gives)
    PROVE  Acc!TypeOK'
<1>1. /\ AccWorkOK' /\ UNCHANGED <<Acc!settings, Acc!people, Acc!companies, faults, contended>> /\ requests' = requests + 1
  BY PatchSteps
<1>2. (SettingsOK /\ PeopleOK /\ CompaniesOK)'
  BY <1>1, AccParts DEF SettingsOK, PeopleOK, CompaniesOK, Acc!settings, Acc!people, Acc!companies
<1>3. BoundsOK'
  BY <1>1, AccParts DEF BoundsOK
<1>4. QED
  BY <1>1, <1>2, <1>3, AccPartsNext

\* What the statement makes of the columns.
Written(r) ==
    [setting EXCEPT ![r.row] = [c \in Columns |-> IF c \in r.sets THEN Acc!Merged(r, c) ELSE setting[r.row][c]]]
Given(r) ==
    [gave EXCEPT ![r.row] = [c \in Columns |-> IF c \in DOMAIN r.gives THEN r.gives[c] ELSE gave[r.row][c]]]
Passed(w, r) ==
    {p \in passed : ~(p[1] = r.row /\ p[2] \in DOMAIN r.gives)}
       \cup {<<r.row, c>> : c \in {c \in DOMAIN r.gives : Acc!WritesBack(w, r.row, c)}}

LEMMA WriteSteps ==
    ASSUME Acc!TypeOK, NEW w \in Workers, Acc!Write(w)
    PROVE  /\ work[w].at = "patch" /\ Acc!RequestOK(work[w])
           /\ AccWorkOK' /\ work'[w] = Acc!Idle /\ AccOthers(w)
           /\ UNCHANGED <<Acc!people, Acc!companies, requests, contended>> /\ faults' \in Nat
           /\ \/ UNCHANGED Acc!settings
              \/ setting' = Written(work[w]) /\ gave' = Given(work[w]) /\ passed' = Passed(w, work[w])
<1>1. work[w].at = "patch" /\ Acc!RequestOK(work[w])
  BY DEF Acc!Write, Acc!TypeOK
<1>2. AccWorkOK' /\ work'[w] = Acc!Idle /\ AccOthers(w)
  BY AccParts, IdleOK, AccSteps DEF Acc!Write
<1>3. faults' \in Nat
  BY AccCountsType DEF Acc!Write, Acc!TypeOK
<1>4. \/ UNCHANGED Acc!settings
      \/ setting' = Written(work[w]) /\ gave' = Given(work[w]) /\ passed' = Passed(w, work[w])
  BY Zenon DEF Acc!Write, Written, Given, Passed
<1>5. QED
  BY <1>1, <1>2, <1>3, <1>4 DEF Acc!Write

\* The types of what is written and given.
LEMMA Columnwise ==
    ASSUME SettingsOK, NEW r, r.at = "patch", Acc!RequestOK(r)
    PROVE  /\ r.row \in Acc!Rows /\ r.sets \in SUBSET Columns /\ DOMAIN r.gives \in SUBSET r.sets
           /\ Written(r) \in [Acc!Rows -> [Columns -> Nat]]
           /\ Given(r) \in [Acc!Rows -> [Columns -> Nat]]
<1>1. /\ r.row \in Acc!Rows /\ r.sets \in SUBSET Columns /\ r.read \in [Columns -> Nat]
      /\ DOMAIN r.gives \in SUBSET r.sets /\ r.gives \in [DOMAIN r.gives -> Nat]
  BY DEF Acc!RequestOK
<1>2. setting \in [Acc!Rows -> [Columns -> Nat]] /\ gave \in [Acc!Rows -> [Columns -> Nat]]
  BY DEF SettingsOK
<1>3. \A c \in Columns : Acc!Merged(r, c) \in Nat
  BY <1>1 DEF Acc!Merged
<1>4. [c \in Columns |-> IF c \in r.sets THEN Acc!Merged(r, c) ELSE setting[r.row][c]] \in [Columns -> Nat]
  BY <1>1, <1>2, <1>3
<1>5. [c \in Columns |-> IF c \in DOMAIN r.gives THEN r.gives[c] ELSE gave[r.row][c]] \in [Columns -> Nat]
  BY <1>1, <1>2
<1>6. Written(r) \in [Acc!Rows -> [Columns -> Nat]] /\ Given(r) \in [Acc!Rows -> [Columns -> Nat]]
  BY <1>2, <1>4, <1>5 DEF Written, Given
<1>7. QED
  BY <1>1, <1>6

\* What is written and given, column by column.
LEMMA WrittenColumns ==
    ASSUME Acc!TypeOK, NEW w \in Workers, work[w].at = "patch"
    PROVE  \A k \in Acc!Rows, c \in Columns :
              /\ Written(work[w])[k][c] =
                    IF k = work[w].row /\ c \in work[w].sets THEN Acc!Merged(work[w], c) ELSE setting[k][c]
              /\ Given(work[w])[k][c] =
                    IF k = work[w].row /\ c \in DOMAIN work[w].gives THEN work[w].gives[c] ELSE gave[k][c]
<1>1. SettingsOK /\ Acc!RequestOK(work[w])
  BY AccParts DEF Acc!TypeOK
<1>2. SUFFICES ASSUME NEW k \in Acc!Rows, NEW c \in Columns
      PROVE  /\ Written(work[w])[k][c] =
                   IF k = work[w].row /\ c \in work[w].sets THEN Acc!Merged(work[w], c) ELSE setting[k][c]
             /\ Given(work[w])[k][c] =
                   IF k = work[w].row /\ c \in DOMAIN work[w].gives THEN work[w].gives[c] ELSE gave[k][c]
  OBVIOUS
<1>3. work[w].row \in Acc!Rows /\ work[w].sets \in SUBSET Columns /\ DOMAIN work[w].gives \in SUBSET work[w].sets
  BY <1>1 DEF Acc!RequestOK
<1>4. setting \in [Acc!Rows -> [Columns -> Nat]] /\ gave \in [Acc!Rows -> [Columns -> Nat]]
  BY <1>1 DEF SettingsOK
<1>5. QED
  BY <1>3, <1>4 DEF Written, Given

LEMMA TypeWrite == ASSUME Acc!TypeOK, NEW w \in Workers, Acc!Write(w) PROVE Acc!TypeOK'
<1>1. (AccWorkOK /\ BoundsOK /\ PeopleOK /\ CompaniesOK)'
  BY WriteSteps, AccParts DEF BoundsOK, PeopleOK, CompaniesOK, Acc!people, Acc!companies
<1>2. CASE UNCHANGED Acc!settings
  BY <1>1, <1>2, AccParts, AccPartsNext DEF Acc!settings, SettingsOK
<1>3. CASE setting' = Written(work[w]) /\ gave' = Given(work[w]) /\ passed' = Passed(w, work[w])
  <2>1. setting' \in [Acc!Rows -> [Columns -> Nat]] /\ gave' \in [Acc!Rows -> [Columns -> Nat]]
    BY <1>3, WriteSteps, AccParts, Columnwise
  <2>2. passed' \in SUBSET (Acc!Rows \X Columns)
    <3>1. work[w].row \in Acc!Rows /\ DOMAIN work[w].gives \in SUBSET Columns
      BY WriteSteps, AccParts, Columnwise
    <3>2. passed \in SUBSET (Acc!Rows \X Columns)
      BY DEF Acc!TypeOK
    <3>3. QED
      BY <1>3, <3>1, <3>2 DEF Passed
  <2>3. QED
    BY <1>1, <2>1, <2>2, AccPartsNext DEF SettingsOK
<1>4. QED
  BY <1>2, <1>3, WriteSteps

LEMMA TypeCreateEmployee ==
    ASSUME Acc!TypeOK, NEW e \in Employees, Acc!CreateEmployee(e)
    PROVE  Acc!TypeOK'
<1>1. (SettingsOK /\ PeopleOK /\ CompaniesOK)'
  BY AccParts DEF Acc!CreateEmployee, SettingsOK, PeopleOK, CompaniesOK, Acc!settings, Acc!companies
<1>2. (AccWorkOK /\ BoundsOK)'
  BY AccParts DEF Acc!CreateEmployee, AccWorkOK, BoundsOK, Acc!bounds
<1>3. QED
  BY <1>1, <1>2, AccPartsNext

LEMMA JoinSteps ==
    ASSUME Acc!TypeOK, NEW w \in Workers, NEW c \in Chats, NEW e \in Employees, Acc!HandleJoin(w, c, e)
    PROVE  /\ AccWorkOK' /\ AccOthers(w)
           /\ IF Acc!GetEmployeeByInviteCode(e)
              THEN work'[w].at = "bind" /\ work'[w].who = e /\ work'[w].chat = c
              ELSE work'[w].at = "idle"
           /\ UNCHANGED <<Acc!settings, Acc!people, Acc!companies, faults>> /\ requests' = requests + 1
           /\ contended' = IF Acc!Joining(e) THEN contended \cup {e} ELSE contended
<1> DEFINE r == IF Acc!GetEmployeeByInviteCode(e) THEN [at |-> "bind", who |-> e, chat |-> c] ELSE Acc!Idle
<1>1. Acc!RequestOK([at |-> "bind", who |-> e, chat |-> c]) /\ Acc!RequestOK(Acc!Idle)
  BY IdleOK DEF Acc!RequestOK
<1>2. Acc!RequestOK(r)
  BY <1>1
<1>3. Acc!Does(w, r)
  BY DEF Acc!HandleJoin, Acc!Begins
<1> HIDE DEF r
<1>4. AccWorkOK' /\ work'[w] = r /\ AccOthers(w)
  BY <1>2, <1>3, AccParts, AccSteps
<1>5. CASE Acc!GetEmployeeByInviteCode(e)
  BY <1>4, <1>5 DEF r, Acc!HandleJoin, Acc!Begins, Acc!New
<1>6. CASE ~ Acc!GetEmployeeByInviteCode(e)
  BY <1>4, <1>6, IdleOK DEF r, Acc!HandleJoin, Acc!Begins, Acc!New
<1>7. QED
  BY <1>5, <1>6

LEMMA TypeHandleJoin ==
    ASSUME Acc!TypeOK, NEW w \in Workers, NEW c \in Chats, NEW e \in Employees, Acc!HandleJoin(w, c, e)
    PROVE  Acc!TypeOK'
<1>1. (SettingsOK /\ PeopleOK /\ CompaniesOK)'
  BY AccParts, JoinSteps DEF SettingsOK, PeopleOK, CompaniesOK, Acc!settings, Acc!people, Acc!companies
<1>2. BoundsOK'
  <2>1. contended' \in {contended, contended \cup {e}} /\ requests' = requests + 1 /\ faults' = faults
    BY JoinSteps
  <2>2. QED
    BY <2>1, AccParts DEF BoundsOK
<1>3. QED
  BY <1>1, <1>2, JoinSteps, AccPartsNext

LEMMA BindSteps ==
    ASSUME Acc!TypeOK, NEW w \in Workers, Acc!Bind(w)
    PROVE  /\ work[w].at = "bind" /\ work[w].who \in Employees /\ work[w].chat \in Chats
           /\ AccWorkOK' /\ work'[w] = Acc!Idle /\ AccOthers(w)
           /\ UNCHANGED <<Acc!settings, hired, Acc!companies, requests, contended>> /\ faults' \in Nat
           /\ \/ UNCHANGED <<telegram, welcomed>>
              \/ /\ telegram' = [telegram EXCEPT ![work[w].who] = work[w].chat]
                 /\ welcomed' = welcomed \cup {<<work[w].who, work[w].chat>>}
<1>1. work[w].at = "bind" /\ work[w].who \in Employees /\ work[w].chat \in Chats
  BY DEF Acc!Bind, Acc!TypeOK, Acc!RequestOK
<1>2. AccWorkOK' /\ work'[w] = Acc!Idle /\ AccOthers(w)
  BY AccParts, IdleOK, AccSteps DEF Acc!Bind
<1>3. faults' \in Nat
  BY AccCountsType DEF Acc!Bind, Acc!TypeOK
<1>4. QED
  BY <1>1, <1>2, <1>3 DEF Acc!Bind, Acc!UpdateEmployeeTelegramID

LEMMA TypeBind == ASSUME Acc!TypeOK, NEW w \in Workers, Acc!Bind(w) PROVE Acc!TypeOK'
<1>1. (SettingsOK /\ CompaniesOK /\ AccWorkOK /\ BoundsOK)'
  BY AccParts, BindSteps DEF SettingsOK, CompaniesOK, BoundsOK, Acc!settings, Acc!companies
<1>2. PeopleOK'
  BY AccParts, BindSteps DEF PeopleOK
<1>3. QED
  BY <1>1, <1>2, AccPartsNext

LEMMA Registrations ==
    /\ \A m \in Emails \cup Bosses : Acc!RequestOK([at |-> "tenant", who |-> m])
    /\ \A m \in Emails, n \in Nat : Acc!RequestOK([at |-> "user", who |-> m, tenant |-> n])
  BY DEF Acc!RequestOK

\* HandleRegister and HandleStart begin alike.
SigningOn(w, m, known) ==
    /\ Acc!Begins(w, IF known THEN Acc!Idle ELSE [at |-> "tenant", who |-> m])
    /\ contended' = IF Acc!SigningUp(m) THEN contended \cup {m} ELSE contended
    /\ UNCHANGED <<Acc!settings, Acc!people, Acc!companies, faults>>

LEMMA SigningOnSteps ==
    ASSUME Acc!TypeOK, NEW w \in Workers, NEW m \in Emails \cup Bosses, NEW known \in BOOLEAN, SigningOn(w, m, known)
    PROVE  /\ work[w].at = "idle" /\ AccWorkOK' /\ AccOthers(w)
           /\ IF known THEN work'[w].at = "idle" ELSE work'[w].at = "tenant" /\ work'[w].who = m
           /\ UNCHANGED <<Acc!settings, Acc!people, Acc!companies, faults>> /\ requests' = requests + 1
           /\ contended' = IF Acc!SigningUp(m) THEN contended \cup {m} ELSE contended
<1> DEFINE r == IF known THEN Acc!Idle ELSE [at |-> "tenant", who |-> m]
<1>1. Acc!RequestOK(r)
  BY IdleOK, Registrations
<1>2. Acc!Does(w, r)
  BY DEF SigningOn, Acc!Begins
<1> HIDE DEF r
<1>3. AccWorkOK' /\ work'[w] = r /\ AccOthers(w)
  BY <1>1, <1>2, AccParts, AccSteps
<1>4. work[w].at = "idle"
  BY IdleOK DEF SigningOn, Acc!Begins
<1>5. CASE known
  BY <1>3, <1>4, <1>5, IdleOK DEF r, SigningOn, Acc!Begins, Acc!New
<1>6. CASE ~ known
  BY <1>3, <1>4, <1>6 DEF r, SigningOn, Acc!Begins, Acc!New
<1>7. QED
  BY <1>5, <1>6

LEMMA TypeSigningOn ==
    ASSUME Acc!TypeOK, NEW w \in Workers, NEW m \in Emails \cup Bosses, NEW known \in BOOLEAN, SigningOn(w, m, known)
    PROVE  Acc!TypeOK'
<1>1. (SettingsOK /\ PeopleOK /\ CompaniesOK)'
  <2>1. UNCHANGED <<Acc!settings, Acc!people, Acc!companies>>
    BY SigningOnSteps
  <2>2. QED
    BY <2>1, AccParts DEF SettingsOK, PeopleOK, CompaniesOK, Acc!settings, Acc!people, Acc!companies
<1>2. BoundsOK'
  <2>1. contended' \in {contended, contended \cup {m}} /\ requests' = requests + 1 /\ faults' = faults
    BY SigningOnSteps
  <2>2. QED
    BY <2>1, AccParts DEF BoundsOK
<1>3. QED
  BY <1>1, <1>2, SigningOnSteps, AccPartsNext

LEMMA NewTenantSteps ==
    ASSUME Acc!TypeOK, NEW w \in Workers, Acc!NewTenant(w)
    PROVE  /\ work[w].at = "tenant" /\ work[w].who \in Emails \cup Bosses
           /\ AccWorkOK' /\ AccOthers(w)
           /\ UNCHANGED <<Acc!settings, Acc!people, user, requests, contended>> /\ faults' \in Nat
           /\ \/ work'[w].at = "idle" /\ tenant' = tenant
              \/ /\ tenant' = Append(tenant, work[w].who)
                 /\ IF work[w].who \in Emails
                    THEN /\ work'[w].at = "user" /\ work'[w].who = work[w].who
                         /\ work'[w].tenant = Len(tenant) + 1
                    ELSE work'[w].at = "idle"
<1>1. work[w].at = "tenant" /\ work[w].who \in Emails \cup Bosses /\ Len(tenant) + 1 \in Nat
  <2>1. work[w].at = "tenant" /\ Acc!RequestOK(work[w])
    BY DEF Acc!NewTenant, Acc!TypeOK
  <2>2. Len(tenant) + 1 \in Nat
    BY DEF Acc!TypeOK
  <2>3. QED
    BY <2>1, <2>2 DEF Acc!RequestOK
<1>2. PICK ok \in BOOLEAN :
         /\ Acc!Counts(ok) /\ tenant' = IF ok THEN Acc!CreateTenant(work[w].who) ELSE tenant
         /\ Acc!Does(w, IF ok /\ work[w].who \in Emails
                    THEN [at |-> "user", who |-> work[w].who, tenant |-> Len(tenant) + 1] ELSE Acc!Idle)
  BY DEF Acc!NewTenant
<1> DEFINE r == IF ok /\ work[w].who \in Emails
                THEN [at |-> "user", who |-> work[w].who, tenant |-> Len(tenant) + 1] ELSE Acc!Idle
<1>3. Acc!RequestOK(r)
  BY <1>1, IdleOK, Registrations
<1>4. Acc!Does(w, r)
  BY <1>2
<1> HIDE DEF r
<1>5. AccWorkOK' /\ work'[w] = r /\ AccOthers(w)
  BY <1>3, <1>4, AccParts, AccSteps
<1>6. faults' \in Nat
  BY <1>2, AccCountsType DEF Acc!TypeOK
<1>7. CASE ok /\ work[w].who \in Emails
  <2>1. r = [at |-> "user", who |-> work[w].who, tenant |-> Len(tenant) + 1]
    BY <1>7 DEF r
  <2>2. work'[w].at = "user" /\ work'[w].who = work[w].who /\ work'[w].tenant = Len(tenant) + 1
    BY <1>5, <2>1
  <2>3. QED
    BY <1>1, <1>2, <1>5, <1>6, <1>7, <2>2 DEF Acc!NewTenant, Acc!CreateTenant
<1>8. CASE ~ (ok /\ work[w].who \in Emails)
  <2>1. work'[w].at = "idle"
    BY <1>5, <1>8, IdleOK DEF r
  <2>2. QED
    BY <1>1, <1>2, <1>5, <1>6, <1>8, <2>1 DEF Acc!NewTenant, Acc!CreateTenant
<1>9. QED
  BY <1>7, <1>8

LEMMA TypeNewTenant == ASSUME Acc!TypeOK, NEW w \in Workers, Acc!NewTenant(w) PROVE Acc!TypeOK'
<1>1. (SettingsOK /\ PeopleOK /\ BoundsOK)'
  BY AccParts, NewTenantSteps DEF SettingsOK, PeopleOK, BoundsOK, Acc!settings, Acc!people
<1>2. CompaniesOK'
  <2>1. tenant \in Seq(Emails \cup Bosses) /\ work[w].who \in Emails \cup Bosses
    BY NewTenantSteps DEF Acc!TypeOK
  <2>2. tenant' \in Seq(Emails \cup Bosses)
    <3>1. PICK m \in Emails \cup Bosses : m = work[w].who
      BY <2>1
    <3>2. Append(tenant, m) \in Seq(Emails \cup Bosses)
      BY <2>1
    <3>3. tenant' \in {tenant, Append(tenant, m)}
      BY <3>1, NewTenantSteps
    <3>4. QED
      BY <2>1, <3>2, <3>3
  <2>3. QED
    BY <2>2, NewTenantSteps DEF Acc!TypeOK, CompaniesOK
<1>3. QED
  BY <1>1, <1>2, NewTenantSteps, AccPartsNext

LEMMA NewUserSteps ==
    ASSUME Acc!TypeOK, NEW w \in Workers, Acc!NewUser(w)
    PROVE  /\ work[w].at = "user" /\ work[w].who \in Emails /\ work[w].tenant \in Nat
           /\ AccWorkOK' /\ work'[w] = Acc!Idle /\ AccOthers(w)
           /\ UNCHANGED <<Acc!settings, Acc!people, tenant, requests>> /\ faults' \in Nat
           /\ \/ contended' = contended \cup {work[w].who} /\ user' = user
              \/ /\ contended' = contended
                 /\ user' = IF user[work[w].who] = 0 THEN [user EXCEPT ![work[w].who] = work[w].tenant] ELSE user
<1>1. work[w].at = "user" /\ work[w].who \in Emails /\ work[w].tenant \in Nat
  BY DEF Acc!NewUser, Acc!TypeOK, Acc!RequestOK
<1>2. AccWorkOK' /\ work'[w] = Acc!Idle /\ AccOthers(w)
  BY AccParts, IdleOK, AccSteps DEF Acc!NewUser
<1>3. faults' \in Nat
  BY AccCountsType DEF Acc!NewUser, Acc!TypeOK
<1>4. QED
  BY <1>1, <1>2, <1>3 DEF Acc!NewUser, Acc!CreateUser, Acc!GetUserByEmail

LEMMA TypeNewUser == ASSUME Acc!TypeOK, NEW w \in Workers, Acc!NewUser(w) PROVE Acc!TypeOK'
<1>1. (SettingsOK /\ PeopleOK)'
  BY AccParts, NewUserSteps DEF SettingsOK, PeopleOK, Acc!settings, Acc!people
<1>2. BoundsOK' /\ CompaniesOK'
  BY AccParts, NewUserSteps DEF CompaniesOK, BoundsOK
<1>3. QED
  BY <1>1, <1>2, NewUserSteps, AccPartsNext

LEMMA AccCrashSteps ==
    ASSUME Acc!TypeOK, Acc!Crash
    PROVE  /\ AccWorkOK' /\ \A w \in Workers : work'[w] = Acc!Idle
           /\ UNCHANGED <<Acc!settings, Acc!people, Acc!companies, requests>> /\ faults' \in Nat
           /\ contended \subseteq contended' /\ contended' \in SUBSET (Emails \cup Bosses \cup Employees)
           /\ \A w \in Workers : work[w].at = "user" => work[w].who \in contended'
<1>1. AccWorkOK' /\ \A w \in Workers : work'[w] = Acc!Idle
  BY IdleOK DEF Acc!Crash, AccWorkOK
<1>2. \A w \in Workers : work[w].at = "user" => work[w].who \in Emails
  BY DEF Acc!TypeOK, Acc!RequestOK
<1>3. QED
  BY <1>1, <1>2 DEF Acc!Crash, Acc!TypeOK

LEMMA TypeCrash == ASSUME Acc!TypeOK, Acc!Crash PROVE Acc!TypeOK'
<1>1. (SettingsOK /\ PeopleOK /\ CompaniesOK)'
  BY AccParts, AccCrashSteps DEF SettingsOK, PeopleOK, CompaniesOK, Acc!settings, Acc!people, Acc!companies
<1>2. BoundsOK'
  BY AccParts, AccCrashSteps DEF BoundsOK
<1>3. QED
  BY <1>1, <1>2, AccCrashSteps, AccPartsNext

LEMMA AccTypeStutter == ASSUME Acc!TypeOK, UNCHANGED Acc!vars PROVE Acc!TypeOK'
<1>1. (SettingsOK /\ PeopleOK /\ CompaniesOK)'
  BY AccParts DEF Acc!vars, SettingsOK, PeopleOK, CompaniesOK, Acc!settings, Acc!people, Acc!companies
<1>2. (AccWorkOK /\ BoundsOK)'
  BY AccParts DEF Acc!vars, Acc!bounds, AccWorkOK, BoundsOK
<1>3. QED
  BY <1>1, <1>2, AccPartsNext

\* What a step is.
LEMMA AccCases ==
    ASSUME Acc!TypeOK, Acc!Next
    PROVE  \/ \E w \in Workers : (\E r, statement, gives : Gives(w, r, statement, gives)) \/ Acc!Write(w)
           \/ \E w \in Workers : (\E c \in Chats, e \in Employees : Acc!HandleJoin(w, c, e)) \/ Acc!Bind(w)
           \/ \E w \in Workers : (\E m \in Emails : SigningOn(w, m, user[m] # 0)) \/ Acc!NewTenant(w) \/ Acc!NewUser(w)
           \/ \E w \in Workers, b \in Bosses : SigningOn(w, b, Acc!GetTenantByBossChatID(b))
           \/ \E e \in Employees : Acc!CreateEmployee(e)
           \/ Acc!Crash
<1>1. BoundsOK
  BY AccParts
<1>2. ASSUME NEW w \in Workers, NEW m \in Emails, Acc!HandleRegister(w, m) PROVE SigningOn(w, m, user[m] # 0)
  BY <1>2 DEF Acc!HandleRegister, SigningOn, Acc!GetUserByEmail
<1>3. ASSUME NEW w \in Workers, NEW b \in Bosses, Acc!HandleStart(w, b)
      PROVE  SigningOn(w, b, Acc!GetTenantByBossChatID(b))
  BY <1>3, Zenon DEF Acc!HandleStart, SigningOn
<1>4. ASSUME NEW w \in Workers, Acc!Settings(w)
      PROVE  (\E r, statement, gives : Gives(w, r, statement, gives)) \/ Acc!Write(w)
  BY <1>1, <1>4, SettingsGive
<1>5. QED
  BY <1>2, <1>3, <1>4, Zenon DEF Acc!Next, Acc!People, Acc!SignUps

LEMMA AccTypeNext == ASSUME Acc!TypeOK, [Acc!Next]_Acc!vars PROVE Acc!TypeOK'
<1>1. ASSUME NEW w \in Workers, NEW m \in Emails, SigningOn(w, m, user[m] # 0) PROVE Acc!TypeOK'
  BY <1>1, TypeSigningOn
<1>2. ASSUME NEW w \in Workers, NEW b \in Bosses, SigningOn(w, b, Acc!GetTenantByBossChatID(b)) PROVE Acc!TypeOK'
  <2>1. Acc!GetTenantByBossChatID(b) \in BOOLEAN
    BY DEF Acc!GetTenantByBossChatID
  <2>2. QED
    BY <1>2, <2>1, TypeSigningOn
<1>3. CASE Acc!Next
  BY <1>1, <1>2, <1>3, AccCases, TypeGives, TypeWrite, TypeHandleJoin, TypeBind, TypeNewTenant, TypeNewUser,
     TypeCreateEmployee, TypeCrash, Zenon
<1>4. QED
  BY <1>3, AccTypeStutter

\* Every variable has its type, however many requests are handled at the same time.
THEOREM AccountTypes == ASSUME AtFirst \in SUBSET Employees PROVE Acc!Spec => []Acc!TypeOK
<1>1. Acc!Init => Acc!TypeOK
  BY AccTypeInit
<1>2. Acc!TypeOK /\ [Acc!Next]_Acc!vars => Acc!TypeOK'
  BY AccTypeNext
<1>3. QED
  BY <1>1, <1>2, PTL DEF Acc!Spec

-----------------------------------------------------------------------------
(* Accounts: settings are kept                                             *)

\* Why: a request that will write a column back read the value it still has, or
\* another request has given the column a value since.
ReadIsStored(w, c) ==
    work[w].at = "patch" /\ c \in work[w].sets /\ c \notin DOMAIN work[w].gives /\ <<work[w].row, c>> \notin passed
        => work[w].read[c] = setting[work[w].row][c]

Kept == Acc!SettingsKept /\ \A w \in Workers, c \in Columns : ReadIsStored(w, c)

LEMMA KeptInit == ASSUME Acc!Init PROVE Kept
  BY IdleOK DEF Acc!Init, Kept, Acc!SettingsKept, ReadIsStored

\* A step that leaves the settings alone and begins no request about them.
LEMMA KeptFrame ==
    ASSUME Kept, UNCHANGED Acc!settings, \A v \in Workers : work'[v] = work[v] \/ work'[v].at # "patch"
    PROVE  Kept'
<1>1. UNCHANGED <<setting, gave, passed>>
  BY DEF Acc!settings
<1>2. Acc!SettingsKept'
  BY <1>1 DEF Kept, Acc!SettingsKept
<1>3. ASSUME NEW w \in Workers, NEW c \in Columns PROVE ReadIsStored(w, c)'
  BY <1>1 DEF Kept, ReadIsStored
<1>4. QED
  BY <1>2, <1>3 DEF Kept

LEMMA KeptGives ==
    ASSUME Acc!TypeOK, Kept, NEW w \in Workers, NEW r, NEW statement, NEW gives, Gives(w, r, statement, gives)
    PROVE  Kept'
<1>1. UNCHANGED <<setting, gave, passed>> /\ work'[w] = Patching(r, statement, gives) /\ AccOthers(w)
  BY PatchSteps DEF Acc!settings
<1>2. Acc!SettingsKept'
  BY <1>1 DEF Kept, Acc!SettingsKept
<1>3. ASSUME NEW v \in Workers, NEW c \in Columns PROVE ReadIsStored(v, c)'
  <2>1. CASE v = w
    <3>1. work'[v].read = setting[r] /\ work'[v].row = r
      BY <1>1, <2>1 DEF Patching
    <3>2. QED
      BY <1>1, <3>1 DEF ReadIsStored
  <2>2. CASE v # w
    BY <1>1, <2>2 DEF AccOthers, Kept, ReadIsStored
  <2>3. QED
    BY <2>1, <2>2
<1>4. QED
  BY <1>2, <1>3 DEF Kept

LEMMA KeptWrite == ASSUME Acc!TypeOK, Kept, NEW w \in Workers, Acc!Write(w) PROVE Kept'
<1>1. work[w].at = "patch" /\ Acc!RequestOK(work[w]) /\ work'[w] = Acc!Idle /\ AccOthers(w)
  BY WriteSteps
<1>2. CASE UNCHANGED Acc!settings
  BY <1>1, <1>2, IdleOK, KeptFrame DEF AccOthers
<1>3. CASE setting' = Written(work[w]) /\ gave' = Given(work[w]) /\ passed' = Passed(w, work[w])
  <2> DEFINE i == work[w].row
             gives == DOMAIN work[w].gives
  <2>1. i \in Acc!Rows /\ work[w].sets \in SUBSET Columns /\ gives \in SUBSET work[w].sets
    BY <1>1, AccParts, Columnwise
  <2>2. \A k \in Acc!Rows, c \in Columns :
           /\ setting'[k][c] = IF k = i /\ c \in work[w].sets THEN Acc!Merged(work[w], c) ELSE setting[k][c]
           /\ gave'[k][c] = IF k = i /\ c \in gives THEN work[w].gives[c] ELSE gave[k][c]
    <3>1. \A k \in Acc!Rows, c \in Columns :
             /\ Written(work[w])[k][c] =
                   IF k = work[w].row /\ c \in work[w].sets THEN Acc!Merged(work[w], c) ELSE setting[k][c]
             /\ Given(work[w])[k][c] =
                   IF k = work[w].row /\ c \in DOMAIN work[w].gives THEN work[w].gives[c] ELSE gave[k][c]
      BY <1>1, WrittenColumns
    <3>2. QED
      BY <1>3, <3>1
  <2>3. \A k \in Acc!Rows, c \in Columns :
           <<k, c>> \in passed' <=> IF k = i /\ c \in gives THEN Acc!WritesBack(w, i, c) ELSE <<k, c>> \in passed
    BY <1>3, <2>1 DEF Passed
  <2> HIDE DEF i, gives
  <2>4. Acc!SettingsKept'
    <3> SUFFICES ASSUME NEW k \in Acc!Rows, NEW c \in Columns, <<k, c>> \notin passed'
                 PROVE  setting'[k][c] = gave'[k][c]
      BY DEF Acc!SettingsKept
    <3>1. CASE k = i /\ c \in gives
      BY <2>1, <2>2, <3>1 DEF Acc!Merged, gives
    <3>2. CASE ~ (k = i /\ c \in gives)
      <4>1. <<k, c>> \notin passed /\ setting[k][c] = gave[k][c] /\ gave'[k][c] = gave[k][c]
        BY <2>2, <2>3, <3>2 DEF Kept, Acc!SettingsKept
      <4>2. CASE k = i /\ c \in work[w].sets
        <5>1. c \notin DOMAIN work[w].gives /\ <<work[w].row, c>> \notin passed
          BY <3>2, <4>1, <4>2 DEF i, gives
        <5>2. work[w].read[c] = setting[i][c]
          BY <1>1, <4>2, <5>1 DEF Kept, ReadIsStored, i
        <5>3. Acc!Merged(work[w], c) = work[w].read[c]
          BY <5>1 DEF Acc!Merged
        <5>4. QED
          BY <2>2, <4>1, <4>2, <5>2, <5>3
      <4>3. CASE ~ (k = i /\ c \in work[w].sets)
        BY <2>2, <4>1, <4>3
      <4>4. QED
        BY <4>2, <4>3
    <3>3. QED
      BY <3>1, <3>2
  <2>5. ASSUME NEW v \in Workers, NEW c \in Columns PROVE ReadIsStored(v, c)'
    <3>1. CASE v = w
      BY <1>1, <3>1, IdleOK DEF ReadIsStored
    <3>2. CASE v # w
      <4> SUFFICES ASSUME work[v].at = "patch", c \in work[v].sets, c \notin DOMAIN work[v].gives,
                          <<work[v].row, c>> \notin passed'
                   PROVE  work[v].read[c] = setting'[work[v].row][c]
        BY <1>1, <3>2 DEF AccOthers, ReadIsStored
      <4>1. work[v].row \in Acc!Rows
        BY DEF Acc!TypeOK, Acc!RequestOK
      <4>2. ~ (work[v].row = i /\ c \in gives)
        BY <2>1, <2>3, <3>2, <4>1 DEF Acc!WritesBack
      <4>3. <<work[v].row, c>> \notin passed /\ work[v].read[c] = setting[work[v].row][c]
        BY <2>3, <4>1, <4>2 DEF Kept, ReadIsStored
      <4>4. CASE work[v].row = i /\ c \in work[w].sets
        <5>1. c \notin DOMAIN work[w].gives /\ <<work[w].row, c>> \notin passed
          BY <4>2, <4>3, <4>4 DEF i, gives
        <5>2. Acc!Merged(work[w], c) = setting[i][c]
          BY <1>1, <4>4, <5>1 DEF Kept, ReadIsStored, i, Acc!Merged
        <5>3. QED
          BY <2>2, <4>1, <4>3, <4>4, <5>2
      <4>5. CASE ~ (work[v].row = i /\ c \in work[w].sets)
        BY <2>2, <4>1, <4>3, <4>5
      <4>6. QED
        BY <4>4, <4>5
    <3>3. QED
      BY <3>1, <3>2
  <2>6. QED
    BY <2>4, <2>5 DEF Kept
<1>4. QED
  BY <1>2, <1>3, WriteSteps

LEMMA KeptNext == ASSUME Acc!TypeOK, Kept, [Acc!Next]_Acc!vars PROVE Kept'
<1>1. ASSUME NEW w \in Workers, NEW c \in Chats, NEW e \in Employees, Acc!HandleJoin(w, c, e) PROVE Kept'
  <2>1. work'[w].at # "patch"
    BY <1>1, JoinSteps
  <2>2. AccOthers(w) /\ UNCHANGED Acc!settings
    BY <1>1, JoinSteps
  <2>3. QED
    BY <2>1, <2>2, KeptFrame DEF AccOthers
<1>2. ASSUME NEW w \in Workers, Acc!Bind(w) PROVE Kept'
  BY <1>2, BindSteps, IdleOK, KeptFrame DEF AccOthers
<1>3. ASSUME NEW w \in Workers, NEW m \in Emails \cup Bosses, NEW known \in BOOLEAN, SigningOn(w, m, known)
      PROVE  Kept'
  <2>1. work'[w].at # "patch"
    BY <1>3, SigningOnSteps
  <2>2. AccOthers(w) /\ UNCHANGED Acc!settings
    BY <1>3, SigningOnSteps
  <2>3. QED
    BY <2>1, <2>2, KeptFrame DEF AccOthers
<1>4. ASSUME NEW w \in Workers, Acc!NewTenant(w) PROVE Kept'
  <2>1. work'[w].at # "patch"
    BY <1>4, NewTenantSteps
  <2>2. AccOthers(w) /\ UNCHANGED Acc!settings
    BY <1>4, NewTenantSteps
  <2>3. QED
    BY <2>1, <2>2, KeptFrame DEF AccOthers
<1>5. ASSUME NEW w \in Workers, Acc!NewUser(w) PROVE Kept'
  BY <1>5, NewUserSteps, IdleOK, KeptFrame DEF AccOthers
<1>6. ASSUME NEW e \in Employees, Acc!CreateEmployee(e) PROVE Kept'
  BY <1>6, KeptFrame DEF Acc!CreateEmployee
<1>7. ASSUME Acc!Crash PROVE Kept'
  BY <1>7, AccCrashSteps, IdleOK, KeptFrame
<1>8. CASE UNCHANGED Acc!vars
  BY <1>8, KeptFrame DEF Acc!vars
<1>9. \A b \in Bosses : Acc!GetTenantByBossChatID(b) \in BOOLEAN
  BY DEF Acc!GetTenantByBossChatID
<1>10. CASE Acc!Next
  <2>1. ASSUME NEW w \in Workers, NEW m \in Emails, SigningOn(w, m, user[m] # 0) PROVE Kept'
    BY <1>3, <2>1
  <2>2. ASSUME NEW w \in Workers, NEW b \in Bosses, SigningOn(w, b, Acc!GetTenantByBossChatID(b)) PROVE Kept'
    BY <1>3, <1>9, <2>2
  <2>3. QED
    BY <1>1, <1>2, <1>4, <1>5, <1>6, <1>7, <1>10, <2>1, <2>2, AccCases, KeptGives, KeptWrite, Zenon
<1>11. QED
  BY <1>8, <1>10

\* A setting is what the last answered request gave it, but for requests that
\* overlap, however many there are.
THEOREM SettingsStay == ASSUME AtFirst \in SUBSET Employees PROVE Acc!Spec => []Acc!SettingsKept
<1>1. Acc!Init => Acc!TypeOK /\ Kept
  BY AccTypeInit, KeptInit
<1>2. Acc!TypeOK /\ Kept /\ [Acc!Next]_Acc!vars => (Acc!TypeOK /\ Kept)'
  BY AccTypeNext, KeptNext
<1>3. Kept => Acc!SettingsKept
  BY DEF Kept
<1>4. QED
  BY <1>1, <1>2, <1>3, PTL DEF Acc!Spec

-----------------------------------------------------------------------------
(* Accounts: the welcomed stay                                             *)

\* Why: an employee somebody is joining as has no Telegram user yet, and nobody
\* else is joining as the same, but for employees whose joins overlapped.
Free(w) == work[w].at = "bind" /\ work[w].who \notin contended => telegram[work[w].who] = None
AccAlone(v, w) ==
    v # w /\ work[v].at = "bind" /\ work[w].at = "bind" /\ work[v].who = work[w].who
        => work[v].who \in contended

Joins == (\A w \in Workers : Free(w)) /\ \A v, w \in Workers : AccAlone(v, w)
Bound == Acc!WelcomedStays /\ Joins

LEMMA BoundInit == ASSUME Acc!Init PROVE Bound
  BY IdleOK DEF Acc!Init, Bound, Joins, Acc!WelcomedStays, Free, AccAlone

\* A step that leaves the people alone and begins no join.
LEMMA BoundFrame ==
    ASSUME Bound, UNCHANGED <<telegram, welcomed>>, contended \subseteq contended',
           \A v \in Workers : work'[v] = work[v] \/ work'[v].at # "bind"
    PROVE  Bound'
<1>1. Acc!WelcomedStays'
  BY DEF Bound, Acc!WelcomedStays
<1>2. ASSUME NEW w \in Workers PROVE Free(w)'
  BY DEF Bound, Joins, Free
<1>3. ASSUME NEW v \in Workers, NEW w \in Workers PROVE AccAlone(v, w)'
  BY DEF Bound, Joins, AccAlone
<1>4. QED
  BY <1>1, <1>2, <1>3 DEF Bound, Joins

LEMMA BoundHandleJoin ==
    ASSUME Acc!TypeOK, Bound, NEW w \in Workers, NEW c \in Chats, NEW e \in Employees, Acc!HandleJoin(w, c, e)
    PROVE  Bound'
<1>1. /\ UNCHANGED <<telegram, welcomed>> /\ AccOthers(w)
      /\ work'[w].at = "bind" => work'[w].who = e /\ Acc!GetEmployeeByInviteCode(e)
      /\ contended \subseteq contended' /\ (Acc!Joining(e) => e \in contended')
  BY JoinSteps DEF Acc!people
<1>2. Acc!WelcomedStays'
  BY <1>1 DEF Bound, Acc!WelcomedStays
<1>3. ASSUME NEW v \in Workers PROVE Free(v)'
  <2>1. CASE v = w
    BY <1>1, <2>1 DEF Free, Acc!GetEmployeeByInviteCode
  <2>2. CASE v # w
    BY <1>1, <2>2 DEF Bound, Joins, Free, AccOthers
  <2>3. QED
    BY <2>1, <2>2
<1>4. ASSUME NEW v \in Workers, v # w, work[v].at = "bind", work[v].who = e PROVE e \in contended'
  BY <1>1, <1>4 DEF Acc!Joining
<1>5. ASSUME NEW u \in Workers, NEW v \in Workers PROVE AccAlone(u, v)'
  <2>1. CASE u # w /\ v # w
    BY <1>1, <2>1 DEF Bound, Joins, AccAlone, AccOthers
  <2>2. CASE u = w \/ v = w
    BY <1>1, <1>4, <2>2 DEF AccAlone, AccOthers
  <2>3. QED
    BY <2>1, <2>2
<1>6. QED
  BY <1>2, <1>3, <1>5 DEF Bound, Joins

LEMMA BoundBind == ASSUME None \notin Chats, Acc!TypeOK, Bound, NEW w \in Workers, Acc!Bind(w) PROVE Bound'
<1>1. /\ work[w].at = "bind" /\ work[w].who \in Employees /\ work[w].chat \in Chats
      /\ work'[w].at = "idle" /\ AccOthers(w) /\ contended' = contended
  BY BindSteps, IdleOK
<1>2. CASE UNCHANGED <<telegram, welcomed>>
  BY <1>1, <1>2, BoundFrame DEF AccOthers
<1>3. CASE /\ telegram' = [telegram EXCEPT ![work[w].who] = work[w].chat]
           /\ welcomed' = welcomed \cup {<<work[w].who, work[w].chat>>}
  <2>1. telegram \in [Employees -> Chats \cup {None}] /\ welcomed \in SUBSET (Employees \X Chats)
    BY DEF Acc!TypeOK
  <2>2. \A e \in Employees : telegram'[e] = IF e = work[w].who THEN work[w].chat ELSE telegram[e]
    BY <1>1, <1>3, <2>1
  <2>3. Acc!WelcomedStays'
    <3> SUFFICES ASSUME NEW p \in welcomed', p[1] \notin contended PROVE telegram'[p[1]] = p[2]
      BY <1>1 DEF Acc!WelcomedStays
    <3>1. CASE p = <<work[w].who, work[w].chat>>
      BY <1>1, <2>2, <3>1
    <3>2. CASE p \in welcomed
      <4>1. p[1] \in Employees /\ p[2] \in Chats /\ telegram[p[1]] = p[2]
        BY <2>1, <3>2 DEF Bound, Acc!WelcomedStays
      <4>2. p[1] # work[w].who
        BY <1>1, <4>1 DEF Bound, Joins, Free
      <4>3. QED
        BY <2>2, <4>1, <4>2
    <3>3. QED
      BY <1>3, <3>1, <3>2
  <2>4. ASSUME NEW v \in Workers PROVE Free(v)'
    <3>1. CASE v = w
      BY <1>1, <3>1 DEF Free
    <3>2. CASE v # w
      <4>1. work[v].at = "bind" => work[v].who \in Employees
        BY DEF Acc!TypeOK, Acc!RequestOK
      <4>2. QED
        BY <1>1, <2>2, <3>2, <4>1 DEF Bound, Joins, Free, AccAlone, AccOthers
    <3>3. QED
      BY <3>1, <3>2
  <2>5. ASSUME NEW u \in Workers, NEW v \in Workers PROVE AccAlone(u, v)'
    BY <1>1 DEF Bound, Joins, AccAlone, AccOthers
  <2>6. QED
    BY <2>3, <2>4, <2>5 DEF Bound, Joins
<1>4. QED
  BY <1>2, <1>3, BindSteps

LEMMA BoundNext == ASSUME None \notin Chats, Acc!TypeOK, Bound, [Acc!Next]_Acc!vars PROVE Bound'
<1>1. ASSUME NEW w \in Workers, NEW r, NEW statement, NEW gives, Gives(w, r, statement, gives) PROVE Bound'
  <2>1. /\ UNCHANGED <<telegram, welcomed, contended>> /\ AccOthers(w)
        /\ work'[w] = Patching(r, statement, gives)
    BY <1>1, PatchSteps DEF Acc!people
  <2>2. work'[w].at # "bind"
    BY <2>1 DEF Patching
  <2>3. QED
    BY <2>1, <2>2, BoundFrame DEF AccOthers
<1>2. ASSUME NEW w \in Workers, Acc!Write(w) PROVE Bound'
  BY <1>2, WriteSteps, IdleOK, BoundFrame DEF AccOthers, Acc!people
<1>3. ASSUME NEW w \in Workers, NEW m \in Emails \cup Bosses, NEW known \in BOOLEAN, SigningOn(w, m, known)
      PROVE  Bound'
  <2>1. work'[w].at # "bind" /\ AccOthers(w) /\ UNCHANGED <<telegram, welcomed>> /\ contended \subseteq contended'
    BY <1>3, SigningOnSteps DEF Acc!people
  <2>2. QED
    BY <2>1, BoundFrame DEF AccOthers
<1>4. ASSUME NEW w \in Workers, Acc!NewTenant(w) PROVE Bound'
  <2>1. work'[w].at # "bind" /\ AccOthers(w) /\ UNCHANGED <<telegram, welcomed, contended>>
    BY <1>4, NewTenantSteps DEF Acc!people
  <2>2. QED
    BY <2>1, BoundFrame DEF AccOthers
<1>5. ASSUME NEW w \in Workers, Acc!NewUser(w) PROVE Bound'
  <2>1. work'[w].at # "bind" /\ AccOthers(w) /\ UNCHANGED <<telegram, welcomed>> /\ contended \subseteq contended'
    BY <1>5, NewUserSteps, IdleOK DEF Acc!people
  <2>2. QED
    BY <2>1, BoundFrame DEF AccOthers
<1>6. ASSUME NEW e \in Employees, Acc!CreateEmployee(e) PROVE Bound'
  BY <1>6, BoundFrame DEF Acc!CreateEmployee
<1>7. ASSUME Acc!Crash PROVE Bound'
  BY <1>7, AccCrashSteps, IdleOK, BoundFrame DEF Acc!people
<1>8. CASE UNCHANGED Acc!vars
  BY <1>8, BoundFrame DEF Acc!vars, Acc!people
<1>9. \A b \in Bosses : Acc!GetTenantByBossChatID(b) \in BOOLEAN
  BY DEF Acc!GetTenantByBossChatID
<1>10. CASE Acc!Next
  <2>1. ASSUME NEW w \in Workers, NEW m \in Emails, SigningOn(w, m, user[m] # 0) PROVE Bound'
    BY <1>3, <2>1
  <2>2. ASSUME NEW w \in Workers, NEW b \in Bosses, SigningOn(w, b, Acc!GetTenantByBossChatID(b)) PROVE Bound'
    BY <1>3, <1>9, <2>2
  <2>3. QED
    BY <1>1, <1>2, <1>4, <1>5, <1>6, <1>7, <1>10, <2>1, <2>2, AccCases, BoundHandleJoin, BoundBind, Zenon
<1>11. QED
  BY <1>8, <1>10

\* A Telegram user who was welcomed stays the employee's, but for codes that were
\* sent twice at the same time, whoever joins.
THEOREM WelcomeHolds ==
    ASSUME AtFirst \in SUBSET Employees, None \notin Chats PROVE Acc!Spec => []Acc!WelcomedStays
<1>1. Acc!Init => Acc!TypeOK /\ Bound
  BY AccTypeInit, BoundInit
<1>2. Acc!TypeOK /\ Bound /\ [Acc!Next]_Acc!vars => (Acc!TypeOK /\ Bound)'
  BY AccTypeNext, BoundNext
<1>3. Bound => Acc!WelcomedStays
  BY DEF Bound
<1>4. QED
  BY <1>1, <1>2, <1>3, PTL DEF Acc!Spec

-----------------------------------------------------------------------------
(* Accounts: tenants have bosses                                           *)

\* Why: nobody has two tenants, and who is signing up has none yet, or the one
\* whose user is about to be created; but for people whose sign-ups overlapped or
\* broke off.
At(w) == work[w].at \in {"tenant", "user"}

OneTenant(n, k) == tenant[n] = tenant[k] /\ tenant[n] \notin contended => n = k

HasUser(n) ==
    tenant[n] \in Emails /\ tenant[n] \notin contended =>
        user[tenant[n]] = n \/ \E w \in Workers : work[w].at = "user" /\ work[w].tenant = n

\* A goroutine about to create a tenant, and one about to create its user.
NoneYet(w) ==
    work[w].at = "tenant" /\ work[w].who \notin contended =>
        /\ \A n \in DOMAIN tenant : tenant[n] # work[w].who
        /\ work[w].who \in Emails => user[work[w].who] = 0

UserNext(w) ==
    work[w].at = "user" =>
        /\ work[w].tenant \in DOMAIN tenant /\ tenant[work[w].tenant] = work[w].who
        /\ work[w].who \notin contended => user[work[w].who] = 0

OneSignUp(v, w) == v # w /\ At(v) /\ At(w) /\ work[v].who = work[w].who => work[v].who \in contended

Owned ==
    /\ \A n, k \in DOMAIN tenant : OneTenant(n, k)
    /\ \A n \in DOMAIN tenant : HasUser(n)
    /\ \A w \in Workers : NoneYet(w) /\ UserNext(w)
    /\ \A v, w \in Workers : OneSignUp(v, w)

LEMMA OwnedInit == ASSUME Acc!Init PROVE Owned
<1>1. DOMAIN tenant = {}
  BY DEF Acc!Init
<1>2. \A w \in Workers : work[w].at = "idle"
  BY IdleOK DEF Acc!Init
<1>3. QED
  BY <1>1, <1>2 DEF Owned, OneTenant, HasUser, NoneYet, UserNext, OneSignUp, At

\* A step that leaves the companies alone and neither begins nor ends a sign-up.
LEMMA OwnedFrame ==
    ASSUME Owned, UNCHANGED <<tenant, user>>, contended \subseteq contended',
           \A v \in Workers : work'[v] = work[v] \/ (~ At(v) /\ work'[v].at \notin {"tenant", "user"})
    PROVE  Owned'
<1>1. \A n, k \in DOMAIN tenant' : OneTenant(n, k)'
  BY DEF Owned, OneTenant
<1>2. ASSUME NEW n \in DOMAIN tenant PROVE HasUser(n)'
  BY DEF Owned, HasUser, At
<1>3. ASSUME NEW w \in Workers PROVE NoneYet(w)' /\ UserNext(w)'
  BY DEF Owned, NoneYet, UserNext, At
<1>4. ASSUME NEW v \in Workers, NEW w \in Workers PROVE OneSignUp(v, w)'
  BY DEF Owned, OneSignUp, At
<1>5. QED
  BY <1>1, <1>2, <1>3, <1>4 DEF Owned

\* Somebody who is known to have no tenant signs up.
LEMMA OwnedSigningOn ==
    ASSUME Emails \cap Bosses = {}, Acc!TypeOK, Owned, NEW w \in Workers, NEW m \in Emails \cup Bosses,
           NEW known \in BOOLEAN, SigningOn(w, m, known),
           m \in Emails /\ ~ known => user[m] = 0,
           m \in Bosses /\ ~ known => \A n \in DOMAIN tenant : tenant[n] # m
    PROVE  Owned'
<1>1. /\ UNCHANGED <<tenant, user>> /\ work[w].at = "idle" /\ AccOthers(w) /\ contended \subseteq contended'
      /\ Acc!SigningUp(m) => m \in contended'
      /\ IF known THEN work'[w].at = "idle" ELSE work'[w].at = "tenant" /\ work'[w].who = m
  BY SigningOnSteps DEF Acc!companies
<1>2. CASE known
  BY <1>1, <1>2, OwnedFrame DEF AccOthers, At
<1>3. CASE ~ known
  <2>1. \A n, k \in DOMAIN tenant' : OneTenant(n, k)'
    BY <1>1 DEF Owned, OneTenant
  <2>2. ASSUME NEW n \in DOMAIN tenant PROVE HasUser(n)'
    BY <1>1 DEF Owned, HasUser, AccOthers
  <2>3. ASSUME m \notin contended' PROVE \A n \in DOMAIN tenant : tenant[n] # m
    <3>1. CASE m \in Bosses
      BY <1>3, <3>1
    <3>2. CASE m \in Emails
      <4> SUFFICES ASSUME NEW n \in DOMAIN tenant, tenant[n] = m PROVE FALSE
        OBVIOUS
      <4>1. user[m] = 0 /\ n # 0
        <5>1. DOMAIN tenant = 1 .. Len(tenant)
          BY DEF Acc!TypeOK
        <5>2. QED
          BY <1>3, <3>2, <5>1
      <4>2. PICK v \in Workers : work[v].at = "user" /\ work[v].tenant = n
        BY <1>1, <2>3, <3>2, <4>1 DEF Owned, HasUser
      <4>3. work[v].who = m
        BY <4>2 DEF Owned, UserNext
      <4>4. QED
        BY <1>1, <2>3, <4>2, <4>3 DEF Acc!SigningUp
    <3>3. QED
      BY <3>1, <3>2
  <2>4. ASSUME NEW v \in Workers PROVE NoneYet(v)' /\ UserNext(v)'
    <3>1. CASE v = w
      BY <1>1, <1>3, <2>3, <3>1 DEF NoneYet, UserNext
    <3>2. CASE v # w
      BY <1>1, <3>2 DEF Owned, NoneYet, UserNext, AccOthers
    <3>3. QED
      BY <3>1, <3>2
  <2>5. ASSUME NEW v \in Workers, v # w, At(v), work[v].who = m PROVE m \in contended'
    BY <1>1, <2>5 DEF Acc!SigningUp, At
  <2>6. ASSUME NEW u \in Workers, NEW v \in Workers PROVE OneSignUp(u, v)'
    <3>1. CASE u # w /\ v # w
      BY <1>1, <3>1 DEF Owned, OneSignUp, At, AccOthers
    <3>2. CASE u = w \/ v = w
      BY <1>1, <1>3, <2>5, <3>2 DEF OneSignUp, At, AccOthers
    <3>3. QED
      BY <3>1, <3>2
  <2>7. QED
    BY <1>1, <2>1, <2>2, <2>4, <2>6 DEF Owned
<1>4. QED
  BY <1>2, <1>3

LEMMA OwnedNewTenant == ASSUME Acc!TypeOK, Owned, NEW w \in Workers, Acc!NewTenant(w) PROVE Owned'
<1>1. /\ work[w].at = "tenant" /\ work[w].who \in Emails \cup Bosses /\ AccOthers(w)
      /\ UNCHANGED <<user, contended>>
  BY NewTenantSteps
<1>2. CASE work'[w].at = "idle" /\ tenant' = tenant
  <2>1. \A n, k \in DOMAIN tenant' : OneTenant(n, k)'
    BY <1>1, <1>2 DEF Owned, OneTenant
  <2>2. ASSUME NEW n \in DOMAIN tenant PROVE HasUser(n)'
    BY <1>1, <1>2 DEF Owned, HasUser, AccOthers
  <2>3. ASSUME NEW v \in Workers PROVE NoneYet(v)' /\ UserNext(v)'
    BY <1>1, <1>2 DEF Owned, NoneYet, UserNext, AccOthers
  <2>4. ASSUME NEW u \in Workers, NEW v \in Workers PROVE OneSignUp(u, v)'
    BY <1>1, <1>2 DEF Owned, OneSignUp, At, AccOthers
  <2>5. QED
    BY <1>2, <2>1, <2>2, <2>3, <2>4 DEF Owned
<1>3. CASE /\ tenant' = Append(tenant, work[w].who)
           /\ IF work[w].who \in Emails
              THEN /\ work'[w].at = "user" /\ work'[w].who = work[w].who
                   /\ work'[w].tenant = Len(tenant) + 1
              ELSE work'[w].at = "idle"
  <2>1. PICK m \in Emails \cup Bosses : m = work[w].who
    BY <1>1
  <2>2. PICK last \in Nat \ {0} : last = Len(tenant) + 1
    BY DEF Acc!TypeOK
  <2>3. /\ DOMAIN tenant' = DOMAIN tenant \cup {last} /\ last \notin DOMAIN tenant
        /\ tenant'[last] = m /\ \A n \in DOMAIN tenant : tenant'[n] = tenant[n]
    <3>1. tenant \in Seq(Emails \cup Bosses) /\ tenant' = Append(tenant, m)
      BY <1>3, <2>1 DEF Acc!TypeOK
    <3>2. QED
      BY <2>2, <3>1
  <2>4. m \notin contended => /\ \A n \in DOMAIN tenant : tenant[n] # m
                              /\ m \in Emails => user[m] = 0
    BY <1>1, <2>1 DEF Owned, NoneYet
  <2>5. IF m \in Emails THEN work'[w].at = "user" /\ work'[w].who = m /\ work'[w].tenant = last
        ELSE work'[w].at = "idle"
    BY <1>3, <2>1, <2>2
  <2>6. ASSUME NEW n \in DOMAIN tenant', NEW k \in DOMAIN tenant' PROVE OneTenant(n, k)'
    BY <1>1, <2>3, <2>4 DEF Owned, OneTenant
  <2>7. ASSUME NEW n \in DOMAIN tenant' PROVE HasUser(n)'
    <3>1. CASE n = last
      BY <2>3, <2>5, <3>1 DEF HasUser
    <3>2. CASE n \in DOMAIN tenant
      BY <1>1, <2>3, <3>2 DEF Owned, HasUser, AccOthers
    <3>3. QED
      BY <2>3, <3>1, <3>2
  <2>8. ASSUME NEW v \in Workers PROVE NoneYet(v)' /\ UserNext(v)'
    <3>1. CASE v = w
      BY <1>1, <2>3, <2>4, <2>5, <3>1 DEF NoneYet, UserNext
    <3>2. CASE v # w
      <4>1. UserNext(v)'
        BY <1>1, <2>3, <3>2 DEF Owned, UserNext, AccOthers
      <4>2. work[v].at = "tenant" /\ work[v].who = m => m \in contended
        BY <1>1, <2>1, <3>2 DEF Owned, OneSignUp, At
      <4>3. NoneYet(v)'
        BY <1>1, <2>3, <3>2, <4>2 DEF Owned, NoneYet, AccOthers
      <4>4. QED
        BY <4>1, <4>3
    <3>3. QED
      BY <3>1, <3>2
  <2>9. ASSUME NEW u \in Workers, NEW v \in Workers PROVE OneSignUp(u, v)'
    <3>1. work'[w].at \in {"tenant", "user"} => At(w) /\ work'[w].who = work[w].who
      BY <1>1, <2>1, <2>5 DEF At
    <3>2. QED
      BY <1>1, <3>1 DEF Owned, OneSignUp, At, AccOthers
  <2>10. QED
    BY <2>6, <2>7, <2>8, <2>9 DEF Owned
<1>4. QED
  BY <1>2, <1>3, NewTenantSteps

LEMMA OwnedNewUser == ASSUME Acc!TypeOK, Owned, NEW w \in Workers, Acc!NewUser(w) PROVE Owned'
<1>1. /\ work[w].at = "user" /\ work[w].who \in Emails /\ work'[w].at = "idle" /\ AccOthers(w)
      /\ tenant' = tenant /\ contended \subseteq contended' /\ user \in [Emails -> Nat]
  BY NewUserSteps, IdleOK DEF Acc!TypeOK
<1>2. PICK m \in Emails : m = work[w].who
  BY <1>1
<1>3. PICK n \in DOMAIN tenant : n = work[w].tenant /\ tenant[n] = m
  BY <1>1, <1>2 DEF Owned, UserNext
<1>4. m \notin contended => user[m] = 0
  BY <1>1, <1>2 DEF Owned, UserNext
<1>5. /\ \A k \in Emails : k # m => user'[k] = user[k]
      /\ m \notin contended' => user'[m] = n
  BY <1>1, <1>2, <1>3, <1>4, NewUserSteps
<1>6. \A k, l \in DOMAIN tenant' : OneTenant(k, l)'
  BY <1>1 DEF Owned, OneTenant
<1>7. ASSUME NEW k \in DOMAIN tenant PROVE HasUser(k)'
  <2> SUFFICES ASSUME tenant[k] \in Emails, tenant[k] \notin contended'
               PROVE  user'[tenant[k]] = k \/ \E v \in Workers : work'[v].at = "user" /\ work'[v].tenant = k
    BY <1>1 DEF HasUser
  <2>1. CASE tenant[k] = m
    <3>1. k = n
      BY <1>1, <1>3, <2>1 DEF Owned, OneTenant
    <3>2. QED
      BY <1>5, <2>1, <3>1
  <2>2. CASE tenant[k] # m
    BY <1>1, <1>3, <1>5, <2>2 DEF Owned, HasUser, AccOthers
  <2>3. QED
    BY <2>1, <2>2
<1>8. ASSUME NEW v \in Workers PROVE NoneYet(v)' /\ UserNext(v)'
  <2>1. CASE v = w
    BY <1>1, <2>1 DEF NoneYet, UserNext
  <2>2. CASE v # w
    <3>1. At(v) => Acc!RequestOK(work[v]) /\ (work[v].who = m => m \in contended)
      BY <1>1, <1>2, <2>2 DEF Owned, OneSignUp, At, Acc!TypeOK
    <3>2. work[v].at = "user" => work[v].who \in Emails
      BY <3>1 DEF At, Acc!RequestOK
    <3>3. QED
      BY <1>1, <1>5, <2>2, <3>1, <3>2 DEF Owned, NoneYet, UserNext, AccOthers, At
  <2>3. QED
    BY <2>1, <2>2
<1>9. ASSUME NEW u \in Workers, NEW v \in Workers PROVE OneSignUp(u, v)'
  BY <1>1 DEF Owned, OneSignUp, At, AccOthers
<1>10. QED
  BY <1>1, <1>6, <1>7, <1>8, <1>9 DEF Owned

LEMMA OwnedCrash == ASSUME Acc!TypeOK, Owned, Acc!Crash PROVE Owned'
<1>1. /\ UNCHANGED <<tenant, user>> /\ contended \subseteq contended' /\ \A w \in Workers : work'[w].at = "idle"
      /\ \A w \in Workers : work[w].at = "user" => work[w].who \in contended'
  BY AccCrashSteps, IdleOK DEF Acc!companies
<1>2. ASSUME NEW n \in DOMAIN tenant PROVE HasUser(n)'
  BY <1>1 DEF Owned, HasUser, UserNext
<1>3. QED
  BY <1>1, <1>2 DEF Owned, OneTenant, NoneYet, UserNext, OneSignUp, At

LEMMA OwnedNext == ASSUME Emails \cap Bosses = {}, Acc!TypeOK, Owned, [Acc!Next]_Acc!vars PROVE Owned'
<1>1. ASSUME NEW w \in Workers, NEW r, NEW statement, NEW gives, Gives(w, r, statement, gives) PROVE Owned'
  <2>1. /\ UNCHANGED <<tenant, user, contended>> /\ AccOthers(w)
        /\ work'[w] = Patching(r, statement, gives) /\ work[w].at = "idle"
    BY <1>1, PatchSteps, IdleOK DEF Acc!companies, Gives, Acc!Patch, Acc!Begins
  <2>2. work'[w].at \notin {"tenant", "user"}
    BY <2>1 DEF Patching
  <2>3. QED
    BY <2>1, <2>2, OwnedFrame DEF AccOthers, At
<1>2. ASSUME NEW w \in Workers, Acc!Write(w) PROVE Owned'
  BY <1>2, WriteSteps, IdleOK, OwnedFrame DEF AccOthers, Acc!companies, At
<1>3. ASSUME NEW w \in Workers, NEW c \in Chats, NEW e \in Employees, Acc!HandleJoin(w, c, e) PROVE Owned'
  <2>1. work[w].at = "idle"
    BY <1>3, IdleOK DEF Acc!HandleJoin, Acc!Begins
  <2>2. /\ work'[w].at \notin {"tenant", "user"} /\ AccOthers(w) /\ UNCHANGED <<tenant, user>>
        /\ contended \subseteq contended'
    BY <1>3, JoinSteps DEF Acc!companies
  <2>3. QED
    BY <2>1, <2>2, OwnedFrame DEF AccOthers, At
<1>4. ASSUME NEW w \in Workers, Acc!Bind(w) PROVE Owned'
  BY <1>4, BindSteps, IdleOK, OwnedFrame DEF AccOthers, Acc!companies, At
<1>5. ASSUME NEW w \in Workers, NEW m \in Emails, SigningOn(w, m, user[m] # 0) PROVE Owned'
  BY <1>5, OwnedSigningOn
<1>6. ASSUME NEW w \in Workers, NEW b \in Bosses, SigningOn(w, b, Acc!GetTenantByBossChatID(b)) PROVE Owned'
  <2>1. Acc!GetTenantByBossChatID(b) \in BOOLEAN
    BY DEF Acc!GetTenantByBossChatID
  <2>2. ~ Acc!GetTenantByBossChatID(b) => \A n \in DOMAIN tenant : tenant[n] # b
    BY DEF Acc!GetTenantByBossChatID
  <2>3. QED
    BY <1>6, <2>1, <2>2, OwnedSigningOn
<1>7. ASSUME NEW e \in Employees, Acc!CreateEmployee(e) PROVE Owned'
  BY <1>7, OwnedFrame DEF Acc!CreateEmployee, Acc!companies
<1>8. CASE UNCHANGED Acc!vars
  BY <1>8, OwnedFrame DEF Acc!vars, Acc!companies
<1>9. CASE Acc!Next
  BY <1>1, <1>2, <1>3, <1>4, <1>5, <1>6, <1>7, <1>9, AccCases, OwnedNewTenant, OwnedNewUser, OwnedCrash, Zenon
<1>10. QED
  BY <1>8, <1>9

\* No tenant is without its boss, but for sign-ups of one person that overlapped
\* or broke off, whoever signs up.
THEOREM TenantsOwned ==
    ASSUME AtFirst \in SUBSET Employees, Emails \cap Bosses = {} PROVE Acc!Spec => []Acc!TenantsHaveBosses
<1>1. Acc!Init => Acc!TypeOK /\ Owned
  BY AccTypeInit, OwnedInit
<1>2. Acc!TypeOK /\ Owned /\ [Acc!Next]_Acc!vars => (Acc!TypeOK /\ Owned)'
  BY AccTypeNext, OwnedNext
<1>3. Acc!TypeOK /\ Owned => Acc!TenantsHaveBosses
  <2> SUFFICES ASSUME Acc!TypeOK, Owned, NEW n \in DOMAIN tenant, tenant[n] \notin contended
               PROVE  \/ tenant[n] \in Emails /\ user[tenant[n]] = n
                      \/ tenant[n] \in Emails /\ \E w \in Workers : work[w].at = "user" /\ work[w].tenant = n
                      \/ tenant[n] \in Bosses /\ \A k \in DOMAIN tenant : tenant[k] = tenant[n] => k = n
    BY DEF Acc!TenantsHaveBosses
  <2>1. tenant[n] \in Emails \cup Bosses
    BY DEF Acc!TypeOK
  <2>2. CASE tenant[n] \in Emails
    BY <2>2 DEF Owned, HasUser
  <2>3. CASE tenant[n] \in Bosses
    BY <2>3 DEF Owned, OneTenant
  <2>4. QED
    BY <2>1, <2>2, <2>3
<1>4. QED
  BY <1>1, <1>2, <1>3, PTL DEF Acc!Spec

-----------------------------------------------------------------------------
(* Signals: types                                                          *)

\* A webhook is about somebody, and so is what is known of the employees.
Bodies == Known \in Seq(Sig!Identity) /\ \A k \in Webhooks : Body[k].of \in Seq(Sig!Identity) \ {<<>>}

\* Where a delivery resolves its employee and stores the row.
Middle == {"by id", "by no", "link", "create", "store"}
InDelivery == Middle \cup {"check", "record"}
InEngine == {"employees", "subject", "signal", "context"}

Deliveries == [at : InDelivery, key : Webhooks, n : Nat, who : Nat]
Jobs == [at : InEngine, key : {"job"}, todo : SUBSET Nat, who : Nat]
Extractions == [at : {"extract"}, key : Reports]
Works == Deliveries \cup Jobs \cup Extractions \cup {Sig!Idle}

LEMMA AtFields ==
    /\ \A r \in Deliveries : r.at \in InDelivery /\ r.key \in Webhooks /\ r.n \in Nat /\ r.who \in Nat
    /\ \A r \in Jobs \cup Extractions \cup {Sig!Idle} : r.at \notin InDelivery
    /\ \A r \in Jobs : r.at \in InEngine /\ r.todo \in SUBSET Nat
    /\ \A r \in Extractions \cup {Sig!Idle} : r.at \notin InEngine
    /\ Sig!Idle.at = "idle"
<1>1. \A r \in Deliveries : r.at \in InDelivery /\ r.key \in Webhooks /\ r.n \in Nat /\ r.who \in Nat
  BY DEF Deliveries
<1>2. \A r \in Jobs : r.at \in InEngine /\ r.todo \in SUBSET Nat
  BY DEF Jobs
<1>3. \A r \in Extractions : r.at = "extract"
  BY DEF Extractions
<1>4. Sig!Idle.at = "idle"
  BY DEF Sig!Idle
<1>5. \A x \in InEngine : x \notin InDelivery
  BY DEF InDelivery, Middle, InEngine
<1>6. {"extract", "idle"} \cap (InDelivery \cup InEngine) = {}
  BY DEF InDelivery, Middle, InEngine
<1>7. QED
  BY <1>1, <1>2, <1>3, <1>4, <1>5, <1>6

SigWorkOK == work \in [Workers -> Works]

\* The place of a delivery is one of its body, the first at the beginning.
PlaceOK(w) ==
    /\ work[w].at \in InDelivery => work[w].n \in DOMAIN Body[work[w].key].of
    /\ work[w].at = "check" => work[w].n = 1

AppliedOK ==
    /\ applied = [k \in Webhooks |-> applied[k]]
    /\ \A k \in Webhooks : applied[k] \in [DOMAIN Body[k].of -> Nat]

TypeInv ==
    /\ employee \in Seq(Sig!Identity) /\ recorded \in SUBSET Webhooks /\ SigWorkOK /\ AppliedOK
    /\ \A w \in Workers : PlaceOK(w)

LEMMA InDeliveries ==
    ASSUME SigWorkOK, NEW w \in Workers, work[w].at \in InDelivery
    PROVE  work[w] \in Deliveries
<1>1. work[w] \in Works
  BY DEF SigWorkOK
<1>2. QED
  BY <1>1, AtFields DEF Works

LEMMA InJobs ==
    ASSUME SigWorkOK, NEW w \in Workers, work[w].at \in InEngine
    PROVE  work[w] \in Jobs
<1>1. work[w] \in Works /\ work[w].at \notin InDelivery
  BY DEF SigWorkOK, InEngine, InDelivery, Middle
<1>2. QED
  BY <1>1, AtFields DEF Works

\* The other goroutines stay at what they do.
SigOthers(w) == \A v \in Workers : v # w => work'[v] = work[v]

LEMMA SigSteps ==
    ASSUME SigWorkOK, NEW w \in Workers, NEW r \in Works, Sig!Does(w, r)
    PROVE  SigWorkOK' /\ work'[w] = r /\ SigOthers(w)
  BY DEF SigWorkOK, Sig!Does, SigOthers

\* What a step makes of a delivery.
LEMMA Going ==
    ASSUME NEW r \in Deliveries, NEW at \in InDelivery
    PROVE  /\ [r EXCEPT !.at = at] \in Deliveries /\ [r EXCEPT !.at = at].at = at
           /\ [r EXCEPT !.at = at].key = r.key /\ [r EXCEPT !.at = at].n = r.n
  BY DEF Deliveries

LEMMA GoingOn ==
    ASSUME NEW r \in Deliveries
    PROVE  /\ Sig!Onward(r) \in Deliveries /\ Sig!Onward(r).key = r.key
           /\ IF r.n < Len(Body[r.key].of) THEN Sig!Onward(r).at = "by id" /\ Sig!Onward(r).n = r.n + 1
              ELSE Sig!Onward(r).at = "record" /\ Sig!Onward(r).n = r.n
<1>1. r.n + 1 \in Nat
  BY DEF Deliveries
<1>2. /\ [r EXCEPT !.at = "by id", !.n = r.n + 1] \in Deliveries
      /\ [r EXCEPT !.at = "by id", !.n = r.n + 1].at = "by id"
      /\ [r EXCEPT !.at = "by id", !.n = r.n + 1].key = r.key
      /\ [r EXCEPT !.at = "by id", !.n = r.n + 1].n = r.n + 1
  BY <1>1 DEF Deliveries, InDelivery, Middle
<1>3. /\ [r EXCEPT !.at = "record"] \in Deliveries /\ [r EXCEPT !.at = "record"].at = "record"
      /\ [r EXCEPT !.at = "record"].key = r.key /\ [r EXCEPT !.at = "record"].n = r.n
  BY Going DEF InDelivery
<1>4. CASE r.n < Len(Body[r.key].of)
  <2>1. Sig!Onward(r) = [r EXCEPT !.at = "by id", !.n = r.n + 1]
    BY <1>4 DEF Sig!Onward
  <2>2. QED
    BY <1>2, <1>4, <2>1
<1>5. CASE ~ (r.n < Len(Body[r.key].of))
  <2>1. Sig!Onward(r) = [r EXCEPT !.at = "record"]
    BY <1>5 DEF Sig!Onward
  <2>2. QED
    BY <1>3, <1>5, <2>1
<1>6. QED
  BY <1>4, <1>5

-----------------------------------------------------------------------------
(* Signals: steps                                                          *)

\* A delivery goes on at its place, or leaves it behind: it has stored the row, or
\* dropped it.
Leaves(w) ==
    IF work[w].n < Len(Body[work[w].key].of)
    THEN work'[w].at = "by id" /\ work'[w].n = work[w].n + 1
    ELSE work'[w].at = "record" /\ work'[w].n = work[w].n

Hop(w) ==
    /\ work[w].at \in Middle /\ work[w] \in Deliveries /\ work'[w] \in Deliveries
    /\ SigWorkOK' /\ SigOthers(w)
    /\ UNCHANGED <<recorded, disturbed>> /\ dropped \subseteq dropped'
    /\ work'[w].key = work[w].key
    /\ \/ work'[w].at \in Middle /\ work'[w].n = work[w].n /\ UNCHANGED applied
       \/ Leaves(w) /\ UNCHANGED applied /\ <<work[w].key, work[w].n>> \in dropped'
       \/ Leaves(w) /\ applied' = [applied EXCEPT ![work[w].key][work[w].n] = @ + 1]

LEMMA Carries ==
    ASSUME SigWorkOK, NEW w \in Workers, work[w].at \in Middle, NEW at \in Middle,
           Sig!Does(w, [work[w] EXCEPT !.at = at]), UNCHANGED <<recorded, applied, disturbed, dropped>>
    PROVE  Hop(w)
<1>1. work[w] \in Deliveries /\ at \in InDelivery
  BY InDeliveries DEF InDelivery
<1> DEFINE r == [work[w] EXCEPT !.at = at]
<1>2. r \in Deliveries /\ r.at = at /\ r.key = work[w].key /\ r.n = work[w].n
  BY <1>1, Going
<1>3. Sig!Does(w, r) /\ r \in Works
  BY <1>2 DEF Works
<1> HIDE DEF r
<1>4. SigWorkOK' /\ work'[w] = r /\ SigOthers(w)
  BY <1>3, SigSteps
<1>5. QED
  BY <1>1, <1>2, <1>4 DEF Hop

LEMMA CarriesWith ==
    ASSUME SigWorkOK, NEW w \in Workers, work[w].at \in Middle, NEW at \in Middle, NEW i \in Nat,
           Sig!Does(w, [work[w] EXCEPT !.at = at, !.who = i]), UNCHANGED <<recorded, applied, disturbed, dropped>>
    PROVE  Hop(w)
<1>1. work[w] \in Deliveries /\ at \in InDelivery
  BY InDeliveries DEF InDelivery
<1>2. PICK r \in Deliveries : /\ r = [work[w] EXCEPT !.at = at, !.who = i]
                             /\ r.at = at /\ r.key = work[w].key /\ r.n = work[w].n
  <2>1. PICK q \in Deliveries : q = work[w]
    BY <1>1
  <2>2. /\ [q EXCEPT !.at = at, !.who = i] \in Deliveries /\ [q EXCEPT !.at = at, !.who = i].at = at
        /\ [q EXCEPT !.at = at, !.who = i].key = q.key /\ [q EXCEPT !.at = at, !.who = i].n = q.n
    <3>1. at \in InDelivery
      BY <1>1
    <3>2. QED
      BY <3>1 DEF Deliveries
  <2>3. QED
    BY <2>1, <2>2
<1>3. Sig!Does(w, r) /\ r \in Works
  BY <1>2 DEF Works
<1>4. SigWorkOK' /\ work'[w] = r /\ SigOthers(w)
  BY <1>3, SigSteps
<1>5. QED
  BY <1>1, <1>2, <1>4 DEF Hop

LEMMA LeavesBehind ==
    ASSUME SigWorkOK, NEW w \in Workers, work[w].at \in Middle, Sig!Does(w, Sig!Onward(work[w])),
           UNCHANGED <<recorded, disturbed>>, dropped \subseteq dropped',
           \/ UNCHANGED applied /\ <<work[w].key, work[w].n>> \in dropped'
           \/ applied' = [applied EXCEPT ![work[w].key][work[w].n] = @ + 1]
    PROVE  Hop(w)
<1>1. work[w] \in Deliveries
  BY InDeliveries DEF InDelivery
<1>2. PICK r \in Deliveries : r = Sig!Onward(work[w])
  BY <1>1, GoingOn
<1>3. r.key = work[w].key /\ IF work[w].n < Len(Body[work[w].key].of)
                             THEN r.at = "by id" /\ r.n = work[w].n + 1
                             ELSE r.at = "record" /\ r.n = work[w].n
  BY <1>1, <1>2, GoingOn
<1>4. SigWorkOK' /\ work'[w] = r /\ SigOthers(w)
  BY <1>2, SigSteps DEF Works
<1>5. Leaves(w)
  BY <1>3, <1>4 DEF Leaves
<1>6. QED
  BY <1>1, <1>3, <1>4, <1>5 DEF Hop

LEMMA FailsHops ==
    ASSUME SigWorkOK, NEW w \in Workers, work[w].at \in Middle, Sig!Fails(w), UNCHANGED <<recorded, applied, disturbed>>
    PROVE  Hop(w)
  BY LeavesBehind DEF Sig!Fails

LEMMA IdsNat == ASSUME employee \in Seq(Sig!Identity) PROVE Sig!Ids \subseteq Nat /\ Len(employee) + 1 \in Nat
  BY DEF Sig!Ids

LEMMA ResolveByIdHops ==
    ASSUME TypeInv, NEW w \in Workers, Sig!ResolveById(w)
    PROVE  Hop(w) /\ employee' = employee
<1>1. work[w].at \in Middle /\ SigWorkOK /\ UNCHANGED <<employee, recorded, applied, disturbed>>
  BY DEF Sig!ResolveById, Middle, TypeInv, Sig!tables
<1>2. CASE Sig!Fails(w)
  BY <1>1, <1>2, FailsHops
<1>3. ASSUME UNCHANGED dropped, NEW i \in Sig!GetEmployeeByHalaOSID(Sig!Place(w).id),
             Sig!Does(w, [work[w] EXCEPT !.at = "store", !.who = i])
      PROVE  Hop(w)
  <2>1. i \in Nat /\ "store" \in Middle
    BY IdsNat DEF TypeInv, Sig!GetEmployeeByHalaOSID, Middle
  <2>2. QED
    BY <1>1, <1>3, <2>1, CarriesWith
<1>4. CASE UNCHANGED dropped /\ Sig!Does(w, [work[w] EXCEPT !.at = IF Sig!Place(w).no # 0 THEN "by no" ELSE "create"])
  <2>1. PICK at \in Middle : at = IF Sig!Place(w).no # 0 THEN "by no" ELSE "create"
    BY DEF Middle
  <2>2. Sig!Does(w, [work[w] EXCEPT !.at = at])
    BY <1>4, <2>1
  <2>3. QED
    BY <1>1, <1>4, <2>2, Carries
<1>5. QED
  BY <1>1, <1>2, <1>3, <1>4, Zenon DEF Sig!ResolveById

LEMMA ResolveByNoHops ==
    ASSUME TypeInv, NEW w \in Workers, Sig!ResolveByNo(w)
    PROVE  Hop(w) /\ employee' = employee
<1>1. work[w].at \in Middle /\ SigWorkOK /\ UNCHANGED <<employee, recorded, applied, disturbed>>
  BY DEF Sig!ResolveByNo, Middle, TypeInv, Sig!tables
<1>2. CASE Sig!Fails(w)
  BY <1>1, <1>2, FailsHops
<1>3. ASSUME UNCHANGED dropped, NEW i \in Sig!GetEmployeeByHalaOSNo(Sig!Place(w).no),
             Sig!Does(w, [work[w] EXCEPT !.at = IF Sig!Place(w).id # 0 THEN "link" ELSE "store", !.who = i])
      PROVE  Hop(w)
  <2>1. i \in Nat
    BY IdsNat DEF TypeInv, Sig!GetEmployeeByHalaOSNo
  <2>2. PICK at \in Middle : at = IF Sig!Place(w).id # 0 THEN "link" ELSE "store"
    BY DEF Middle
  <2>3. Sig!Does(w, [work[w] EXCEPT !.at = at, !.who = i])
    BY <1>3, <2>2
  <2>4. QED
    BY <1>1, <1>3, <2>1, <2>3, CarriesWith
<1>4. CASE UNCHANGED dropped /\ Sig!Does(w, [work[w] EXCEPT !.at = "create"])
  <2>1. "create" \in Middle
    BY DEF Middle
  <2>2. QED
    BY <1>1, <1>4, <2>1, Carries
<1>5. QED
  BY <1>1, <1>2, <1>3, <1>4, Zenon DEF Sig!ResolveByNo

\* The person the delivery is about.
LEMMA PlaceType ==
    ASSUME Bodies, TypeInv, NEW w \in Workers, work[w].at \in Middle
    PROVE  Sig!Place(w) \in Sig!Identity
<1>1. work[w].key \in Webhooks /\ work[w].n \in DOMAIN Body[work[w].key].of
  BY InDeliveries, AtFields DEF TypeInv, PlaceOK, InDelivery
<1>2. Body[work[w].key].of \in Seq(Sig!Identity)
  BY <1>1 DEF Bodies
<1>3. QED
  BY <1>1, <1>2 DEF Sig!Place

LEMMA LinkEmployeeHops ==
    ASSUME Bodies, TypeInv, NEW w \in Workers, Sig!LinkEmployee(w)
    PROVE  Hop(w) /\ employee' \in Seq(Sig!Identity)
<1>1. /\ work[w].at \in Middle /\ SigWorkOK /\ "store" \in Middle
      /\ UNCHANGED <<recorded, applied, disturbed, dropped>> /\ Sig!Does(w, [work[w] EXCEPT !.at = "store"])
  BY DEF Sig!LinkEmployee, Middle, TypeInv, Sig!ghosts
<1>2. Hop(w)
  BY <1>1, Carries
<1>3. PICK h \in Sig!Identity : h = Sig!Place(w)
  BY <1>1, PlaceType
<1>4. employee' \in {employee, [employee EXCEPT ![work[w].who] = h]}
  BY <1>3 DEF Sig!LinkEmployee, Sig!UpdateEmployeeHalaOSLink
<1>5. employee \in Seq(Sig!Identity)
  BY DEF TypeInv
<1>6. [employee EXCEPT ![work[w].who] = h] \in Seq(Sig!Identity)
  <2>1. employee \in [1 .. Len(employee) -> Sig!Identity] /\ Len(employee) \in Nat
    BY <1>5
  <2>2. [employee EXCEPT ![work[w].who] = h] \in [1 .. Len(employee) -> Sig!Identity]
    BY <2>1
  <2>3. QED
    BY <2>1, <2>2
<1>7. QED
  BY <1>2, <1>4, <1>5, <1>6

LEMMA CreateEmployeeHops ==
    ASSUME Bodies, TypeInv, NEW w \in Workers, Sig!CreateEmployee(w)
    PROVE  Hop(w) /\ employee' \in Seq(Sig!Identity)
<1>1. work[w].at \in Middle /\ SigWorkOK /\ "store" \in Middle /\ UNCHANGED <<recorded, applied, disturbed>>
  BY DEF Sig!CreateEmployee, Middle, TypeInv
<1>2. CASE UNCHANGED employee /\ Sig!Fails(w)
  BY <1>1, <1>2, FailsHops DEF TypeInv
<1>3. CASE /\ employee' = Sig!CreateEmployeeFromHalaOS(Sig!Place(w)) /\ UNCHANGED dropped
           /\ Sig!Does(w, [work[w] EXCEPT !.at = "store", !.who = Len(employee) + 1])
  <2>1. PICK i \in Nat : i = Len(employee) + 1
    BY IdsNat DEF TypeInv
  <2>2. Sig!Does(w, [work[w] EXCEPT !.at = "store", !.who = i])
    BY <1>3, <2>1
  <2>3. Hop(w)
    BY <1>1, <1>3, <2>2, CarriesWith
  <2>4. PICK h \in Sig!Identity : h = Sig!Place(w)
    BY <1>1, PlaceType
  <2>5. employee' = Append(employee, h) /\ employee \in Seq(Sig!Identity)
    BY <1>3, <2>4 DEF Sig!CreateEmployeeFromHalaOS, TypeInv
  <2>6. QED
    BY <2>3, <2>5
<1>4. QED
  BY <1>2, <1>3, Zenon DEF Sig!CreateEmployee

LEMMA StoreHops ==
    ASSUME TypeInv, NEW w \in Workers, Sig!Store(w)
    PROVE  Hop(w) /\ employee' = employee
<1>1. work[w].at \in Middle /\ SigWorkOK /\ UNCHANGED <<employee, recorded, disturbed>>
  BY DEF Sig!Store, Middle, TypeInv
<1>2. CASE Sig!Fails(w) /\ UNCHANGED applied
  BY <1>1, <1>2, FailsHops
<1>3. CASE /\ applied' = [applied EXCEPT ![work[w].key][work[w].n] = @ + 1]
           /\ Sig!Does(w, Sig!Onward(work[w])) /\ UNCHANGED dropped
  BY <1>1, <1>3, LeavesBehind
<1>4. QED
  BY <1>1, <1>2, <1>3 DEF Sig!Store

Hops(w) == Sig!ResolveById(w) \/ Sig!ResolveByNo(w) \/ Sig!LinkEmployee(w) \/ Sig!CreateEmployee(w) \/ Sig!Store(w)

LEMMA HopsHop ==
    ASSUME Bodies, TypeInv, NEW w \in Workers, Hops(w)
    PROVE  Hop(w) /\ employee' \in Seq(Sig!Identity)
<1>1. employee \in Seq(Sig!Identity)
  BY DEF TypeInv
<1>2. QED
  BY <1>1, ResolveByIdHops, ResolveByNoHops, LinkEmployeeHops, CreateEmployeeHops, StoreHops DEF Hops

LEMMA DeliverSteps ==
    ASSUME TypeInv, NEW w \in Workers, NEW k \in Webhooks, Sig!Deliver(w, k)
    PROVE  /\ SigWorkOK' /\ SigOthers(w) /\ work[w].at \notin InDelivery
           /\ work'[w].at = "check" /\ work'[w].key = k /\ work'[w].n = 1
           /\ UNCHANGED <<employee, recorded, applied, dropped>> /\ disturbed \subseteq disturbed'
           /\ Sig!UnderWay(k) => k \in disturbed'
<1>1. Sig!Delivery(k) \in Works /\ Sig!Delivery(k).at = "check" /\ Sig!Delivery(k).key = k /\ Sig!Delivery(k).n = 1
  BY DEF Sig!Delivery, Works, Deliveries, InDelivery
<1>2. Sig!Does(w, Sig!Delivery(k))
  BY DEF Sig!Deliver, Sig!Begins
<1>3. SigWorkOK' /\ work'[w] = Sig!Delivery(k) /\ SigOthers(w)
  BY <1>1, <1>2, SigSteps DEF TypeInv
<1>4. work[w].at \notin InDelivery
  BY AtFields DEF Sig!Deliver, Sig!Begins
<1>5. QED
  BY <1>1, <1>3, <1>4 DEF Sig!Deliver, Sig!Begins, Sig!tables

LEMMA CheckEventSteps ==
    ASSUME TypeInv, NEW w \in Workers, Sig!CheckEvent(w)
    PROVE  /\ SigWorkOK' /\ SigOthers(w) /\ work[w].at = "check" /\ work[w] \in Deliveries
           /\ UNCHANGED <<employee, recorded, applied, disturbed, dropped>>
           /\ \/ work'[w].at = "idle"
              \/ /\ work[w].key \notin recorded
                 /\ work'[w].at = "by id" /\ work'[w].key = work[w].key /\ work'[w].n = work[w].n
<1>1. SigWorkOK /\ work[w].at = "check" /\ work[w] \in Deliveries
  BY InDeliveries DEF TypeInv, Sig!CheckEvent, InDelivery
<1>2. UNCHANGED <<employee, recorded, applied, disturbed, dropped>>
  BY DEF Sig!CheckEvent, Sig!tables, Sig!ghosts
<1>3. CASE Sig!Does(w, Sig!Idle)
  BY <1>1, <1>2, <1>3, AtFields, SigSteps DEF Works
<1>4. CASE work[w].key \notin recorded /\ Sig!Does(w, [work[w] EXCEPT !.at = "by id"])
  <2>1. PICK r \in Deliveries : /\ r = [work[w] EXCEPT !.at = "by id"]
                                /\ r.at = "by id" /\ r.key = work[w].key /\ r.n = work[w].n
    BY <1>1, Going DEF InDelivery, Middle
  <2>2. SigWorkOK' /\ work'[w] = r /\ SigOthers(w)
    BY <1>1, <1>4, <2>1, SigSteps DEF Works
  <2>3. QED
    BY <1>1, <1>2, <1>4, <2>1, <2>2
<1>5. QED
  BY <1>3, <1>4 DEF Sig!CheckEvent, Sig!GetHalaOSEventByKey

LEMMA RecordSteps ==
    ASSUME TypeInv, NEW w \in Workers, Sig!Record(w)
    PROVE  /\ SigWorkOK' /\ SigOthers(w) /\ work[w].at = "record" /\ work[w] \in Deliveries /\ work'[w].at = "idle"
           /\ UNCHANGED <<employee, applied, dropped>>
           /\ \/ recorded' = recorded \cup {work[w].key} /\ disturbed' = disturbed
              \/ recorded' = recorded /\ disturbed' = disturbed \cup {work[w].key}
<1>1. SigWorkOK /\ work[w].at = "record" /\ work[w] \in Deliveries
  BY InDeliveries DEF TypeInv, Sig!Record, InDelivery
<1>2. SigWorkOK' /\ work'[w] = Sig!Idle /\ SigOthers(w)
  BY <1>1, SigSteps DEF Sig!Record, Works
<1>3. QED
  BY <1>1, <1>2, AtFields DEF Sig!Record

\* What the state engine does changes nothing of the webhooks.
Elsewhere(w) ==
    /\ SigWorkOK' /\ SigOthers(w) /\ work[w].at \notin InDelivery /\ work'[w].at \notin InDelivery
    /\ UNCHANGED <<employee, recorded, applied, disturbed, dropped>>

LEMMA EngineGoes ==
    ASSUME SigWorkOK, NEW w \in Workers, work[w].at \notin InDelivery,
           NEW r \in Jobs \cup Extractions \cup {Sig!Idle}, Sig!Does(w, r),
           UNCHANGED <<employee, recorded, applied, disturbed, dropped>>
    PROVE  Elsewhere(w)
<1>1. SigWorkOK' /\ work'[w] = r /\ SigOthers(w)
  BY SigSteps DEF Works
<1>2. QED
  BY <1>1, AtFields DEF Elsewhere

LEMMA JobFields ==
    ASSUME NEW r \in Jobs, NEW todo \in SUBSET Nat, NEW i \in Nat
    PROVE  /\ [r EXCEPT !.todo = todo] \in Jobs /\ [r EXCEPT !.todo = todo, !.who = i] \in Jobs
           /\ [r EXCEPT !.at = "signal"] \in Jobs /\ Sig!NextSubject(r) \in Jobs
<1>1. [r EXCEPT !.todo = todo] \in Jobs /\ [r EXCEPT !.todo = todo, !.who = i] \in Jobs
  BY DEF Jobs
<1>2. ASSUME NEW at \in InEngine PROVE [r EXCEPT !.at = at] \in Jobs
  BY DEF Jobs
<1>3. "signal" \in InEngine /\ (IF r.todo = {} THEN "context" ELSE "subject") \in InEngine
  BY DEF InEngine
<1>4. QED
  BY <1>1, <1>2, <1>3 DEF Sig!NextSubject

LEMMA EngineSteps ==
    ASSUME TypeInv, NEW w \in Workers, Sig!Engine(w)
    PROVE  Elsewhere(w)
<1>1. SigWorkOK /\ employee \in Seq(Sig!Identity) /\ Sig!Ids \in SUBSET Nat
  BY IdsNat DEF TypeInv
<1>2. CASE Sig!StartSignals(w)
  <2>1. Sig!Job \in Jobs /\ work[w] = Sig!Idle /\ Sig!Does(w, Sig!Job)
    BY <1>2 DEF Sig!StartSignals, Sig!Begins, Sig!Job, Jobs, InEngine
  <2>2. QED
    BY <1>1, <1>2, <2>1, AtFields, EngineGoes DEF Sig!StartSignals, Sig!tables, Sig!ghosts
<1>3. CASE Sig!ListEmployees(w)
  <2>1. PICK q \in Jobs : q = work[w]
    BY <1>1, <1>3, InJobs DEF Sig!ListEmployees, InEngine
  <2>2. q.at \notin InDelivery /\ [q EXCEPT !.todo = Sig!Ids] \in Jobs
    BY <1>1, <2>1, AtFields, JobFields
  <2>3. Sig!NextSubject(q) \in Jobs /\ Sig!NextSubject([q EXCEPT !.todo = Sig!Ids]) \in Jobs
    BY <1>1, <2>2, JobFields
  <2>4. Sig!Does(w, Sig!NextSubject(q)) \/ Sig!Does(w, Sig!NextSubject([q EXCEPT !.todo = Sig!Ids]))
    BY <1>3, <2>1 DEF Sig!ListEmployees
  <2>5. QED
    BY <1>1, <1>3, <2>1, <2>2, <2>3, <2>4, EngineGoes DEF Sig!ListEmployees, Sig!tables, Sig!ghosts
<1>4. CASE Sig!GenerateSignals(w)
  <2>1. PICK q \in Jobs : q = work[w]
    BY <1>1, <1>4, InJobs DEF Sig!GenerateSignals, InEngine
  <2>2. PICK i \in q.todo :
           \/ Sig!Does(w, Sig!NextSubject([q EXCEPT !.todo = q.todo \ {i}, !.who = i]))
           \/ Sig!Does(w, [[q EXCEPT !.todo = q.todo \ {i}, !.who = i] EXCEPT !.at = "signal"])
    BY <1>4, <2>1 DEF Sig!GenerateSignals
  <2>3. i \in Nat /\ q.todo \ {i} \in SUBSET Nat /\ q.at \notin InDelivery
    BY AtFields
  <2>4. PICK r \in Jobs : r = [q EXCEPT !.todo = q.todo \ {i}, !.who = i]
    BY <2>3, JobFields
  <2>5. Sig!NextSubject(r) \in Jobs /\ [r EXCEPT !.at = "signal"] \in Jobs
    BY <2>3, JobFields
  <2>6. QED
    BY <1>1, <1>4, <2>1, <2>2, <2>3, <2>4, <2>5, EngineGoes DEF Sig!GenerateSignals, Sig!tables, Sig!ghosts
<1>5. CASE Sig!StoreSignal(w)
  <2>1. PICK q \in Jobs : q = work[w]
    BY <1>1, <1>5, InJobs DEF Sig!StoreSignal, InEngine
  <2>2. Sig!NextSubject(q) \in Jobs /\ q.at \notin InDelivery
    BY <1>1, <2>1, AtFields, JobFields
  <2>3. QED
    BY <1>1, <1>5, <2>1, <2>2, EngineGoes DEF Sig!StoreSignal, Sig!ghosts
<1>6. CASE Sig!GenerateMemory(w)
  <2>1. work[w].at \notin InDelivery /\ Sig!Does(w, Sig!Idle)
    BY <1>6 DEF Sig!GenerateMemory, InDelivery, Middle
  <2>2. QED
    BY <1>1, <1>6, <2>1, EngineGoes DEF Sig!GenerateMemory, Sig!ghosts
<1>7. CASE Sig!ExtractEventsFromReport(w)
  <2>1. ASSUME NEW r \in Reports, Sig!Begins(w, [at |-> "extract", key |-> r]), UNCHANGED <<Sig!tables, age, faults, Sig!ghosts>>
        PROVE  Elsewhere(w)
    <3>1. PICK x \in Extractions : x = [at |-> "extract", key |-> r]
      BY DEF Extractions
    <3>2. Sig!Does(w, x) /\ work[w].at \notin InDelivery
      BY <2>1, <3>1, AtFields DEF Sig!Begins
    <3>3. QED
      BY <1>1, <2>1, <3>2, EngineGoes DEF Sig!tables, Sig!ghosts
  <2>2. CASE /\ work[w].at = "extract" /\ Sig!Does(w, Sig!Idle)
             /\ UNCHANGED <<employee, recorded, signal, memory, sent, age, Sig!ghosts>>
    <3>1. work[w].at \notin InDelivery
      BY <2>2 DEF InDelivery, Middle
    <3>2. QED
      BY <1>1, <2>2, <3>1, EngineGoes DEF Sig!ghosts
  <2>3. QED
    BY <1>7, <2>1, <2>2 DEF Sig!ExtractEventsFromReport
<1>8. QED
  BY <1>2, <1>3, <1>4, <1>5, <1>6, <1>7 DEF Sig!Engine

LEMMA SigCrashSteps ==
    ASSUME TypeInv, Sig!Crash
    PROVE  /\ SigWorkOK' /\ \A w \in Workers : work'[w].at = "idle"
           /\ UNCHANGED <<employee, recorded, applied, dropped>> /\ disturbed \subseteq disturbed'
           /\ \A w \in Workers : work[w].at \in InDelivery => work[w].key \in disturbed'
<1>1. SigWorkOK' /\ \A w \in Workers : work'[w].at = "idle"
  BY AtFields DEF Sig!Crash, SigWorkOK, Works
<1>2. ASSUME NEW w \in Workers, work[w].at \in InDelivery PROVE work[w].key \in disturbed'
  <2>1. work[w].key \in Webhooks /\ work[w].at # "idle"
    BY <1>2, InDeliveries, AtFields DEF TypeInv, InDelivery, Middle
  <2>2. QED
    BY <2>1 DEF Sig!Crash, Sig!UnderWay
<1>3. QED
  BY <1>1, <1>2 DEF Sig!Crash, Sig!tables

\* What a step is.
LEMMA SigCases ==
    ASSUME TypeInv, [Sig!Next]_Sig!vars
    PROVE  \/ \E w \in Workers, k \in Webhooks : Sig!Deliver(w, k)
           \/ \E w \in Workers : Sig!CheckEvent(w) \/ Hops(w) \/ Sig!Record(w) \/ Elsewhere(w)
           \/ Sig!Crash
           \/ UNCHANGED <<employee, recorded, applied, disturbed, dropped, work>>
<1>1. CASE Sig!Next
  BY <1>1, EngineSteps DEF Sig!Next, Sig!Webhook, Hops, Sig!Passing, Sig!tables, Sig!ghosts
<1>2. CASE UNCHANGED Sig!vars
  BY <1>2 DEF Sig!vars, Sig!tables, Sig!ghosts
<1>3. QED
  BY <1>1, <1>2

LEMMA SigTypeInit == ASSUME Bodies, Sig!Init PROVE TypeInv
<1>1. employee \in Seq(Sig!Identity) /\ recorded \in SUBSET Webhooks /\ SigWorkOK
  BY DEF Sig!Init, Bodies, SigWorkOK, Works
<1>2. AppliedOK
  BY DEF Sig!Init, AppliedOK
<1>3. \A w \in Workers : PlaceOK(w)
  BY AtFields DEF Sig!Init, PlaceOK, InDelivery, Middle
<1>4. QED
  BY <1>1, <1>2, <1>3 DEF TypeInv

LEMMA HopFields ==
    ASSUME NEW w \in Workers, Hop(w)
    PROVE  work[w].n \in Nat /\ work'[w].n \in Nat /\ work[w].key \in Webhooks
  BY AtFields DEF Hop

\* What a delivery that hops does to the history.
LEMMA HopApplied ==
    ASSUME TypeInv, NEW w \in Workers, Hop(w)
    PROVE  /\ AppliedOK'
           /\ \A k \in Webhooks : \A i \in DOMAIN Body[k].of :
                 applied'[k][i] = applied[k][i] \/
                 (Leaves(w) /\ k = work[w].key /\ i = work[w].n /\ applied'[k][i] = applied[k][i] + 1)
           /\ Leaves(w) => \/ <<work[w].key, work[w].n>> \in dropped'
                           \/ applied'[work[w].key][work[w].n] >= 1
<1>1. work[w].key \in Webhooks /\ work[w].n \in DOMAIN Body[work[w].key].of
  BY AtFields DEF Hop, TypeInv, PlaceOK, InDelivery
<1>2. /\ applied = [k \in Webhooks |-> applied[k]]
      /\ \A k \in Webhooks : applied[k] \in [DOMAIN Body[k].of -> Nat]
  BY DEF TypeInv, AppliedOK
<1>3. CASE UNCHANGED applied
  <2>1. Leaves(w) => \/ <<work[w].key, work[w].n>> \in dropped'
                     \/ applied'[work[w].key][work[w].n] >= 1
    <3>1. ASSUME Leaves(w) PROVE work'[w].n # work[w].n \/ work'[w].at \notin Middle
      <4>1. work[w].n \in Nat /\ work'[w].n \in Nat
        BY HopFields
      <4>2. CASE work'[w].n = work[w].n + 1
        BY <4>1, <4>2
      <4>3. CASE work'[w].at = "record"
        BY <4>3 DEF Middle
      <4>4. QED
        BY <3>1, <4>2, <4>3 DEF Leaves
    <3>2. applied[work[w].key] \in [DOMAIN Body[work[w].key].of -> Nat]
      BY <1>1, <1>2
    <3>3. CASE applied' = [applied EXCEPT ![work[w].key][work[w].n] = @ + 1]
      BY <1>1, <1>2, <3>2, <3>3
    <3>4. QED
      BY <3>1, <3>3 DEF Hop
  <2>2. AppliedOK'
    BY <1>2, <1>3 DEF AppliedOK
  <2>3. QED
    BY <1>3, <2>1, <2>2
<1>4. CASE Leaves(w) /\ applied' = [applied EXCEPT ![work[w].key][work[w].n] = @ + 1]
  <2>1. PICK made \in [DOMAIN Body[work[w].key].of -> Nat] : made = applied[work[w].key]
    BY <1>1, <1>2
  <2>2. PICK new \in [DOMAIN Body[work[w].key].of -> Nat] : new = [made EXCEPT ![work[w].n] = made[work[w].n] + 1]
    <3>1. made[work[w].n] + 1 \in Nat
      BY <1>1, <2>1
    <3>2. [made EXCEPT ![work[w].n] = made[work[w].n] + 1] \in [DOMAIN Body[work[w].key].of -> Nat]
      BY <2>1, <3>1
    <3>3. QED
      BY <3>2
  <2>3. applied' = [applied EXCEPT ![work[w].key] = new]
    BY <1>4, <2>1, <2>2
  <2>4. AppliedOK'
    BY <1>1, <1>2, <2>2, <2>3 DEF AppliedOK
  <2>5. \A k \in Webhooks : applied'[k] = IF k = work[w].key THEN new ELSE applied[k]
    BY <1>2, <2>3
  <2>6. \A i \in DOMAIN Body[work[w].key].of : new[i] = IF i = work[w].n THEN made[i] + 1 ELSE made[i]
    BY <1>1, <2>1, <2>2
  <2>7. new[work[w].n] >= 1
    BY <1>1, <2>1, <2>6
  <2>8. ASSUME NEW k \in Webhooks, NEW i \in DOMAIN Body[k].of
        PROVE  applied'[k][i] = applied[k][i] \/
               (Leaves(w) /\ k = work[w].key /\ i = work[w].n /\ applied'[k][i] = applied[k][i] + 1)
    <3>1. CASE k = work[w].key
      BY <1>4, <2>1, <2>5, <2>6, <3>1
    <3>2. CASE k # work[w].key
      BY <2>5, <3>2
    <3>3. QED
      BY <3>1, <3>2
  <2>9. applied'[work[w].key][work[w].n] >= 1
    BY <1>1, <2>5, <2>7
  <2>10. QED
    BY <2>4, <2>8, <2>9
<1>5. QED
  BY <1>3, <1>4 DEF Hop

LEMMA HopPlace ==
    ASSUME Bodies, TypeInv, NEW w \in Workers, Hop(w)
    PROVE  PlaceOK(w)'
<1>1. /\ work[w].key \in Webhooks /\ work[w].n \in DOMAIN Body[work[w].key].of
      /\ work'[w].key = work[w].key /\ work[w].n \in Nat
  BY AtFields DEF Hop, TypeInv, PlaceOK, InDelivery
<1>2. Body[work[w].key].of \in Seq(Sig!Identity)
  BY <1>1 DEF Bodies
<1>3. work'[w].n \in DOMAIN Body[work[w].key].of /\ work'[w].at # "check"
  <2>1. CASE work'[w].at \in Middle /\ work'[w].n = work[w].n
    BY <1>1, <2>1 DEF Middle
  <2>2. CASE Leaves(w)
    <3>1. DOMAIN Body[work[w].key].of = 1 .. Len(Body[work[w].key].of) /\ Len(Body[work[w].key].of) \in Nat
      BY <1>2
    <3>2. CASE work[w].n < Len(Body[work[w].key].of)
      <4>1. work'[w].n = work[w].n + 1 /\ work'[w].at = "by id" /\ work'[w].n \in Nat
        BY <2>2, <3>2, HopFields DEF Leaves
      <4>2. PICK n \in Nat, len \in Nat : n = work[w].n /\ len = Len(Body[work[w].key].of)
        BY <1>1, <3>1
      <4>3. n + 1 \in 1 .. len
        BY <3>2, <4>2
      <4>4. QED
        BY <3>1, <4>1, <4>2, <4>3
    <3>3. CASE ~ (work[w].n < Len(Body[work[w].key].of))
      BY <1>1, <2>2, <3>3 DEF Leaves
    <3>4. QED
      BY <3>2, <3>3
  <2>3. QED
    BY <2>1, <2>2 DEF Hop
<1>4. QED
  BY <1>1, <1>3 DEF PlaceOK

LEMMA SigTypeNext == ASSUME Bodies, TypeInv, [Sig!Next]_Sig!vars PROVE TypeInv'
<1>1. employee \in Seq(Sig!Identity) /\ recorded \in SUBSET Webhooks /\ SigWorkOK /\ AppliedOK /\ \A w \in Workers : PlaceOK(w)
  BY DEF TypeInv
<1>2. ASSUME NEW w \in Workers, NEW k \in Webhooks, Sig!Deliver(w, k) PROVE TypeInv'
  <2>1. 1 \in DOMAIN Body[k].of
    BY DEF Bodies
  <2>2. PlaceOK(w)'
    BY <1>2, <2>1, DeliverSteps DEF PlaceOK
  <2>3. QED
    BY <1>1, <1>2, <2>2, DeliverSteps DEF TypeInv, AppliedOK, PlaceOK, SigOthers
<1>3. ASSUME NEW w \in Workers, Sig!CheckEvent(w) PROVE TypeInv'
  <2>1. PlaceOK(w)'
    BY <1>1, <1>3, CheckEventSteps DEF PlaceOK, InDelivery, Middle
  <2>2. QED
    BY <1>1, <1>3, <2>1, CheckEventSteps DEF TypeInv, AppliedOK, PlaceOK, SigOthers
<1>4. ASSUME NEW w \in Workers, Hops(w) PROVE TypeInv'
  <2>1. Hop(w) /\ employee' \in Seq(Sig!Identity)
    BY <1>4, HopsHop
  <2>2. AppliedOK' /\ PlaceOK(w)'
    BY <2>1, HopApplied, HopPlace
  <2>3. QED
    BY <1>1, <2>1, <2>2 DEF TypeInv, Hop, PlaceOK, SigOthers
<1>5. ASSUME NEW w \in Workers, Sig!Record(w) PROVE TypeInv'
  <2>1. PlaceOK(w)'
    BY <1>5, RecordSteps DEF PlaceOK, InDelivery, Middle
  <2>2. work[w].key \in Webhooks
    BY <1>5, RecordSteps, AtFields
  <2>3. QED
    BY <1>1, <1>5, <2>1, <2>2, RecordSteps DEF TypeInv, AppliedOK, PlaceOK, SigOthers
<1>6. ASSUME NEW w \in Workers, Elsewhere(w) PROVE TypeInv'
  <2>1. PlaceOK(w)'
    BY <1>6 DEF Elsewhere, PlaceOK, InDelivery
  <2>2. QED
    BY <1>1, <1>6, <2>1 DEF TypeInv, AppliedOK, PlaceOK, SigOthers, Elsewhere
<1>7. ASSUME Sig!Crash PROVE TypeInv'
  BY <1>1, <1>7, SigCrashSteps DEF TypeInv, AppliedOK, PlaceOK, InDelivery, Middle
<1>8. ASSUME UNCHANGED <<employee, recorded, applied, disturbed, dropped, work>> PROVE TypeInv'
  BY <1>1, <1>8 DEF TypeInv, SigWorkOK, AppliedOK, PlaceOK
<1>9. QED
  BY <1>2, <1>3, <1>4, <1>5, <1>6, <1>7, <1>8, SigCases

-----------------------------------------------------------------------------
(* Signals: what is recorded has become its rows                           *)

\* Why: a delivery has seen to every place before its own, and to all of them
\* when it records the webhook.
Done(k, i) == applied[k][i] >= 1 \/ <<k, i>> \in dropped

SeenTo(w) ==
    \A i \in DOMAIN Body[work[w].key].of :
        (work[w].at \in Middle /\ i < work[w].n) \/ work[w].at = "record" => Done(work[w].key, i)

Made == Sig!RecordedWasApplied /\ \A w \in Workers : SeenTo(w)

LEMMA MadeInit == ASSUME Sig!Init PROVE Made
  BY AtFields DEF Sig!Init, Made, Sig!RecordedWasApplied, SeenTo, Middle

\* Nothing that was made or dropped is undone.
LEMMA MadeFrame ==
    ASSUME Made, UNCHANGED <<recorded, applied>>, dropped \subseteq dropped',
           \A v \in Workers : work'[v] = work[v] \/ work'[v].at \notin Middle \cup {"record"}
    PROVE  Made'
<1>1. \A k, i : Done(k, i) => Done(k, i)'
  BY DEF Done
<1>2. Sig!RecordedWasApplied'
  BY <1>1 DEF Made, Sig!RecordedWasApplied, Done
<1>3. ASSUME NEW v \in Workers PROVE SeenTo(v)'
  BY <1>1 DEF Made, SeenTo
<1>4. QED
  BY <1>2, <1>3 DEF Made

LEMMA MadeHop == ASSUME Bodies, TypeInv, Made, NEW w \in Workers, Hop(w) PROVE Made'
<1>1. /\ UNCHANGED recorded /\ dropped \subseteq dropped' /\ SigOthers(w)
      /\ work[w] \in Deliveries /\ work[w].at \in Middle /\ work'[w].key = work[w].key
      /\ work[w].n \in DOMAIN Body[work[w].key].of
  BY DEF Hop, TypeInv, PlaceOK, InDelivery
<1>2. \A k \in Webhooks : \A i \in DOMAIN Body[k].of :
         applied[k][i] \in Nat /\ applied'[k][i] \in {applied[k][i], applied[k][i] + 1}
  <2>1. \A k \in Webhooks : \A i \in DOMAIN Body[k].of : applied[k][i] \in Nat
    BY DEF TypeInv, AppliedOK
  <2>2. QED
    BY <2>1, HopApplied
<1>3. ASSUME NEW k \in Webhooks, NEW i \in DOMAIN Body[k].of, Done(k, i) PROVE Done(k, i)'
  BY <1>1, <1>2, <1>3 DEF Done
<1>4. Sig!RecordedWasApplied'
  BY <1>1, <1>3 DEF TypeInv, Made, Sig!RecordedWasApplied, Done
<1>5. ASSUME NEW v \in Workers, v # w PROVE SeenTo(v)'
  <2>1. work[v].at \in Middle \cup {"record"} => work[v].key \in Webhooks
    BY InDeliveries, AtFields DEF TypeInv, InDelivery
  <2>2. QED
    BY <1>1, <1>3, <1>5, <2>1 DEF Made, SeenTo, SigOthers
<1>6. SeenTo(w)'
  <2> SUFFICES ASSUME NEW i \in DOMAIN Body[work[w].key].of,
                      (work'[w].at \in Middle /\ i < work'[w].n) \/ work'[w].at = "record"
               PROVE  Done(work[w].key, i)'
    BY <1>1 DEF SeenTo
  <2>1. /\ work[w].key \in Webhooks /\ work[w].n \in Nat
        /\ DOMAIN Body[work[w].key].of = 1 .. Len(Body[work[w].key].of) /\ Len(Body[work[w].key].of) \in Nat
    BY <1>1, AtFields DEF Bodies
  <2>2. CASE i < work[w].n
    BY <1>1, <1>3, <2>1, <2>2 DEF Made, SeenTo
  <2>3. CASE ~ (i < work[w].n)
    <3>1. Leaves(w)
      BY <2>1, <2>3 DEF Hop, Middle
    <3>2. i = work[w].n
      <4>1. CASE work[w].n < Len(Body[work[w].key].of)
        <5>1. work'[w].n = work[w].n + 1 /\ work'[w].at = "by id" /\ work'[w].n \in Nat
          BY <3>1, <4>1, HopFields DEF Leaves
        <5>2. i < work'[w].n
          BY <5>1
        <5>3. PICK n \in Nat, j \in Nat : n = work[w].n /\ j = i
          BY <2>1
        <5>4. j < n + 1 /\ ~ (j < n)
          BY <2>3, <5>1, <5>2, <5>3
        <5>5. QED
          BY <5>3, <5>4
      <4>2. CASE ~ (work[w].n < Len(Body[work[w].key].of))
        BY <1>1, <2>1, <2>3, <4>2
      <4>3. QED
        BY <4>1, <4>2
    <3>3. QED
      <4>1. <<work[w].key, work[w].n>> \in dropped' \/ applied'[work[w].key][work[w].n] >= 1
        BY <3>1, HopApplied
      <4>2. <<work[w].key, i>> \in dropped' \/ applied'[work[w].key][i] >= 1
        BY <3>2, <4>1
      <4>3. QED
        BY <1>1, <4>2 DEF Done
  <2>4. QED
    BY <2>2, <2>3
<1>7. QED
  BY <1>4, <1>5, <1>6 DEF Made

LEMMA MadeNext == ASSUME Bodies, TypeInv, Made, [Sig!Next]_Sig!vars PROVE Made'
<1>1. SigWorkOK /\ \A v \in Workers : SeenTo(v) /\ PlaceOK(v)
  BY DEF TypeInv, Made
<1>2. ASSUME NEW w \in Workers, NEW k \in Webhooks, Sig!Deliver(w, k) PROVE Made'
  <2>1. work'[w].at \notin Middle \cup {"record"}
    BY <1>2, DeliverSteps DEF Middle
  <2>2. QED
    BY <1>2, <2>1, DeliverSteps, MadeFrame DEF SigOthers
<1>3. ASSUME NEW w \in Workers, Sig!CheckEvent(w) PROVE Made'
  <2>1. /\ UNCHANGED <<recorded, applied, dropped>> /\ SigOthers(w)
        /\ work[w].at = "check" /\ work[w].n = 1 /\ work[w].key \in Webhooks
        /\ work'[w].at = "idle" \/ (work'[w].at = "by id" /\ work'[w].key = work[w].key /\ work'[w].n = 1)
    BY <1>1, <1>3, CheckEventSteps, AtFields DEF PlaceOK
  <2>2. Sig!RecordedWasApplied'
    BY <2>1 DEF Made, Sig!RecordedWasApplied
  <2>3. SeenTo(w)'
    <3>1. CASE work'[w].at = "idle"
      BY <3>1 DEF SeenTo, Middle
    <3>2. CASE work'[w].at = "by id" /\ work'[w].key = work[w].key /\ work'[w].n = 1
      <4>1. Body[work[w].key].of \in Seq(Sig!Identity)
        BY <2>1 DEF Bodies
      <4>2. \A i \in DOMAIN Body[work[w].key].of : ~ (i < 1)
        BY <4>1
      <4>3. QED
        BY <3>2, <4>2 DEF SeenTo
    <3>3. QED
      BY <2>1, <3>1, <3>2
  <2>4. ASSUME NEW v \in Workers, v # w PROVE SeenTo(v)'
    BY <1>1, <2>1, <2>4 DEF SeenTo, SigOthers, Done
  <2>5. QED
    BY <2>2, <2>3, <2>4 DEF Made
<1>4. ASSUME NEW w \in Workers, Hops(w) PROVE Made'
  BY <1>4, HopsHop, MadeHop
<1>5. ASSUME NEW w \in Workers, Sig!Record(w) PROVE Made'
  <2>1. /\ UNCHANGED <<applied, dropped>> /\ SigOthers(w) /\ work[w].at = "record" /\ work'[w].at = "idle"
        /\ recorded' \subseteq recorded \cup {work[w].key}
    BY <1>5, RecordSteps
  <2>2. \A i \in DOMAIN Body[work[w].key].of : Done(work[w].key, i)
    BY <1>1, <2>1 DEF SeenTo
  <2>3. Sig!RecordedWasApplied'
    BY <2>1, <2>2 DEF Made, Sig!RecordedWasApplied, Done
  <2>4. ASSUME NEW v \in Workers PROVE SeenTo(v)'
    BY <1>1, <2>1, <2>4 DEF SeenTo, SigOthers, Done, Middle
  <2>5. QED
    BY <2>3, <2>4 DEF Made
<1>6. ASSUME NEW w \in Workers, Elsewhere(w) PROVE Made'
  <2>1. work'[w].at \notin Middle \cup {"record"}
    BY <1>6 DEF Elsewhere, InDelivery
  <2>2. QED
    BY <1>6, <2>1, MadeFrame DEF Elsewhere, SigOthers
<1>7. ASSUME Sig!Crash PROVE Made'
  <2>1. \A w \in Workers : work'[w].at \notin Middle \cup {"record"}
    BY <1>7, SigCrashSteps DEF Middle
  <2>2. QED
    BY <1>7, <2>1, SigCrashSteps, MadeFrame
<1>8. ASSUME UNCHANGED <<employee, recorded, applied, disturbed, dropped, work>> PROVE Made'
  BY <1>8, MadeFrame
<1>9. QED
  BY <1>2, <1>3, <1>4, <1>5, <1>6, <1>7, <1>8, SigCases

\* A webhook that is recorded has become its rows, but for those whose statements
\* failed, whatever is delivered at a time and whenever the process ends.
THEOREM RecordedIsMade == ASSUME Bodies PROVE Sig!Spec => []Sig!RecordedWasApplied
<1>1. Sig!Init => TypeInv /\ Made
  BY SigTypeInit, MadeInit
<1>2. TypeInv /\ Made /\ [Sig!Next]_Sig!vars => TypeInv' /\ Made'
  BY SigTypeNext, MadeNext
<1>3. Made => Sig!RecordedWasApplied
  BY DEF Made
<1>4. QED
  BY <1>1, <1>2, <1>3, PTL DEF Sig!Spec

-----------------------------------------------------------------------------
(* Signals: each part becomes one row                                      *)

\* Why: two deliveries of a webhook at a time disturb it.
SigAlone(v, w) ==
    work[v].at \in InDelivery /\ work[w].at \in InDelivery /\ work[v].key = work[w].key /\ v # w
        => work[w].key \in disturbed

\* A delivery has made no row of its place, nor of those after it.
Ahead(w) ==
    work[w].at \in Middle /\ work[w].key \notin disturbed
        => \A i \in DOMAIN Body[work[w].key].of : i >= work[w].n => applied[work[w].key][i] = 0

\* A webhook of which there are rows, but no record, is being processed.
Held(k) ==
    k \notin disturbed /\ k \notin recorded /\ (\E i \in DOMAIN Body[k].of : applied[k][i] # 0)
        => \E w \in Workers : work[w].at \in Middle \cup {"record"} /\ work[w].key = k

Once ==
    /\ Sig!AppliedOnce
    /\ \A v, w \in Workers : SigAlone(v, w)
    /\ \A w \in Workers : Ahead(w)
    /\ \A k \in Webhooks : Held(k)

LEMMA OnceInit == ASSUME Bodies, Sig!Init PROVE Once
<1>1. \A k \in Webhooks : \A i \in DOMAIN Body[k].of : applied[k][i] = 0
  BY DEF Sig!Init
<1>2. \A w \in Workers : work[w].at \notin InDelivery
  BY AtFields DEF Sig!Init, InDelivery, Middle
<1>3. QED
  BY <1>1, <1>2 DEF Once, Sig!AppliedOnce, SigAlone, Ahead, Held, InDelivery

\* No row is made; a delivery begins or goes on only at the place it was at, and
\* ends only when the webhook is recorded or disturbed.
LEMMA OnceDeliver ==
    ASSUME TypeInv, Once, NEW w \in Workers, NEW k \in Webhooks, Sig!Deliver(w, k)
    PROVE  Once'
<1>1. /\ SigOthers(w) /\ work[w].at \notin InDelivery /\ work'[w].at = "check" /\ work'[w].key = k
      /\ UNCHANGED <<recorded, applied>> /\ disturbed \subseteq disturbed'
      /\ Sig!UnderWay(k) => k \in disturbed'
  BY DeliverSteps
<1>2. Sig!AppliedOnce'
  BY <1>1 DEF Once, Sig!AppliedOnce
<1>3. \A v \in Workers : work[v].at \in InDelivery /\ work[v].key = k => k \in disturbed'
  BY <1>1 DEF Sig!UnderWay, InDelivery, Middle
<1>4. ASSUME NEW v \in Workers, NEW u \in Workers PROVE SigAlone(v, u)'
  <2>1. CASE v # w /\ u # w
    BY <1>1, <2>1 DEF Once, SigAlone, SigOthers
  <2>2. CASE v = w \/ u = w
    BY <1>1, <1>3, <2>2 DEF SigAlone, SigOthers
  <2>3. QED
    BY <2>1, <2>2
<1>5. ASSUME NEW v \in Workers PROVE Ahead(v)'
  BY <1>1 DEF Once, Ahead, SigOthers, Middle
<1>6. ASSUME NEW j \in Webhooks PROVE Held(j)'
  BY <1>1 DEF Once, Held, SigOthers, InDelivery
<1>7. QED
  BY <1>2, <1>4, <1>5, <1>6 DEF Once

LEMMA OnceCheck ==
    ASSUME Bodies, TypeInv, Once, NEW w \in Workers, Sig!CheckEvent(w)
    PROVE  Once'
<1>1. /\ UNCHANGED <<recorded, applied, disturbed>> /\ SigOthers(w)
      /\ work[w].at = "check" /\ work[w].key \in Webhooks
      /\ \/ work'[w].at = "idle"
         \/ /\ work[w].key \notin recorded
            /\ work'[w].at = "by id" /\ work'[w].key = work[w].key
  BY CheckEventSteps, AtFields
<1>2. Sig!AppliedOnce'
  BY <1>1 DEF Once, Sig!AppliedOnce
<1>3. ASSUME NEW v \in Workers, NEW u \in Workers PROVE SigAlone(v, u)'
  <2>1. \A x \in Workers : work'[x].at \in InDelivery => work[x].at \in InDelivery /\ work'[x].key = work[x].key
    BY <1>1 DEF SigOthers, InDelivery, Middle
  <2>2. QED
    BY <1>1, <2>1 DEF Once, SigAlone
<1>4. ASSUME work[w].key \notin disturbed, work[w].key \notin recorded
      PROVE  \A i \in DOMAIN Body[work[w].key].of : applied[work[w].key][i] = 0
  <2>1. \A v \in Workers : ~ (work[v].at \in Middle \cup {"record"} /\ work[v].key = work[w].key)
    BY <1>1, <1>4 DEF Once, SigAlone, InDelivery, Middle
  <2>2. QED
    BY <1>1, <1>4, <2>1 DEF Once, Held
<1>5. ASSUME NEW v \in Workers PROVE Ahead(v)'
  <2>1. CASE v = w
    BY <1>1, <1>4, <2>1 DEF Ahead, Middle
  <2>2. CASE v # w
    BY <1>1, <2>2 DEF Once, Ahead, SigOthers
  <2>3. QED
    BY <2>1, <2>2
<1>6. ASSUME NEW k \in Webhooks PROVE Held(k)'
  <2>1. \A x \in Workers : work[x].at \in Middle \cup {"record"} => work'[x] = work[x]
    BY <1>1 DEF SigOthers, Middle
  <2>2. Held(k)
    BY DEF Once
  <2>3. UNCHANGED <<recorded, applied, disturbed>>
    BY <1>1
  <2>4. QED
    BY <2>1, <2>2, <2>3 DEF Held
<1>7. QED
  BY <1>2, <1>3, <1>5, <1>6 DEF Once

LEMMA OnceHop ==
    ASSUME Bodies, TypeInv, Once, NEW w \in Workers, Hop(w)
    PROVE  Once'
<1>1. /\ UNCHANGED <<recorded, disturbed>> /\ SigOthers(w)
      /\ work[w].at \in Middle /\ work'[w].key = work[w].key /\ work[w].key \in Webhooks
      /\ work'[w].at \in Middle \cup {"record"}
      /\ work[w].n \in Nat /\ work'[w].n \in Nat
  BY HopFields DEF Hop, Leaves, Middle
<1>2. \A k \in Webhooks : \A i \in DOMAIN Body[k].of :
         \/ applied'[k][i] = applied[k][i]
         \/ Leaves(w) /\ k = work[w].key /\ i = work[w].n /\ applied'[k][i] = applied[k][i] + 1
  BY HopApplied
<1>3. \A x \in Workers : work'[x].key = work[x].key /\ (work'[x].at \in InDelivery => work[x].at \in InDelivery)
  BY <1>1 DEF SigOthers, InDelivery
<1>4. ASSUME NEW v \in Workers, NEW u \in Workers PROVE SigAlone(v, u)'
  BY <1>1, <1>3 DEF Once, SigAlone
<1>5. Sig!AppliedOnce'
  <2> SUFFICES ASSUME NEW k \in Webhooks \ disturbed, NEW i \in DOMAIN Body[k].of
               PROVE  applied'[k][i] <= 1
    BY <1>1 DEF Sig!AppliedOnce
  <2>1. CASE applied'[k][i] = applied[k][i]
    BY <2>1 DEF Once, Sig!AppliedOnce
  <2>2. CASE k = work[w].key /\ i = work[w].n /\ applied'[k][i] = applied[k][i] + 1
    <3>1. applied[k][i] = 0
      BY <1>1, <2>2 DEF Once, Ahead
    <3>2. QED
      BY <2>2, <3>1
  <2>3. QED
    BY <1>2, <2>1, <2>2
<1>6. ASSUME NEW v \in Workers, v # w PROVE Ahead(v)'
  <2> SUFFICES ASSUME work[v].at \in Middle, work[v].key \notin disturbed,
                      NEW i \in DOMAIN Body[work[v].key].of, i >= work[v].n
               PROVE  applied'[work[v].key][i] = 0
    BY <1>1, <1>6 DEF Ahead, SigOthers
  <2>1. work[v].key \in Webhooks /\ applied[work[v].key][i] = 0
    BY InDeliveries, AtFields DEF TypeInv, InDelivery, Once, Ahead
  <2>2. work[v].key # work[w].key
    BY <1>1, <1>6 DEF Once, SigAlone, InDelivery
  <2>3. QED
    BY <1>2, <2>1, <2>2
<1>7. Ahead(w)'
  <2> SUFFICES ASSUME work'[w].at \in Middle, work[w].key \notin disturbed,
                      NEW i \in DOMAIN Body[work[w].key].of, i >= work'[w].n
               PROVE  applied'[work[w].key][i] = 0
    BY <1>1 DEF Ahead
  <2>1. i \in Nat /\ \A j \in DOMAIN Body[work[w].key].of : j >= work[w].n => applied[work[w].key][j] = 0
    BY <1>1 DEF Bodies, Once, Ahead
  <2>2. CASE Leaves(w)
    <3>1. work'[w].n = work[w].n + 1
      BY <2>2 DEF Leaves, Middle
    <3>2. PICK n \in Nat, j \in Nat : n = work[w].n /\ j = i
      BY <1>1, <2>1
    <3>3. j >= n + 1
      BY <3>1, <3>2
    <3>4. j >= n /\ j # n
      BY <3>3
    <3>5. applied[work[w].key][i] = 0 /\ i # work[w].n
      BY <2>1, <3>2, <3>4
    <3>6. QED
      BY <1>1, <1>2, <3>5
  <2>3. CASE work'[w].n = work[w].n /\ UNCHANGED applied
    BY <2>1, <2>3
  <2>4. QED
    BY <2>2, <2>3 DEF Hop
<1>8. ASSUME NEW k \in Webhooks PROVE Held(k)'
  <2>1. CASE k = work[w].key
    BY <1>1, <2>1 DEF Held
  <2>2. CASE k # work[w].key
    <3>1. \A i \in DOMAIN Body[k].of : applied'[k][i] = applied[k][i]
      BY <1>2, <2>2
    <3>2. QED
      BY <1>1, <2>2, <3>1 DEF Once, Held, SigOthers
  <2>3. QED
    BY <2>1, <2>2
<1>9. QED
  BY <1>4, <1>5, <1>6, <1>7, <1>8 DEF Once

LEMMA OnceRecord ==
    ASSUME TypeInv, Once, NEW w \in Workers, Sig!Record(w)
    PROVE  Once'
<1>1. /\ UNCHANGED applied /\ SigOthers(w) /\ work[w].at = "record" /\ work'[w].at = "idle"
      /\ disturbed \subseteq disturbed' /\ recorded \subseteq recorded'
      /\ work[w].key \in recorded' \cup disturbed'
  BY RecordSteps
<1>2. Sig!AppliedOnce'
  BY <1>1 DEF Once, Sig!AppliedOnce
<1>3. \A x \in Workers : work'[x].at \in InDelivery => work'[x] = work[x]
  BY <1>1 DEF SigOthers, InDelivery, Middle
<1>4. ASSUME NEW v \in Workers, NEW u \in Workers PROVE SigAlone(v, u)'
  BY <1>1, <1>3 DEF Once, SigAlone
<1>5. ASSUME NEW v \in Workers PROVE Ahead(v)'
  BY <1>1, <1>3 DEF Once, Ahead, InDelivery
<1>6. ASSUME NEW k \in Webhooks PROVE Held(k)'
  BY <1>1 DEF Once, Held, SigOthers
<1>7. QED
  BY <1>2, <1>4, <1>5, <1>6 DEF Once

LEMMA OnceElsewhere ==
    ASSUME Once, NEW w \in Workers, Elsewhere(w)
    PROVE  Once'
<1>1. \A x \in Workers : work'[x].at \in InDelivery \/ work[x].at \in InDelivery => work'[x] = work[x]
  BY DEF Elsewhere, SigOthers
<1>2. UNCHANGED <<recorded, applied, disturbed>>
  BY DEF Elsewhere
<1>3. QED
  BY <1>1, <1>2 DEF Once, Sig!AppliedOnce, SigAlone, Ahead, Held, InDelivery

LEMMA OnceCrash == ASSUME TypeInv, Once, Sig!Crash PROVE Once'
<1>1. /\ UNCHANGED <<recorded, applied>> /\ disturbed \subseteq disturbed'
      /\ \A w \in Workers : work'[w].at \notin InDelivery
      /\ \A w \in Workers : work[w].at \in InDelivery => work[w].key \in disturbed'
  BY SigCrashSteps DEF InDelivery, Middle
<1>2. QED
  BY <1>1 DEF Once, Sig!AppliedOnce, SigAlone, Ahead, Held, InDelivery

LEMMA OnceNext == ASSUME Bodies, TypeInv, Once, [Sig!Next]_Sig!vars PROVE Once'
<1>1. CASE UNCHANGED <<employee, recorded, applied, disturbed, dropped, work>>
  BY <1>1 DEF Once, Sig!AppliedOnce, SigAlone, Ahead, Held
<1>2. QED
  BY <1>1, SigCases, HopsHop, OnceDeliver, OnceCheck, OnceHop, OnceRecord, OnceElsewhere, OnceCrash

\* However often a webhook is delivered, each part of it becomes at most one row,
\* unless its deliveries overlapped, were cut off or not recorded.
THEOREM MadeOnce == ASSUME Bodies PROVE Sig!Spec => []Sig!AppliedOnce
<1>1. Sig!Init => TypeInv /\ Once
  BY SigTypeInit, OnceInit
<1>2. TypeInv /\ Once /\ [Sig!Next]_Sig!vars => TypeInv' /\ Once'
  BY SigTypeNext, OnceNext
<1>3. Once => Sig!AppliedOnce
  BY DEF Once
<1>4. QED
  BY <1>1, <1>2, <1>3, PTL DEF Sig!Spec

-----------------------------------------------------------------------------
(* Signals: an employee for a person                                       *)

\* The webhooks give both id and number, and never one number with two ids; no two
\* of the employees there at first stand for one person.
Named == {h \in Sig!Identity : \E k \in Webhooks : \E i \in DOMAIN Body[k].of : h = Body[k].of[i]}
Distinct(rows) ==
    \A i, j \in DOMAIN rows : i # j =>
        /\ rows[i].id = rows[j].id => rows[i].id = 0
        /\ rows[i].no = rows[j].no => rows[i].no = 0
BothKnown ==
    /\ \A h \in Named : h.id # 0 /\ h.no # 0
    /\ \A h, g \in Named : h.no = g.no => h.id = g.id
    /\ Distinct(Known)

\* Why: who is linked has the number already; who is to be created had no row, or has
\* got one with the id, which the index guards.
Resolved(w) ==
    /\ work[w].at = "link" =>
          work[w].who \in DOMAIN employee /\ employee[work[w].who].no = Sig!Place(w).no
    /\ work[w].at = "create" =>
          \A i \in DOMAIN employee : employee[i].no = Sig!Place(w).no => employee[i].id = Sig!Place(w).id
OnePerPerson == Distinct(employee) /\ \A w \in Workers : Resolved(w)

LEMMA PlaceNamed ==
    ASSUME Bodies, TypeInv, NEW w \in Workers, work[w].at \in Middle
    PROVE  Sig!Place(w) \in Named
<1>1. work[w].key \in Webhooks /\ work[w].n \in DOMAIN Body[work[w].key].of
  BY InDeliveries, AtFields DEF TypeInv, PlaceOK, InDelivery
<1>2. QED
  BY <1>1, PlaceType DEF Sig!Place, Named

LEMMA Whereto ==
    ASSUME SigWorkOK, NEW w \in Workers, work[w].at \in InDelivery
    PROVE  /\ \A at \in InDelivery : Sig!Does(w, [work[w] EXCEPT !.at = at]) =>
                 work'[w].at = at /\ work'[w].key = work[w].key /\ work'[w].n = work[w].n
           /\ \A at \in InDelivery, i \in Nat : Sig!Does(w, [work[w] EXCEPT !.at = at, !.who = i]) =>
                 work'[w].at = at /\ work'[w].key = work[w].key /\ work'[w].n = work[w].n /\ work'[w].who = i
           /\ Sig!Does(w, Sig!Onward(work[w])) => work'[w].at \in {"by id", "record"}
<1>1. PICK q \in Deliveries : q = work[w]
  BY InDeliveries
<1>2. \A r : Sig!Does(w, r) => work'[w] = r
  BY DEF Sig!Does, SigWorkOK
<1>3. ASSUME NEW at \in InDelivery, Sig!Does(w, [work[w] EXCEPT !.at = at])
      PROVE  work'[w].at = at /\ work'[w].key = work[w].key /\ work'[w].n = work[w].n
  <2>1. PICK r : r = [q EXCEPT !.at = at]
    OBVIOUS
  <2>2. r.at = at /\ r.key = q.key /\ r.n = q.n
    BY <2>1 DEF Deliveries
  <2>3. work'[w] = r
    BY <1>1, <1>2, <1>3, <2>1
  <2>4. QED
    BY <1>1, <2>2, <2>3
<1>4. ASSUME NEW at \in InDelivery, NEW i \in Nat, Sig!Does(w, [work[w] EXCEPT !.at = at, !.who = i])
      PROVE  work'[w].at = at /\ work'[w].key = work[w].key /\ work'[w].n = work[w].n /\ work'[w].who = i
  <2>1. PICK r : r = [q EXCEPT !.at = at, !.who = i]
    OBVIOUS
  <2>2. r.at = at /\ r.key = q.key /\ r.n = q.n /\ r.who = i
    BY <2>1 DEF Deliveries
  <2>3. work'[w] = r
    BY <1>1, <1>2, <1>4, <2>1
  <2>4. QED
    BY <1>1, <2>2, <2>3
<1>5. Sig!Onward(q).at \in {"by id", "record"}
  BY GoingOn
<1>6. QED
  BY <1>1, <1>2, <1>3, <1>4, <1>5

\* Nobody is created or linked, and who begins to resolve has not decided yet.
LEMMA OneFrame ==
    ASSUME OnePerPerson, employee' = employee,
           \A v \in Workers : work'[v] = work[v] \/ work'[v].at \notin {"link", "create"}
    PROVE  OnePerPerson'
<1>1. ASSUME NEW v \in Workers PROVE Resolved(v)'
  BY <1>1 DEF OnePerPerson, Resolved, Sig!Place
<1>2. QED
  BY <1>1 DEF OnePerPerson, Distinct

LEMMA OneResolveById ==
    ASSUME Bodies, BothKnown, TypeInv, OnePerPerson, NEW w \in Workers, Sig!ResolveById(w)
    PROVE  OnePerPerson'
<1>1. SigWorkOK /\ work[w].at \in InDelivery /\ work[w].at \in Middle /\ Hop(w) /\ employee' = employee
  BY ResolveByIdHops DEF Sig!ResolveById, TypeInv, InDelivery, Middle
<1>2. Sig!Place(w).no # 0
  BY <1>1, PlaceNamed DEF BothKnown
<1>3. \/ Sig!Does(w, Sig!Onward(work[w]))
      \/ \E i \in Sig!GetEmployeeByHalaOSID(Sig!Place(w).id) : Sig!Does(w, [work[w] EXCEPT !.at = "store", !.who = i])
      \/ Sig!Does(w, [work[w] EXCEPT !.at = "by no"])
  BY <1>2 DEF Sig!ResolveById, Sig!Fails
<1>4. Sig!GetEmployeeByHalaOSID(Sig!Place(w).id) \subseteq Nat
  BY IdsNat DEF Sig!GetEmployeeByHalaOSID, TypeInv
<1>5. "store" \in InDelivery /\ "by no" \in InDelivery
  BY DEF InDelivery, Middle
<1>6. work'[w].at \in {"by id", "record", "store", "by no"}
  BY <1>1, <1>3, <1>4, <1>5, Whereto
<1>7. work'[w].at \notin {"link", "create"}
  BY <1>6
<1>8. QED
  BY <1>1, <1>7, OneFrame DEF Hop, SigOthers

LEMMA OneResolveByNo ==
    ASSUME Bodies, TypeInv, OnePerPerson, NEW w \in Workers, Sig!ResolveByNo(w)
    PROVE  OnePerPerson'
<1>1. SigWorkOK /\ work[w].at \in InDelivery /\ work[w].at \in Middle /\ Hop(w) /\ employee' = employee
  BY ResolveByNoHops DEF Sig!ResolveByNo, TypeInv, InDelivery, Middle
<1>2. {"store", "link", "create"} \subseteq InDelivery
  BY DEF InDelivery, Middle
<1>3. CASE Sig!Does(w, Sig!Onward(work[w]))
  <2>1. work'[w].at \in {"by id", "record"}
    BY <1>1, <1>3, Whereto
  <2>2. work'[w].at \notin {"link", "create"}
    BY <2>1
  <2>3. QED
    BY <1>1, <2>2, OneFrame DEF Hop, SigOthers
<1>4. ASSUME NEW i \in Sig!GetEmployeeByHalaOSNo(Sig!Place(w).no), NEW at \in {"store", "link"},
             Sig!Does(w, [work[w] EXCEPT !.at = at, !.who = i])
      PROVE  OnePerPerson'
  <2>1. i \in Nat /\ i \in DOMAIN employee /\ employee[i].no = Sig!Place(w).no
    BY DEF Sig!GetEmployeeByHalaOSNo, TypeInv, Sig!Ids
  <2>2. work'[w].at = at /\ work'[w].key = work[w].key /\ work'[w].n = work[w].n /\ work'[w].who = i
    BY <1>1, <1>2, <1>4, <2>1, Whereto
  <2>3. Resolved(w)'
    BY <1>1, <2>1, <2>2 DEF Resolved, Sig!Place
  <2>4. ASSUME NEW v \in Workers, v # w PROVE Resolved(v)'
    <3>1. work'[v] = work[v] /\ employee' = employee /\ Resolved(v)
      BY <1>1, <2>4 DEF OnePerPerson, Hop, SigOthers
    <3>2. QED
      BY <3>1 DEF Resolved, Sig!Place
  <2>5. QED
    BY <1>1, <2>3, <2>4 DEF OnePerPerson, Distinct
<1>5. CASE /\ Sig!GetEmployeeByHalaOSNo(Sig!Place(w).no) = {}
           /\ Sig!Does(w, [work[w] EXCEPT !.at = "create"])
  <2>1. work'[w].at = "create" /\ work'[w].key = work[w].key /\ work'[w].n = work[w].n
    BY <1>1, <1>2, <1>5, Whereto
  <2>2. \A i \in DOMAIN employee : employee[i].no # Sig!Place(w).no
    BY <1>5 DEF Sig!GetEmployeeByHalaOSNo, TypeInv, Sig!Ids
  <2>3. Resolved(w)'
    BY <1>1, <2>1, <2>2 DEF Resolved, Sig!Place
  <2>4. ASSUME NEW v \in Workers, v # w PROVE Resolved(v)'
    BY <1>1, <2>4 DEF OnePerPerson, Resolved, Sig!Place, Hop, SigOthers
  <2>5. QED
    BY <1>1, <2>3, <2>4 DEF OnePerPerson, Distinct
<1>6. QED
  <2>1. (IF Sig!Place(w).id # 0 THEN "link" ELSE "store") \in {"store", "link"}
    OBVIOUS
  <2>2. \/ Sig!Does(w, Sig!Onward(work[w]))
        \/ \E i \in Sig!GetEmployeeByHalaOSNo(Sig!Place(w).no) :
              Sig!Does(w, [work[w] EXCEPT !.at = IF Sig!Place(w).id # 0 THEN "link" ELSE "store", !.who = i])
        \/ /\ Sig!GetEmployeeByHalaOSNo(Sig!Place(w).no) = {}
           /\ Sig!Does(w, [work[w] EXCEPT !.at = "create"])
    BY DEF Sig!ResolveByNo, Sig!Fails
  <2>3. QED
    BY <1>3, <1>4, <1>5, <2>1, <2>2

\* What a row is changed to, or a new one is, keeps the others apart.
LEMMA OneLink ==
    ASSUME Bodies, BothKnown, TypeInv, OnePerPerson, NEW w \in Workers, Sig!LinkEmployee(w)
    PROVE  OnePerPerson'
<1>1. SigWorkOK /\ work[w].at = "link" /\ work[w].at \in InDelivery /\ work[w].at \in Middle /\ Hop(w)
  BY LinkEmployeeHops DEF Sig!LinkEmployee, TypeInv, InDelivery, Middle
<1>2. work'[w].at = "store"
  <2>1. "store" \in InDelivery /\ Sig!Does(w, [work[w] EXCEPT !.at = "store"])
    BY DEF Sig!LinkEmployee, InDelivery, Middle
  <2>2. QED
    BY <1>1, <2>1, Whereto
<1>3. PICK h \in Named : h = Sig!Place(w)
  BY <1>1, PlaceNamed
<1>4. PICK i : i = work[w].who
  OBVIOUS
<1>5. i \in DOMAIN employee /\ employee[i].no = h.no
  BY <1>1, <1>3, <1>4 DEF OnePerPerson, Resolved
<1>6. CASE employee' = employee
  BY <1>1, <1>2, <1>6, OneFrame DEF Hop, SigOthers
<1>7. CASE Sig!Unique(h.id, i) /\ employee' = [employee EXCEPT ![i] = h]
  <2>1. \A j \in DOMAIN employee : j # i => employee[j].id # h.id
    <3>1. h.id # 0 /\ Sig!Ids = DOMAIN employee
      BY DEF BothKnown, TypeInv, Sig!Ids
    <3>2. QED
      BY <1>7, <3>1 DEF Sig!Unique, Sig!GetEmployeeByHalaOSID
  <2>2. /\ DOMAIN employee' = DOMAIN employee
        /\ \A j \in DOMAIN employee : /\ employee'[j].no = employee[j].no
                                      /\ employee'[j].id = IF j = i THEN h.id ELSE employee[j].id
    BY <1>5, <1>7
  <2>3. Distinct(employee')
    BY <2>1, <2>2 DEF OnePerPerson, Distinct
  <2>4. ASSUME NEW v \in Workers PROVE Resolved(v)'
    <3>1. CASE work'[v].at = "link"
      <4>1. work'[v] = work[v]
        BY <1>1, <1>2, <3>1 DEF Hop, SigOthers
      <4>2. Sig!Place(v)' = Sig!Place(v)
        BY <4>1 DEF Sig!Place
      <4>3. QED
        BY <2>2, <3>1, <4>1, <4>2 DEF OnePerPerson, Resolved
    <3>2. CASE work'[v].at = "create"
      <4>1. work'[v] = work[v]
        BY <1>1, <1>2, <3>2 DEF Hop, SigOthers
      <4>2. Sig!Place(v)' = Sig!Place(v)
        BY <4>1 DEF Sig!Place
      <4>3. Sig!Place(v) \in Named
        BY <3>2, <4>1, PlaceNamed DEF Middle
      <4>4. h.no = Sig!Place(v).no => h.id = Sig!Place(v).id
        BY <4>3 DEF BothKnown
      <4>5. QED
        BY <1>5, <2>2, <3>2, <4>1, <4>2, <4>4 DEF OnePerPerson, Resolved
    <3>3. QED
      BY <3>1, <3>2 DEF Resolved
  <2>5. QED
    BY <2>3, <2>4 DEF OnePerPerson
<1>8. QED
  BY <1>3, <1>4, <1>6, <1>7 DEF Sig!LinkEmployee, Sig!UpdateEmployeeHalaOSLink

LEMMA OneCreate ==
    ASSUME Bodies, BothKnown, TypeInv, OnePerPerson, NEW w \in Workers, Sig!CreateEmployee(w)
    PROVE  OnePerPerson'
<1>1. SigWorkOK /\ work[w].at = "create" /\ work[w].at \in InDelivery /\ work[w].at \in Middle /\ Hop(w)
  BY CreateEmployeeHops DEF Sig!CreateEmployee, TypeInv, InDelivery, Middle
<1>2. PICK h \in Named : h = Sig!Place(w)
  BY <1>1, PlaceNamed
<1>3. CASE UNCHANGED employee /\ Sig!Does(w, Sig!Onward(work[w]))
  <2>1. work'[w].at \in {"by id", "record"}
    BY <1>1, <1>3, Whereto
  <2>2. work'[w].at \notin {"link", "create"}
    BY <2>1
  <2>3. QED
    BY <1>1, <1>3, <2>2, OneFrame DEF Hop, SigOthers
<1>4. CASE /\ Sig!Unique(h.id, 0) /\ employee' = Append(employee, h)
           /\ Sig!Does(w, [work[w] EXCEPT !.at = "store", !.who = Len(employee) + 1])
  <2>1. work'[w].at = "store"
    <3>1. "store" \in InDelivery /\ Len(employee) + 1 \in Nat
      BY IdsNat DEF InDelivery, Middle, TypeInv
    <3>2. QED
      BY <1>1, <1>4, <3>1, Whereto
  <2>2. \A j \in DOMAIN employee : employee[j].id # h.id /\ employee[j].no # h.no
    <3>1. h.id # 0 /\ Sig!Ids = DOMAIN employee /\ 0 \notin DOMAIN employee
      BY DEF BothKnown, TypeInv, Sig!Ids
    <3>2. \A j \in DOMAIN employee : employee[j].id # h.id
      BY <1>4, <3>1 DEF Sig!Unique, Sig!GetEmployeeByHalaOSID
    <3>3. QED
      BY <1>1, <1>2, <3>2 DEF OnePerPerson, Resolved
  <2>3. PICK n : n = Len(employee) + 1
    OBVIOUS
  <2>4. /\ DOMAIN employee' = DOMAIN employee \cup {n} /\ employee'[n] = h /\ n \notin DOMAIN employee
        /\ \A j \in DOMAIN employee : employee'[j] = employee[j]
    BY <1>4, <2>3 DEF TypeInv, Named
  <2>5. Distinct(employee')
    BY <2>2, <2>4 DEF OnePerPerson, Distinct
  <2>6. ASSUME NEW v \in Workers PROVE Resolved(v)'
    <3>1. CASE work'[v].at = "link"
      <4>1. work'[v] = work[v]
        BY <1>1, <2>1, <3>1 DEF Hop, SigOthers
      <4>2. Sig!Place(v)' = Sig!Place(v)
        BY <4>1 DEF Sig!Place
      <4>3. QED
        BY <2>4, <3>1, <4>1, <4>2 DEF OnePerPerson, Resolved
    <3>2. CASE work'[v].at = "create"
      <4>1. work'[v] = work[v]
        BY <1>1, <2>1, <3>2 DEF Hop, SigOthers
      <4>2. Sig!Place(v)' = Sig!Place(v)
        BY <4>1 DEF Sig!Place
      <4>3. Sig!Place(v) \in Named
        BY <3>2, <4>1, PlaceNamed DEF Middle
      <4>4. h.no = Sig!Place(v).no => h.id = Sig!Place(v).id
        BY <4>3 DEF BothKnown
      <4>5. QED
        BY <2>4, <3>2, <4>1, <4>2, <4>4 DEF OnePerPerson, Resolved
    <3>3. QED
      BY <3>1, <3>2 DEF Resolved
  <2>7. QED
    BY <2>5, <2>6 DEF OnePerPerson
<1>5. QED
  BY <1>2, <1>3, <1>4 DEF Sig!CreateEmployee, Sig!Fails, Sig!CreateEmployeeFromHalaOS

LEMMA OneStore ==
    ASSUME TypeInv, OnePerPerson, NEW w \in Workers, Sig!Store(w)
    PROVE  OnePerPerson'
<1>1. SigWorkOK /\ work[w].at \in InDelivery /\ Hop(w) /\ employee' = employee
  BY StoreHops DEF Sig!Store, TypeInv, InDelivery, Middle
<1>2. Sig!Does(w, Sig!Onward(work[w]))
  BY DEF Sig!Store, Sig!Fails
<1>3. work'[w].at \in {"by id", "record"}
  BY <1>1, <1>2, Whereto
<1>4. work'[w].at \notin {"link", "create"}
  BY <1>3
<1>5. QED
  BY <1>1, <1>4, OneFrame DEF Hop, SigOthers

LEMMA OneNext ==
    ASSUME Bodies, BothKnown, TypeInv, OnePerPerson, [Sig!Next]_Sig!vars
    PROVE  OnePerPerson'
<1>1. ASSUME NEW w \in Workers, SigOthers(w), employee' = employee, work'[w].at \notin {"link", "create"}
      PROVE  OnePerPerson'
  BY <1>1, OneFrame DEF SigOthers
<1>2. ASSUME NEW w \in Workers, NEW k \in Webhooks, Sig!Deliver(w, k) PROVE OnePerPerson'
  BY <1>1, <1>2, DeliverSteps
<1>3. ASSUME NEW w \in Workers, Sig!CheckEvent(w) PROVE OnePerPerson'
  <2>1. work'[w].at \notin {"link", "create"} /\ SigOthers(w) /\ employee' = employee
    BY <1>3, CheckEventSteps
  <2>2. QED
    BY <1>1, <2>1
<1>4. ASSUME NEW w \in Workers, Hops(w) PROVE OnePerPerson'
  BY <1>4, OneResolveById, OneResolveByNo, OneLink, OneCreate, OneStore DEF Hops
<1>5. ASSUME NEW w \in Workers, Sig!Record(w) PROVE OnePerPerson'
  BY <1>1, <1>5, RecordSteps
<1>6. ASSUME NEW w \in Workers, Elsewhere(w) PROVE OnePerPerson'
  <2>1. work'[w].at \notin {"link", "create"}
    BY <1>6 DEF Elsewhere, InDelivery, Middle
  <2>2. QED
    BY <1>1, <1>6, <2>1 DEF Elsewhere
<1>7. ASSUME Sig!Crash PROVE OnePerPerson'
  <2>1. \A v \in Workers : work'[v].at = "idle"
    BY <1>7, SigCrashSteps
  <2>2. QED
    BY <1>7, <2>1, SigCrashSteps, OneFrame
<1>8. CASE UNCHANGED <<employee, recorded, applied, disturbed, dropped, work>>
  BY <1>8, OneFrame
<1>9. QED
  BY <1>2, <1>3, <1>4, <1>5, <1>6, <1>7, <1>8, SigCases

\* Two employees never stand for one person, if the webhooks give both id and number:
\* the unique index of the id guards the number too.
THEOREM EmployeesStandForOne ==
    ASSUME Bodies, BothKnown
    PROVE  Sig!Spec => []Sig!OneEmployeePerPerson
<1>1. Sig!Init => TypeInv /\ OnePerPerson
  <2>1. Sig!Init => TypeInv
    BY SigTypeInit
  <2>2. Sig!Init => OnePerPerson
    BY AtFields DEF Sig!Init, OnePerPerson, Resolved, BothKnown
  <2>3. QED
    BY <2>1, <2>2
<1>2. TypeInv /\ OnePerPerson /\ [Sig!Next]_Sig!vars => (TypeInv /\ OnePerPerson)'
  BY SigTypeNext, OneNext
<1>3. TypeInv /\ OnePerPerson => Sig!OneEmployeePerPerson
  BY DEF OnePerPerson, Distinct, Sig!OneEmployeePerPerson, TypeInv, Sig!Ids
<1>4. QED
  BY <1>1, <1>2, <1>3, PTL DEF Sig!Spec

-----------------------------------------------------------------------------
(* Sync: types                                                             *)

\* What the steps of a session make of it, field by field.
LEMMA NextTable ==
    ASSUME NEW r \in Syn!Session, NEW t \in 1 .. Tables, NEW rs \in SUBSET (1 .. Tables)
    PROVE  /\ [r EXCEPT !.table = t, !.rows = rs] \in Syn!Session
           /\ [r EXCEPT !.table = t, !.rows = rs].at = r.at
           /\ [r EXCEPT !.table = t, !.rows = rs].storage = r.storage
           /\ [r EXCEPT !.table = t, !.rows = rs].since = r.since
           /\ [r EXCEPT !.table = t, !.rows = rs].table = t
  BY DEF Syn!Session

LEMMA Pushing ==
    ASSUME NEW r \in Syn!Session, NEW rs \in SUBSET (1 .. Tables)
    PROVE  /\ [r EXCEPT !.at = "push", !.rows = rs] \in Syn!Session
           /\ [r EXCEPT !.at = "push", !.rows = rs].at = "push"
           /\ [r EXCEPT !.at = "push", !.rows = rs].storage = r.storage
  BY DEF Syn!Session

LEMMA Completing ==
    ASSUME NEW r \in Syn!Session, NEW n \in Nat
    PROVE  /\ [r EXCEPT !.at = "complete", !.log = n] \in Syn!Session
           /\ [r EXCEPT !.at = "complete", !.log = n].at = "complete"
           /\ [r EXCEPT !.at = "complete", !.log = n].storage = r.storage
           /\ [r EXCEPT !.at = "complete", !.log = n].log = n
  BY DEF Syn!Session

LEMMA Finishing ==
    ASSUME NEW r \in Syn!Session
    PROVE  /\ [r EXCEPT !.at = "last"] \in Syn!Session
           /\ [r EXCEPT !.at = "last"].at = "last"
           /\ [r EXCEPT !.at = "last"].storage = r.storage
  BY DEF Syn!Session

\* The session of a storage that has just been asked for its manifest.
Begun(s, last) ==
    [at |-> "manifest", storage |-> s, since |-> last, table |-> 1, rows |-> {}, log |-> 0]

LEMMA BegunIsSession ==
    ASSUME Tables \in Nat \ {0}, NEW s \in Storages, NEW last \in Nat
    PROVE  Begun(s, last) \in Syn!Session
  BY DEF Begun, Syn!Session

\* A session's fields have their types, and it is not idle.
LEMMA SessionFields ==
    ASSUME NEW r \in Syn!Session
    PROVE  /\ r.at \in {"manifest", "push", "complete", "last"} /\ r.at # "idle"
           /\ r.storage \in Storages /\ r.since \in Nat /\ r.table \in 1 .. Tables
           /\ r.rows \in SUBSET (1 .. Tables) /\ r.log \in Nat
  BY DEF Syn!Session

\* One session's step leaves the types of the others alone.
AgentsOK == agent \in [Agents -> Syn!Session \cup {Syn!Idle}]

LEMMA SynSteps ==
    ASSUME AgentsOK, NEW a \in Agents, NEW r \in Syn!Session \cup {Syn!Idle}, Syn!Does(a, r)
    PROVE  /\ AgentsOK'
           /\ agent'[a] = r
           /\ \A b \in Agents : b # a => agent'[b] = agent[b]
  BY DEF AgentsOK, Syn!Does

\* A session that is not idle is one.
LEMMA NotIdle ==
    ASSUME AgentsOK, NEW a \in Agents, agent[a].at # "idle"
    PROVE  agent[a] \in Syn!Session
  BY DEF AgentsOK, Syn!Idle

LEMMA IdleFields == Syn!Idle.at = "idle"
  BY DEF Syn!Idle

Entry == [of : Storages, status : Syn!Status]
Logged == \A a \in Agents : agent[a].at = "complete" => agent[a].log \in DOMAIN log

\* The types of what no session's step but its own changes.
RestOK ==
    /\ clock \in Nat /\ sessions \in Nat /\ faults \in Nat
    /\ changed \in [1 .. Tables -> Nat] /\ \A t \in 1 .. Tables : changed[t] <= clock
    /\ config \in [Storages -> [set : BOOLEAN, last : Nat]] /\ \A s \in Storages : config[s].last <= clock
    /\ shown \in [Storages -> SUBSET (1 .. Tables)] /\ excused \in [Storages -> SUBSET (1 .. Tables)]

LEMMA SynParts == Syn!TypeOK <=> RestOK /\ log \in Seq(Entry) /\ AgentsOK /\ Logged
  BY DEF Syn!TypeOK, RestOK, AgentsOK, Logged, Entry

LEMMA SynPartsNext == (Syn!TypeOK <=> RestOK /\ log \in Seq(Entry) /\ AgentsOK /\ Logged)'
  BY DEF Syn!TypeOK, RestOK, AgentsOK, Logged, Entry

LEMMA SynTypeInit == ASSUME Syn!Init PROVE Syn!TypeOK
<1>1. RestOK
  BY DEF Syn!Init, RestOK, Syn!Never
<1>2. log \in Seq(Entry) /\ AgentsOK /\ Logged
  BY DEF Syn!Init, AgentsOK, Logged, Syn!Idle
<1>3. QED
  BY <1>1, <1>2, SynParts

LEMMA TypeChange ==
    ASSUME Syn!TypeOK, NEW t \in 1 .. Tables, Syn!Change(t)
    PROVE  Syn!TypeOK'
<1>1. RestOK'
  <2>1. clock' = clock + 1 /\ clock \in Nat
    BY DEF Syn!Change, Syn!TypeOK
  <2>2. changed' \in [1 .. Tables -> Nat] /\ \A k \in 1 .. Tables : changed'[k] <= clock'
    <3>1. changed \in [1 .. Tables -> Nat] /\ \A k \in 1 .. Tables : changed[k] <= clock
      BY DEF Syn!TypeOK
    <3>2. changed' = [changed EXCEPT ![t] = clock + 1]
      BY DEF Syn!Change
    <3>3. \A k \in 1 .. Tables : changed'[k] = IF k = t THEN clock + 1 ELSE changed[k]
      BY <3>1, <3>2
    <3>4. \A k \in 1 .. Tables : changed'[k] <= clock'
      BY <2>1, <3>1, <3>3
    <3>5. QED
      BY <2>1, <3>1, <3>2, <3>4
  <2>3. \A s \in Storages : config'[s].last <= clock'
    BY <2>1 DEF Syn!Change, Syn!TypeOK
  <2>4. shown' \in [Storages -> SUBSET (1 .. Tables)] /\ excused' \in [Storages -> SUBSET (1 .. Tables)]
    BY DEF Syn!Change, Syn!TypeOK
  <2>5. QED
    BY <2>1, <2>2, <2>3, <2>4 DEF Syn!Change, Syn!TypeOK, RestOK
<1>2. (log \in Seq(Entry) /\ AgentsOK /\ Logged)'
  BY SynParts DEF Syn!Change, AgentsOK, Logged
<1>3. QED
  BY <1>1, <1>2, SynPartsNext

LEMMA TypeConfigure ==
    ASSUME Syn!TypeOK, NEW s \in Storages, Syn!Configure(s)
    PROVE  Syn!TypeOK'
<1>1. RestOK'
  BY DEF Syn!Configure, Syn!CreateSyncConfig, Syn!TypeOK, RestOK, Syn!bounds, Syn!history
<1>2. (log \in Seq(Entry) /\ AgentsOK /\ Logged)'
  BY SynParts DEF Syn!Configure, AgentsOK, Logged
<1>3. QED
  BY <1>1, <1>2, SynPartsNext

\* The steps of the sessions count a failure or not.
LEMMA SynCountsType == ASSUME faults \in Nat, NEW ok \in BOOLEAN, Syn!Counts(ok) PROVE faults' \in Nat
  BY DEF Syn!Counts

LEMMA TypeGetManifest ==
    ASSUME Tables \in Nat \ {0}, Syn!TypeOK, NEW a \in Agents, NEW s \in Storages, Syn!GetManifest(a, s)
    PROVE  Syn!TypeOK'
<1>1. PICK ok \in BOOLEAN : Syn!Counts(ok) /\ Syn!Does(a, Begun(s, Syn!GetSyncConfig(s, ok)))
  BY DEF Syn!GetManifest, Begun
<1>2. Syn!GetSyncConfig(s, ok) \in Nat
  BY DEF Syn!GetSyncConfig, Syn!Never, Syn!TypeOK
<1>3. Begun(s, Syn!GetSyncConfig(s, ok)) \in Syn!Session
  BY <1>2, BegunIsSession
<1>4. AgentsOK
  BY SynParts
<1>5. AgentsOK' /\ agent'[a] = Begun(s, Syn!GetSyncConfig(s, ok)) /\ \A b \in Agents : b # a => agent'[b] = agent[b]
  BY <1>1, <1>3, <1>4, SynSteps
<1>6. Logged'
  BY <1>5, SynParts DEF Logged, Begun, Syn!GetManifest
<1>7. RestOK'
  <2>1. faults' \in Nat
    BY <1>1, SynCountsType DEF Syn!TypeOK
  <2>2. QED
    BY <2>1 DEF Syn!GetManifest, Syn!TypeOK, RestOK, Syn!history
<1>8. QED
  BY <1>5, <1>6, <1>7, SynParts, SynPartsNext DEF Syn!GetManifest

\* What querying the session's table comes to.
Rows(a, ok) == agent[a].rows \cup (IF ok THEN Syn!GetChanged(agent[a].table, agent[a].since) ELSE {})

LEMMA Queried ==
    ASSUME Tables \in Nat \ {0}, Syn!TypeOK, NEW a \in Agents, Syn!QueryTable(a)
    PROVE  /\ agent[a] \in Syn!Session
           /\ \E ok \in BOOLEAN :
                 /\ Syn!Counts(ok)
                 /\ shown' = IF ok THEN [shown EXCEPT ![agent[a].storage] =
                                            @ \cup Syn!GetChanged(agent[a].table, agent[a].since)] ELSE shown
                 /\ excused' = IF ok THEN excused
                               ELSE [excused EXCEPT ![agent[a].storage] = @ \cup {agent[a].table}]
                 /\ \E r \in Syn!Session \cup {Syn!Idle} :
                       /\ Syn!Does(a, r)
                       /\ r.at # "complete"
                       /\ r.at # "idle" => r.storage = agent[a].storage
                       /\ r.at = "manifest" =>
                             r.table = agent[a].table + 1 /\ r.since = agent[a].since
                       /\ r.at \in {"push", "last"} => agent[a].table = Tables
<1>1. agent[a] \in Syn!Session
  BY SynParts, NotIdle DEF Syn!QueryTable
<1>2. PICK ok \in BOOLEAN :
         /\ Syn!Counts(ok)
         /\ Syn!Does(a, IF agent[a].table < Tables
                    THEN [agent[a] EXCEPT !.table = agent[a].table + 1, !.rows = Rows(a, ok)]
                    ELSE IF Rows(a, ok) = {} THEN Syn!Idle
                    ELSE [agent[a] EXCEPT !.at = "push", !.rows = Rows(a, ok)])
         /\ shown' = IF ok THEN [shown EXCEPT ![agent[a].storage] =
                                    @ \cup Syn!GetChanged(agent[a].table, agent[a].since)] ELSE shown
         /\ excused' = IF ok THEN excused
                       ELSE [excused EXCEPT ![agent[a].storage] = @ \cup {agent[a].table}]
  BY Zenon DEF Syn!QueryTable, Rows
<1>3. agent[a].table \in 1 .. Tables /\ agent[a].rows \in SUBSET (1 .. Tables) /\ agent[a].at = "manifest"
  BY <1>1, SessionFields DEF Syn!QueryTable
<1>4. Rows(a, ok) \in SUBSET (1 .. Tables)
  BY <1>3 DEF Rows, Syn!GetChanged
<1>5. CASE agent[a].table < Tables
  <2> DEFINE r == [agent[a] EXCEPT !.table = agent[a].table + 1, !.rows = Rows(a, ok)]
  <2>1. agent[a].table + 1 \in 1 .. Tables
    BY <1>3, <1>5
  <2>2. r \in Syn!Session /\ r.at = "manifest" /\ r.storage = agent[a].storage
          /\ r.since = agent[a].since /\ r.table = agent[a].table + 1
    <3>1. PICK q \in Syn!Session : q = agent[a]
      BY <1>1
    <3>2. PICK k \in 1 .. Tables : k = agent[a].table + 1
      BY <2>1
    <3>3. PICK rs \in SUBSET (1 .. Tables) : rs = Rows(a, ok)
      BY <1>4
    <3>4. /\ [q EXCEPT !.table = k, !.rows = rs] \in Syn!Session
          /\ [q EXCEPT !.table = k, !.rows = rs].at = q.at
          /\ [q EXCEPT !.table = k, !.rows = rs].storage = q.storage
          /\ [q EXCEPT !.table = k, !.rows = rs].since = q.since
          /\ [q EXCEPT !.table = k, !.rows = rs].table = k
      BY NextTable
    <3>5. r = [q EXCEPT !.table = k, !.rows = rs]
      BY <3>1, <3>2, <3>3
    <3> HIDE DEF r
    <3>6. QED
      BY <1>3, <3>1, <3>2, <3>4, <3>5
  <2>3. Syn!Does(a, r)
    BY <1>2, <1>5
  <2> HIDE DEF r
  <2>4. QED
    BY <1>1, <1>2, <2>2, <2>3
<1>6. CASE ~ (agent[a].table < Tables) /\ Rows(a, ok) = {}
  <2>1. Syn!Does(a, Syn!Idle)
    BY <1>2, <1>6
  <2>2. QED
    BY <1>1, <1>2, <2>1, IdleFields
<1>7. CASE ~ (agent[a].table < Tables) /\ Rows(a, ok) # {}
  <2> DEFINE r == [agent[a] EXCEPT !.at = "push", !.rows = Rows(a, ok)]
  <2>1. r \in Syn!Session /\ r.at = "push" /\ r.storage = agent[a].storage
    BY <1>1, <1>3, <1>4, Pushing
  <2>2. Syn!Does(a, r)
    BY <1>2, <1>7
  <2>3. agent[a].table = Tables
    BY <1>3, <1>7
  <2> HIDE DEF r
  <2>4. QED
    BY <1>1, <1>2, <2>1, <2>2, <2>3
<1>8. QED
  BY <1>5, <1>6, <1>7

LEMMA TypeQueryTable ==
    ASSUME Tables \in Nat \ {0}, Syn!TypeOK, NEW a \in Agents, Syn!QueryTable(a)
    PROVE  Syn!TypeOK'
<1>1. PICK ok \in BOOLEAN, r \in Syn!Session \cup {Syn!Idle} :
         /\ Syn!Counts(ok) /\ Syn!Does(a, r) /\ r.at # "complete"
         /\ shown' = IF ok THEN [shown EXCEPT ![agent[a].storage] =
                                    @ \cup Syn!GetChanged(agent[a].table, agent[a].since)] ELSE shown
         /\ excused' = IF ok THEN excused
                       ELSE [excused EXCEPT ![agent[a].storage] = @ \cup {agent[a].table}]
  BY Queried
<1>2. agent[a].storage \in Storages /\ agent[a].table \in 1 .. Tables
  BY Queried, SessionFields
<1>3. AgentsOK' /\ agent'[a] = r /\ \A b \in Agents : b # a => agent'[b] = agent[b]
  BY <1>1, SynParts, SynSteps
<1>4. Logged'
  BY <1>1, <1>3, SynParts DEF Logged, Syn!QueryTable
<1>5. RestOK'
  <2>1. faults' \in Nat
    BY <1>1, SynCountsType DEF Syn!TypeOK
  <2>2. Syn!GetChanged(agent[a].table, agent[a].since) \in SUBSET (1 .. Tables)
    BY <1>2 DEF Syn!GetChanged
  <2>3. shown \in [Storages -> SUBSET (1 .. Tables)] /\ excused \in [Storages -> SUBSET (1 .. Tables)]
    BY DEF Syn!TypeOK
  <2>4. shown' \in [Storages -> SUBSET (1 .. Tables)] /\ excused' \in [Storages -> SUBSET (1 .. Tables)]
    BY <1>1, <1>2, <2>2, <2>3
  <2>5. QED
    BY <2>1, <2>4 DEF Syn!QueryTable, Syn!TypeOK, RestOK
<1>6. QED
  BY <1>3, <1>4, <1>5, SynParts, SynPartsNext DEF Syn!QueryTable

\* The steps that leave the rows alone.
Quiet == UNCHANGED <<changed, clock, sessions, Syn!history>> /\ \E ok \in BOOLEAN : Syn!Counts(ok)

LEMMA QuietRest ==
    ASSUME RestOK, Quiet, config' = config
    PROVE  RestOK'
  BY SynCountsType DEF RestOK, Quiet, Syn!history

LEMMA TypeReportResult ==
    ASSUME Syn!TypeOK, NEW a \in Agents, Syn!ReportResult(a)
    PROVE  Syn!TypeOK'
<1>1. agent[a] \in Syn!Session
  BY SynParts, NotIdle DEF Syn!ReportResult
<1>2. RestOK'
  BY SynParts, QuietRest DEF Syn!ReportResult, Quiet
<1>3. CASE log' = Syn!CreateSyncLog(agent[a].storage) /\ Syn!Does(a, [agent[a] EXCEPT !.at = "complete", !.log = Len(log) + 1])
  <2>1. log \in Seq(Entry) /\ [of |-> agent[a].storage, status |-> "running"] \in Entry
    BY <1>1, SynParts, SessionFields DEF Entry, Syn!Status
  <2>2. log' \in Seq(Entry) /\ DOMAIN log' = 1 .. (Len(log) + 1) /\ DOMAIN log = 1 .. Len(log) /\ Len(log) \in Nat
    BY <1>3, <2>1 DEF Syn!CreateSyncLog
  <2> DEFINE r == [agent[a] EXCEPT !.at = "complete", !.log = Len(log) + 1]
  <2>3. r \in Syn!Session /\ r.at = "complete" /\ r.log = Len(log) + 1
    <3>1. PICK n \in Nat : n = Len(log) + 1
      BY <2>2
    <3>2. /\ [agent[a] EXCEPT !.at = "complete", !.log = n] \in Syn!Session
          /\ [agent[a] EXCEPT !.at = "complete", !.log = n].at = "complete"
          /\ [agent[a] EXCEPT !.at = "complete", !.log = n].log = n
      BY <1>1, Completing
    <3>3. QED
      BY <3>1, <3>2
  <2>4. Syn!Does(a, r)
    BY <1>3
  <2> HIDE DEF r
  <2>5. AgentsOK' /\ agent'[a] = r /\ \A b \in Agents : b # a => agent'[b] = agent[b]
    BY <2>3, <2>4, SynParts, SynSteps
  <2>6. Logged'
    <3> SUFFICES ASSUME NEW b \in Agents, agent'[b].at = "complete" PROVE agent'[b].log \in DOMAIN log'
      BY DEF Logged
    <3>1. CASE b = a
      BY <2>2, <2>3, <2>5, <3>1
    <3>2. CASE b # a
      <4>1. agent[b].log \in 1 .. Len(log)
        BY <2>2, <2>5, <3>2, SynParts DEF Logged
      <4>2. QED
        BY <2>2, <2>5, <3>2, <4>1
    <3>3. QED
      BY <3>1, <3>2
  <2>7. QED
    BY <1>2, <2>2, <2>5, <2>6, SynPartsNext
<1>4. CASE log' = log /\ Syn!Does(a, Syn!Idle)
  <2>1. AgentsOK' /\ agent'[a] = Syn!Idle /\ \A b \in Agents : b # a => agent'[b] = agent[b]
    BY <1>4, SynParts, SynSteps
  <2>2. Logged'
    BY <1>4, <2>1, SynParts, IdleFields DEF Logged
  <2>3. QED
    BY <1>2, <1>4, <2>1, <2>2, SynParts, SynPartsNext
<1>5. QED
  BY <1>3, <1>4 DEF Syn!ReportResult

LEMMA TypeComplete ==
    ASSUME Syn!TypeOK, NEW a \in Agents, Syn!Complete(a)
    PROVE  Syn!TypeOK'
<1>1. agent[a] \in Syn!Session /\ agent[a].log \in DOMAIN log
  BY SynParts, NotIdle DEF Syn!Complete, Logged
<1>2. RestOK'
  BY SynParts, QuietRest DEF Syn!Complete, Quiet
<1>3. ASSUME NEW status \in {"completed", "completed_with_errors"}, log' = Syn!CompleteSyncLog(agent[a].log, status)
      PROVE  log' \in Seq(Entry) /\ DOMAIN log' = DOMAIN log
  <2>1. log \in Seq(Entry) /\ status \in Syn!Status
    BY SynParts DEF Syn!Status
  <2>2. [log[agent[a].log] EXCEPT !.status = status] \in Entry
    <3>1. log[agent[a].log] \in Entry
      BY <1>1, <2>1
    <3>2. QED
      BY <2>1, <3>1 DEF Entry
  <2>3. log' = [log EXCEPT ![agent[a].log] = [log[agent[a].log] EXCEPT !.status = status]]
    BY <1>3 DEF Syn!CompleteSyncLog
  <2>4. QED
    BY <1>1, <2>1, <2>2, <2>3
<1>4. CASE Syn!Does(a, [agent[a] EXCEPT !.at = "last"]) /\
           \E status \in {"completed", "completed_with_errors"} : log' = Syn!CompleteSyncLog(agent[a].log, status)
  <2> DEFINE r == [agent[a] EXCEPT !.at = "last"]
  <2>1. r \in Syn!Session /\ r.at = "last"
    BY <1>1, Finishing
  <2>2. Syn!Does(a, r)
    BY <1>4
  <2> HIDE DEF r
  <2>3. AgentsOK' /\ agent'[a] = r /\ \A b \in Agents : b # a => agent'[b] = agent[b]
    BY <2>1, <2>2, SynParts, SynSteps
  <2>4. log' \in Seq(Entry) /\ DOMAIN log' = DOMAIN log
    BY <1>3, <1>4
  <2>5. Logged'
    BY <2>1, <2>3, <2>4, SynParts DEF Logged
  <2>6. QED
    BY <1>2, <2>3, <2>4, <2>5, SynPartsNext
<1>5. CASE Syn!Does(a, Syn!Idle) /\ log' = log
  <2>1. AgentsOK' /\ agent'[a] = Syn!Idle /\ \A b \in Agents : b # a => agent'[b] = agent[b]
    BY <1>5, SynParts, SynSteps
  <2>2. Logged'
    BY <1>5, <2>1, SynParts, IdleFields DEF Logged
  <2>3. QED
    BY <1>2, <1>5, <2>1, <2>2, SynParts, SynPartsNext
<1>6. QED
  BY <1>4, <1>5 DEF Syn!Complete

LEMMA TypeSetLastSync ==
    ASSUME Syn!TypeOK, NEW a \in Agents, Syn!SetLastSync(a)
    PROVE  Syn!TypeOK'
<1>1. agent[a].storage \in Storages
  BY SynParts, NotIdle, SessionFields DEF Syn!SetLastSync
<1>2. AgentsOK' /\ agent'[a] = Syn!Idle /\ \A b \in Agents : b # a => agent'[b] = agent[b]
  BY SynParts, SynSteps DEF Syn!SetLastSync
<1>3. Logged'
  BY <1>2, SynParts, IdleFields DEF Logged, Syn!SetLastSync
<1>4. RestOK'
  <2>1. config \in [Storages -> [set : BOOLEAN, last : Nat]] /\ \A s \in Storages : config[s].last <= clock
    BY DEF Syn!TypeOK
  <2>2. clock \in Nat /\ clock' = clock
    BY DEF Syn!TypeOK, Syn!SetLastSync
  <2>3. [config[agent[a].storage] EXCEPT !.last = clock] \in [set : BOOLEAN, last : Nat]
    BY <1>1, <2>1, <2>2
  <2>4. Syn!UpdateLastSync(agent[a].storage) =
           [config EXCEPT ![agent[a].storage] = [config[agent[a].storage] EXCEPT !.last = clock]]
    BY DEF Syn!UpdateLastSync
  <2>5. Syn!UpdateLastSync(agent[a].storage) \in [Storages -> [set : BOOLEAN, last : Nat]]
    BY <2>1, <2>3, <2>4
  <2>6. \A s \in Storages : Syn!UpdateLastSync(agent[a].storage)[s].last =
                            IF s = agent[a].storage THEN clock ELSE config[s].last
    BY <1>1, <2>1, <2>4
  <2>7. \A s \in Storages : Syn!UpdateLastSync(agent[a].storage)[s].last <= clock
    BY <2>1, <2>2, <2>6
  <2>8. config' \in {config, Syn!UpdateLastSync(agent[a].storage)}
    BY DEF Syn!SetLastSync
  <2>9. config' \in [Storages -> [set : BOOLEAN, last : Nat]] /\ \A s \in Storages : config'[s].last <= clock'
    BY <2>1, <2>2, <2>5, <2>7, <2>8
  <2>10. faults' \in Nat
    BY SynCountsType DEF Syn!SetLastSync, Syn!TypeOK
  <2>11. QED
    BY <2>9, <2>10 DEF Syn!SetLastSync, Syn!TypeOK, RestOK, Syn!history
<1>5. QED
  BY <1>2, <1>3, <1>4, SynParts, SynPartsNext DEF Syn!SetLastSync

LEMMA TypeBreakOff ==
    ASSUME Syn!TypeOK, NEW a \in Agents, Syn!BreakOff(a)
    PROVE  Syn!TypeOK'
<1>1. AgentsOK' /\ agent'[a] = Syn!Idle /\ \A b \in Agents : b # a => agent'[b] = agent[b]
  BY SynParts, SynSteps DEF Syn!BreakOff
<1>2. Logged'
  BY <1>1, SynParts, IdleFields DEF Logged, Syn!BreakOff
<1>3. RestOK'
  BY DEF Syn!BreakOff, Syn!TypeOK, RestOK, Syn!history
<1>4. QED
  BY <1>1, <1>2, <1>3, SynParts, SynPartsNext DEF Syn!BreakOff

LEMMA SynTypeStutter == ASSUME Syn!TypeOK, UNCHANGED Syn!vars PROVE Syn!TypeOK'
<1>1. RestOK'
  BY DEF Syn!vars, Syn!bounds, Syn!history, Syn!TypeOK, RestOK
<1>2. (log \in Seq(Entry) /\ AgentsOK /\ Logged)'
  BY SynParts DEF Syn!vars, AgentsOK, Logged
<1>3. QED
  BY <1>1, <1>2, SynPartsNext

LEMMA SynTypeNext ==
    ASSUME Tables \in Nat \ {0}, Syn!TypeOK, [Syn!Next]_Syn!vars
    PROVE  Syn!TypeOK'
<1>1. CASE Syn!Next
  BY <1>1, TypeChange, TypeConfigure, TypeGetManifest, TypeQueryTable, TypeReportResult,
     TypeComplete, TypeSetLastSync, TypeBreakOff DEF Syn!Next
<1>2. QED
  BY <1>1, SynTypeStutter

\* Every variable has its type for any number of sessions, changes and faults.
THEOREM SyncTypes == ASSUME Tables \in Nat \ {0} PROVE Syn!Spec => []Syn!TypeOK
<1>1. Syn!Init => Syn!TypeOK
  BY SynTypeInit
<1>2. Syn!TypeOK /\ [Syn!Next]_Syn!vars => Syn!TypeOK'
  BY SynTypeNext
<1>3. QED
  BY <1>1, <1>2, PTL DEF Syn!Spec

-----------------------------------------------------------------------------
(* Sync: nothing else is missed                                            *)

\* Why: a session of a storage vouches for every row that changed.  It is shown
\* or excused already, or the manifest has still to come to its table and will
\* not find it too old.
Vouched(a, t) ==
    agent[a].at # "idle" /\ changed[t] >= 1 /\ t \notin shown[agent[a].storage] \cup excused[agent[a].storage]
        => agent[a].at = "manifest" /\ t >= agent[a].table /\ changed[t] > agent[a].since

AllVouched == \A a \in Agents, t \in 1 .. Tables : Vouched(a, t)

\* And no row is too old for a storage before it was shown or excused.
Seen == \A s \in Storages, t \in 1 .. Tables :
            changed[t] >= 1 /\ changed[t] <= config[s].last => t \in shown[s] \cup excused[s]

Missed == AllVouched /\ Seen

LEMMA MissedInit == ASSUME Syn!Init PROVE Missed
  BY IdleFields DEF Syn!Init, Missed, AllVouched, Vouched, Seen, Syn!Never

LEMMA MissedChange ==
    ASSUME Syn!TypeOK, Missed, NEW t \in 1 .. Tables, Syn!Change(t)
    PROVE  Missed'
<1>1. /\ clock \in Nat /\ agent' = agent /\ config' = config
      /\ \A k \in 1 .. Tables : changed[k] \in Nat /\ changed'[k] = IF k = t THEN clock + 1 ELSE changed[k]
      /\ \A s \in Storages : shown'[s] = shown[s] \ {t} /\ config[s].last \in Nat /\ config[s].last <= clock
      /\ \A s \in Storages : excused'[s] = IF Syn!UnderWay(s) THEN excused[s] \cup {t} ELSE excused[s] \ {t}
  <2>1. changed \in [1 .. Tables -> Nat] /\ clock \in Nat
    BY DEF Syn!TypeOK
  <2>2. \A k \in 1 .. Tables : changed[k] \in Nat /\ changed'[k] = IF k = t THEN clock + 1 ELSE changed[k]
    BY <2>1 DEF Syn!Change
  <2>3. \A s \in Storages : config[s].last \in Nat /\ config[s].last <= clock
    BY DEF Syn!TypeOK
  <2>4. QED
    BY <2>1, <2>2, <2>3 DEF Syn!Change
<1>2. ASSUME NEW a \in Agents, NEW k \in 1 .. Tables PROVE Vouched(a, k)'
  <2> SUFFICES ASSUME agent[a].at # "idle", changed'[k] >= 1,
                      k \notin shown'[agent[a].storage] \cup excused'[agent[a].storage]
               PROVE  agent[a].at = "manifest" /\ k >= agent[a].table /\ changed'[k] > agent[a].since
    BY <1>1 DEF Vouched
  <2>1. agent[a].storage \in Storages
    BY SynParts, NotIdle, SessionFields
  <2>2. Syn!UnderWay(agent[a].storage)
    BY DEF Syn!UnderWay
  <2>3. k # t
    BY <1>1, <2>1, <2>2
  <2>4. k \notin shown[agent[a].storage] \cup excused[agent[a].storage]
    BY <1>1, <2>1, <2>2, <2>3
  <2>5. QED
    BY <1>1, <2>3, <2>4 DEF Missed, AllVouched, Vouched
<1>3. ASSUME NEW s \in Storages, NEW k \in 1 .. Tables, changed'[k] >= 1, changed'[k] <= config[s].last
      PROVE  k \in shown'[s] \cup excused'[s]
  <2>1. k # t
    BY <1>1, <1>3
  <2>2. k \in shown[s] \cup excused[s]
    BY <1>1, <1>3, <2>1 DEF Missed, Seen
  <2>3. QED
    BY <1>1, <2>1, <2>2
<1>4. QED
  BY <1>1, <1>2, <1>3 DEF Missed, AllVouched, Seen

LEMMA MissedConfigure ==
    ASSUME Syn!TypeOK, Missed, NEW s \in Storages, Syn!Configure(s)
    PROVE  Missed'
<1>1. UNCHANGED <<changed, agent, shown, excused>>
  BY DEF Syn!Configure, Syn!history
<1>2. \A r \in Storages : config'[r].last = config[r].last
  BY DEF Syn!Configure, Syn!CreateSyncConfig, Syn!TypeOK
<1>3. QED
  BY <1>1, <1>2 DEF Missed, AllVouched, Vouched, Seen

\* A step that ends a session, or carries it on after its manifest.
LEMMA MissedStep ==
    ASSUME Syn!TypeOK, Missed, NEW a \in Agents, UNCHANGED <<changed, config, shown, excused>>,
           \A b \in Agents : b # a => agent'[b] = agent[b],
           agent'[a].at # "idle" =>
               /\ agent[a].at \notin {"idle", "manifest"}
               /\ agent'[a].storage = agent[a].storage
    PROVE  Missed'
<1>1. ASSUME NEW b \in Agents, NEW t \in 1 .. Tables PROVE Vouched(b, t)'
  <2>1. CASE b # a
    BY <2>1 DEF Missed, AllVouched, Vouched
  <2>2. CASE b = a
    BY <2>2 DEF Missed, AllVouched, Vouched
  <2>3. QED
    BY <2>1, <2>2
<1>2. QED
  BY <1>1 DEF Missed, AllVouched, Seen

LEMMA MissedGetManifest ==
    ASSUME Tables \in Nat \ {0}, Syn!TypeOK, Missed, NEW a \in Agents, NEW s \in Storages, Syn!GetManifest(a, s)
    PROVE  Missed'
<1>1. PICK ok \in BOOLEAN : Syn!Does(a, Begun(s, Syn!GetSyncConfig(s, ok)))
  BY DEF Syn!GetManifest, Begun
<1>2. Syn!GetSyncConfig(s, ok) \in {config[s].last, 0} /\ config[s].last \in Nat
  BY DEF Syn!GetSyncConfig, Syn!Never, Syn!TypeOK
<1>3. Begun(s, Syn!GetSyncConfig(s, ok)) \in Syn!Session
  BY <1>2, BegunIsSession
<1>4. agent'[a] = Begun(s, Syn!GetSyncConfig(s, ok)) /\ \A b \in Agents : b # a => agent'[b] = agent[b]
  BY <1>1, <1>3, SynParts, SynSteps
<1>5. /\ agent'[a].at = "manifest" /\ agent'[a].table = 1 /\ agent'[a].storage = s
      /\ agent'[a].since \in {config[s].last, 0}
  BY <1>2, <1>4 DEF Begun
<1>6. UNCHANGED <<changed, config, shown, excused>>
  BY DEF Syn!GetManifest, Syn!history
<1>7. ASSUME NEW b \in Agents, NEW t \in 1 .. Tables PROVE Vouched(b, t)'
  <2>1. CASE b # a
    BY <1>4, <1>6, <2>1 DEF Missed, AllVouched, Vouched
  <2>2. CASE b = a
    <3>1. changed[t] \in Nat
      BY DEF Syn!TypeOK
    <3>2. SUFFICES ASSUME changed[t] >= 1, t \notin shown[s] \cup excused[s]
                   PROVE  changed[t] > agent'[a].since
      BY <1>5, <1>6, <2>2 DEF Vouched
    <3>3. ~ (changed[t] <= config[s].last)
      BY <3>2 DEF Missed, Seen
    <3>4. QED
      BY <1>2, <1>5, <3>1, <3>2, <3>3
  <2>3. QED
    BY <2>1, <2>2
<1>8. QED
  BY <1>6, <1>7 DEF Missed, AllVouched, Seen

LEMMA MissedQueryTable ==
    ASSUME Tables \in Nat \ {0}, Syn!TypeOK, Missed, NEW a \in Agents, Syn!QueryTable(a)
    PROVE  Missed'
<1>1. PICK ok \in BOOLEAN, r \in Syn!Session \cup {Syn!Idle} :
         /\ Syn!Does(a, r) /\ r.at # "complete"
         /\ r.at # "idle" => r.storage = agent[a].storage
         /\ r.at = "manifest" => r.table = agent[a].table + 1 /\ r.since = agent[a].since
         /\ r.at \in {"push", "last"} => agent[a].table = Tables
         /\ shown' = IF ok THEN [shown EXCEPT ![agent[a].storage] =
                                    @ \cup Syn!GetChanged(agent[a].table, agent[a].since)] ELSE shown
         /\ excused' = IF ok THEN excused
                       ELSE [excused EXCEPT ![agent[a].storage] = @ \cup {agent[a].table}]
  BY Queried
<1>2. /\ agent[a].at = "manifest" /\ agent[a].storage \in Storages /\ agent[a].table \in 1 .. Tables
      /\ agent[a].since \in Nat
  BY Queried, SessionFields DEF Syn!QueryTable
<1>3. agent'[a] = r /\ \A b \in Agents : b # a => agent'[b] = agent[b]
  BY <1>1, SynParts, SynSteps
<1>4. UNCHANGED <<changed, config>>
  BY DEF Syn!QueryTable
<1>5. \A s \in Storages : shown[s] \subseteq shown'[s] /\ excused[s] \subseteq excused'[s]
  <2>1. shown \in [Storages -> SUBSET (1 .. Tables)] /\ excused \in [Storages -> SUBSET (1 .. Tables)]
    BY DEF Syn!TypeOK
  <2>2. QED
    BY <1>1, <1>2, <2>1
<1>6. changed[agent[a].table] > agent[a].since =>
         agent[a].table \in shown'[agent[a].storage] \cup excused'[agent[a].storage]
  <2>1. shown \in [Storages -> SUBSET (1 .. Tables)] /\ excused \in [Storages -> SUBSET (1 .. Tables)]
    BY DEF Syn!TypeOK
  <2>2. QED
    BY <1>1, <1>2, <2>1 DEF Syn!GetChanged
<1>7. ASSUME NEW b \in Agents, NEW t \in 1 .. Tables PROVE Vouched(b, t)'
  <2>1. CASE b # a
    <3> SUFFICES ASSUME agent[b].at # "idle", changed[t] >= 1,
                        t \notin shown'[agent[b].storage] \cup excused'[agent[b].storage]
                 PROVE  agent[b].at = "manifest" /\ t >= agent[b].table /\ changed[t] > agent[b].since
      BY <1>3, <1>4, <2>1 DEF Vouched
    <3>1. agent[b].storage \in Storages
      BY SynParts, NotIdle, SessionFields
    <3>2. t \notin shown[agent[b].storage] \cup excused[agent[b].storage]
      BY <1>5, <3>1
    <3>3. QED
      BY <3>2 DEF Missed, AllVouched, Vouched
  <2>2. CASE b = a
    <3> SUFFICES ASSUME r.at # "idle", changed[t] >= 1,
                        t \notin shown'[agent[a].storage] \cup excused'[agent[a].storage]
                 PROVE  r.at = "manifest" /\ t >= r.table /\ changed[t] > r.since
      BY <1>1, <1>3, <1>4, <2>2 DEF Vouched
    <3>1. t \notin shown[agent[a].storage] \cup excused[agent[a].storage]
      BY <1>2, <1>5
    <3>2. t >= agent[a].table /\ changed[t] > agent[a].since
      BY <1>2, <3>1 DEF Missed, AllVouched, Vouched
    <3>3. t # agent[a].table
      BY <1>6, <3>2
    <3>4. r.at = "manifest"
      <4>1. r.at \in {"manifest", "push", "complete", "last"}
        BY SessionFields, IdleFields
      <4>2. agent[a].table # Tables
        BY <1>2, <3>2, <3>3
      <4>3. QED
        BY <1>1, <4>1, <4>2
    <3>5. QED
      BY <1>1, <1>2, <3>2, <3>3, <3>4
  <2>3. QED
    BY <2>1, <2>2
<1>8. Seen'
  BY <1>4, <1>5 DEF Missed, Seen
<1>9. QED
  BY <1>7, <1>8 DEF Missed, AllVouched

LEMMA MissedReportResult ==
    ASSUME Syn!TypeOK, Missed, NEW a \in Agents, Syn!ReportResult(a)
    PROVE  Missed'
<1>1. agent[a] \in Syn!Session /\ Len(log) + 1 \in Nat
  BY SynParts, NotIdle DEF Syn!ReportResult
<1>2. PICK r \in Syn!Session \cup {Syn!Idle} : Syn!Does(a, r) /\ (r.at # "idle" => r.storage = agent[a].storage)
  <2>1. PICK n \in Nat : n = Len(log) + 1
    BY <1>1
  <2>2. /\ [agent[a] EXCEPT !.at = "complete", !.log = n] \in Syn!Session
        /\ [agent[a] EXCEPT !.at = "complete", !.log = n].storage = agent[a].storage
    BY <1>1, Completing
  <2>3. Syn!Does(a, Syn!Idle) \/ Syn!Does(a, [agent[a] EXCEPT !.at = "complete", !.log = n])
    BY <2>1 DEF Syn!ReportResult
  <2>4. QED
    BY <2>2, <2>3, IdleFields
<1>3. agent'[a] = r /\ \A b \in Agents : b # a => agent'[b] = agent[b]
  BY <1>2, SynParts, SynSteps
<1>4. UNCHANGED <<changed, config, shown, excused>> /\ agent[a].at = "push"
  BY DEF Syn!ReportResult, Syn!history
<1>5. QED
  BY <1>2, <1>3, <1>4, MissedStep

LEMMA MissedComplete ==
    ASSUME Syn!TypeOK, Missed, NEW a \in Agents, Syn!Complete(a)
    PROVE  Missed'
<1>1. agent[a] \in Syn!Session
  BY SynParts, NotIdle DEF Syn!Complete
<1>2. PICK r \in Syn!Session \cup {Syn!Idle} : Syn!Does(a, r) /\ (r.at # "idle" => r.storage = agent[a].storage)
  <2>1. /\ [agent[a] EXCEPT !.at = "last"] \in Syn!Session
        /\ [agent[a] EXCEPT !.at = "last"].storage = agent[a].storage
    BY <1>1, Finishing
  <2>2. Syn!Does(a, Syn!Idle) \/ Syn!Does(a, [agent[a] EXCEPT !.at = "last"])
    BY DEF Syn!Complete
  <2>3. QED
    BY <2>1, <2>2, IdleFields
<1>3. agent'[a] = r /\ \A b \in Agents : b # a => agent'[b] = agent[b]
  BY <1>2, SynParts, SynSteps
<1>4. UNCHANGED <<changed, config, shown, excused>> /\ agent[a].at = "complete"
  BY DEF Syn!Complete, Syn!history
<1>5. QED
  BY <1>2, <1>3, <1>4, MissedStep

\* The last synchronisation becomes the time of the report: whatever changed
\* until now the session vouches for.
LEMMA MissedSetLastSync ==
    ASSUME Syn!TypeOK, Missed, NEW a \in Agents, Syn!SetLastSync(a)
    PROVE  Missed'
<1>1. agent[a].storage \in Storages /\ agent[a].at = "last"
  BY SynParts, NotIdle, SessionFields DEF Syn!SetLastSync
<1>2. agent'[a] = Syn!Idle /\ \A b \in Agents : b # a => agent'[b] = agent[b]
  BY SynParts, SynSteps DEF Syn!SetLastSync
<1>3. UNCHANGED <<changed, shown, excused>>
  BY DEF Syn!SetLastSync, Syn!history
<1>4. \A s \in Storages : s # agent[a].storage => config'[s] = config[s]
  BY DEF Syn!SetLastSync, Syn!UpdateLastSync, Syn!TypeOK
<1>5. AllVouched'
  <2> SUFFICES ASSUME NEW b \in Agents, NEW t \in 1 .. Tables PROVE Vouched(b, t)'
    BY DEF AllVouched
  <2>1. CASE b # a
    BY <1>2, <1>3, <2>1 DEF Missed, AllVouched, Vouched
  <2>2. CASE b = a
    BY <1>2, <2>2, IdleFields DEF Vouched
  <2>3. QED
    BY <2>1, <2>2
<1>6. Seen'
  <2> SUFFICES ASSUME NEW s \in Storages, NEW t \in 1 .. Tables, changed[t] >= 1, changed[t] <= config'[s].last
               PROVE  t \in shown[s] \cup excused[s]
    BY <1>3 DEF Seen
  <2>1. CASE s = agent[a].storage
    BY <1>1, <2>1 DEF Missed, AllVouched, Vouched
  <2>2. CASE s # agent[a].storage
    BY <1>4, <2>2 DEF Missed, Seen
  <2>3. QED
    BY <2>1, <2>2
<1>7. QED
  BY <1>5, <1>6 DEF Missed

LEMMA MissedBreakOff ==
    ASSUME Syn!TypeOK, Missed, NEW a \in Agents, Syn!BreakOff(a)
    PROVE  Missed'
<1>1. agent'[a] = Syn!Idle /\ \A b \in Agents : b # a => agent'[b] = agent[b]
  BY SynParts, SynSteps DEF Syn!BreakOff
<1>2. UNCHANGED <<changed, config, shown, excused>>
  BY DEF Syn!BreakOff, Syn!history
<1>3. QED
  BY <1>1, <1>2, IdleFields, MissedStep

LEMMA MissedNext ==
    ASSUME Tables \in Nat \ {0}, Syn!TypeOK, Missed, [Syn!Next]_Syn!vars
    PROVE  Missed'
<1>1. CASE Syn!Next
  BY <1>1, MissedChange, MissedConfigure, MissedGetManifest, MissedQueryTable, MissedReportResult,
     MissedComplete, MissedSetLastSync, MissedBreakOff DEF Syn!Next
<1>2. CASE UNCHANGED Syn!vars
  BY <1>2 DEF Syn!vars, Syn!bounds, Syn!history, Missed, AllVouched, Vouched, Seen
<1>3. QED
  BY <1>1, <1>2

\* However many sessions of however many storages overlap, fail and begin again,
\* a change is left out of all later manifests only if it was shown, made under
\* way, or if its query failed.
THEOREM MissedOnly == ASSUME Tables \in Nat \ {0} PROVE Syn!Spec => []Syn!OnlyTheseAreMissed
<1>1. Syn!Init => Syn!TypeOK /\ Missed
  BY SynTypeInit, MissedInit
<1>2. Syn!TypeOK /\ Missed /\ [Syn!Next]_Syn!vars => (Syn!TypeOK /\ Missed)'
  BY SynTypeNext, MissedNext
<1>3. Syn!TypeOK /\ Missed => Syn!OnlyTheseAreMissed
  BY DEF Syn!TypeOK, Missed, Seen, Syn!OnlyTheseAreMissed, Syn!Behind
<1>4. QED
  BY <1>1, <1>2, <1>3, PTL DEF Syn!Spec

-----------------------------------------------------------------------------
(* Memory: a merged insight is recalled by the row that covers it          *)

CONSTANTS MaxMemories, Similar

VARIABLES memories, nextMemory, covers, twoAtOnce

Mem == INSTANCE Memory WITH MaxRows <- MaxMemories, row <- memories, nextRow <- nextMemory,
   overlapped <- twoAtOnce


MemoryBase == MaxMemories \in Nat

MemoriesOK ==
    /\ nextMemory \in Nat \ {0}
    /\ memories = [i \in Mem!Rows |-> memories[i]]
    /\ covers = [i \in Mem!Rows |-> covers[i]]
    /\ \A i \in Mem!Rows :
          /\ memories[i] = [tier |-> memories[i].tier, vec |-> memories[i].vec, old |-> memories[i].old, into |-> memories[i].into]
          /\ i >= nextMemory => memories[i] = Mem!NoRow
          /\ memories[i].tier \in Mem!Tiers \cup {"none"}

\* What may expire is short-term, and an insight is part of its own row.
Insights ==
    \A i \in Mem!Rows :
        /\ memories[i].old => memories[i].tier = "short_term"
        /\ memories[i].tier = "short_term" => i \in covers[i]
        /\ memories[i].tier \in {"none", "long_term"} => memories[i].into = 0

\* A row that is merged into another one is covered by it, which is there.
References ==
    \A i \in Mem!Rows : memories[i].into # 0 =>
        /\ memories[i].into \in Mem!Rows
        /\ memories[i].tier = "short_term" => memories[memories[i].into].tier = "long_term" /\ i \in covers[memories[i].into]
        /\ memories[i].tier = "profile" => memories[memories[i].into].tier = "profile"

\* What a goroutine has read or stored is of a tier, unless it is gone.
Read(i, tier) == i \in Mem!Rows /\ i < nextMemory /\ memories[i].tier \in {tier, "none"}
Insight(i) == Read(i, "short_term") /\ i \in covers[i]
GoroutineOK(w) ==
    /\ w = [at |-> w.at, todo |-> w.todo, marks |-> w.marks, target |-> w.target, left |-> w.left, vec |-> w.vec]
    /\ w.at \in {"merge", "mark"} => \A c \in w.todo : \A i \in c : Insight(i)
    /\ w.at = "mark" => Read(w.target, "long_term") /\ \A i \in w.marks : Insight(i) /\ i \in covers[w.target]
    /\ w.at \in {"refresh", "replace"} => Read(w.target, "profile")
    /\ w.at = "replace" => \A i \in w.marks : Read(i, "profile")
GoroutinesOK == work = [p \in Workers |-> work[p]] /\ \A p \in Workers : GoroutineOK(work[p])

MemoryInv == MemoriesOK /\ Insights /\ References /\ GoroutinesOK

LEMMA RecalledMeans == ASSUME MemoryBase, MemoryInv PROVE Mem!StillRecalled
  BY DEF MemoryInv, MemoriesOK, Insights, References, Mem!StillRecalled, Mem!SearchSimilar, Mem!Live, Mem!Stored, Mem!Rows

LEMMA MemoryInit == ASSUME MemoryBase, Mem!Init PROVE MemoryInv
<1>1. MemoriesOK /\ Insights /\ References
  BY DEF Mem!Init, MemoriesOK, Insights, References, Mem!NoRow, Mem!Tiers
<1>2. GoroutinesOK
  BY DEF Mem!Init, GoroutinesOK, GoroutineOK, Mem!Idle
<1>3. QED
  BY <1>1, <1>2 DEF MemoryInv

\* The rows change so that what was read stays what it was, or is gone.
Stays ==
    /\ nextMemory' >= nextMemory
    /\ \A i \in Mem!Rows : i < nextMemory => covers'[i] = covers[i] /\ memories'[i].tier \in {memories[i].tier, "none"}
TableOK == MemoriesOK /\ Insights /\ References

LEMMA GoroutineStays ==
    ASSUME MemoryBase, nextMemory \in Nat, nextMemory' \in Nat, Stays, NEW w, GoroutineOK(w)
    PROVE  GoroutineOK(w)'
<1>1. \A i, t : Read(i, t) => Read(i, t)'
  BY DEF Stays, Read, Mem!Rows, MemoryBase
<1>2. \A i : Insight(i) => Insight(i)'
  BY <1>1 DEF Stays, Read, Insight, Mem!Rows, MemoryBase
<1>3. \A i : Read(w.target, "long_term") /\ i \in covers[w.target] => i \in covers'[w.target]
  BY DEF Stays, Read
<1>4. QED
  BY <1>1, <1>2, <1>3 DEF GoroutineOK

LEMMA GoroutinesStay ==
    ASSUME MemoryBase, MemoryInv, nextMemory' \in Nat, Stays, NEW p \in Workers, NEW x, GoroutineOK(x)',
           work' = work \/ work' = [work EXCEPT ![p] = x]
    PROVE  GoroutinesOK'
<1>1. nextMemory \in Nat
  BY DEF MemoryInv, MemoriesOK
<1>2. ASSUME NEW q \in Workers PROVE GoroutineOK(work[q])'
  <2>1. PICK w : w = work[q]
    OBVIOUS
  <2>2. GoroutineOK(w)
    BY <2>1 DEF MemoryInv, GoroutinesOK
  <2>3. GoroutineOK(w)'
    BY <1>1, <2>2, GoroutineStays
  <2>4. work'[q] = w \/ work'[q] = x
    BY <2>1 DEF MemoryInv, GoroutinesOK
  <2>5. QED
    BY <2>3, <2>4
<1>3. QED
  BY <1>2 DEF MemoryInv, GoroutinesOK


LEMMA ReadStays ==
    ASSUME MemoryBase, nextMemory \in Nat, nextMemory' \in Nat, Stays
    PROVE  (\A i, t : Read(i, t) => Read(i, t)') /\ \A i : Insight(i) => Insight(i)'
<1>1. \A i, t : Read(i, t) => Read(i, t)'
  BY DEF Stays, Read, Mem!Rows, MemoryBase
<1>2. QED
  BY <1>1 DEF Stays, Read, Insight

\* The table stays, and a goroutine goes on.
LEMMA OnlyGoroutine ==
    ASSUME MemoryBase, MemoryInv, UNCHANGED <<memories, nextMemory, covers>>, NEW p \in Workers, NEW x, GoroutineOK(x),
           work' = work \/ work' = [work EXCEPT ![p] = x]
    PROVE  MemoryInv'
<1>1. nextMemory \in Nat /\ nextMemory' \in Nat /\ Stays
  BY DEF MemoryInv, MemoriesOK, Stays
<1>2. GoroutineOK(x)'
  BY <1>1, GoroutineStays
<1>3. GoroutinesOK'
  BY <1>1, <1>2, GoroutinesStay
<1>4. MemoriesOK' /\ Insights' /\ References'
  BY DEF MemoryInv, MemoriesOK, Insights, References
<1>5. QED
  BY <1>3, <1>4 DEF MemoryInv

\* A row is stored.
LEMMA RowMade ==
    ASSUME MemoryBase, TableOK, NEW tier \in Mem!Tiers, NEW vec, NEW of, tier = "short_term" => of = {},
           Mem!CreateMemory(tier, vec, of)
    PROVE  /\ TableOK' /\ Stays /\ nextMemory' \in Nat /\ nextMemory \in Mem!Rows /\ nextMemory < nextMemory'
           /\ memories'[nextMemory].tier = tier
           /\ covers'[nextMemory] = (IF of = {} THEN {nextMemory} ELSE of)
<1> DEFINE x == [tier |-> tier, vec |-> vec, old |-> FALSE, into |-> 0]
           y == IF of = {} THEN {nextMemory} ELSE of
<1>1. /\ nextMemory \in Mem!Rows /\ nextMemory' = nextMemory + 1 /\ nextMemory \in Nat
      /\ memories' = [memories EXCEPT ![nextMemory] = x] /\ covers' = [covers EXCEPT ![nextMemory] = y]
  BY DEF Mem!CreateMemory, TableOK, MemoriesOK
<1>2. /\ x.tier = tier /\ x.old = FALSE /\ x.into = 0 /\ x = [tier |-> x.tier, vec |-> x.vec, old |-> x.old, into |-> x.into]
      /\ y = (IF of = {} THEN {nextMemory} ELSE of) /\ (tier = "short_term" => nextMemory \in y)
  OBVIOUS
<1> HIDE DEF x, y
<1>3. /\ memories' = [i \in Mem!Rows |-> memories'[i]] /\ covers' = [i \in Mem!Rows |-> covers'[i]]
      /\ memories'[nextMemory] = x /\ covers'[nextMemory] = y
      /\ \A i \in Mem!Rows : i # nextMemory => memories'[i] = memories[i] /\ covers'[i] = covers[i]
  BY <1>1 DEF TableOK, MemoriesOK
<1>4. memories[nextMemory].tier = "none" /\ memories[nextMemory].into = 0
  BY <1>1 DEF TableOK, MemoriesOK, Mem!NoRow
<1>5. Mem!Rows \subseteq Nat
  BY DEF Mem!Rows
<1>6. MemoriesOK'
  <2>1. \A i \in Mem!Rows : i >= nextMemory' => i # nextMemory /\ i >= nextMemory
    BY <1>1, <1>5
  <2>2. QED
    BY <1>1, <1>2, <1>3, <2>1 DEF TableOK, MemoriesOK
<1>7. Insights'
  BY <1>2, <1>3 DEF TableOK, Insights
<1>8. References'
  BY <1>2, <1>3, <1>4 DEF TableOK, References
<1>9. Stays
  BY <1>1, <1>3, <1>5 DEF Stays
<1>10. nextMemory < nextMemory' /\ memories'[nextMemory].tier = tier
  BY <1>1, <1>2, <1>3
<1>11. QED
  BY <1>1, <1>2, <1>3, <1>6, <1>7, <1>8, <1>9, <1>10 DEF TableOK

\* Rows that no other refers to are deleted.
LEMMA RowsGone ==
    ASSUME MemoryBase, TableOK, NEW gone, memories' = [i \in Mem!Rows |-> IF i \in gone THEN Mem!NoRow ELSE memories[i]],
           \A i \in Mem!Rows : memories[i].into \notin gone, UNCHANGED <<nextMemory, covers>>
    PROVE  TableOK' /\ Stays /\ nextMemory' \in Nat
<1>1. /\ Mem!NoRow.tier = "none" /\ Mem!NoRow.old = FALSE /\ Mem!NoRow.into = 0
      /\ Mem!NoRow = [tier |-> Mem!NoRow.tier, vec |-> Mem!NoRow.vec, old |-> Mem!NoRow.old, into |-> Mem!NoRow.into]
  BY DEF Mem!NoRow
<1>2. \A i \in Mem!Rows : memories'[i] = IF i \in gone THEN Mem!NoRow ELSE memories[i]
  OBVIOUS
<1>3. memories' = [i \in Mem!Rows |-> memories'[i]]
  OBVIOUS
<1>4. MemoriesOK'
  BY <1>1, <1>2, <1>3 DEF TableOK, MemoriesOK
<1>5. Insights'
  BY <1>1, <1>2 DEF TableOK, Insights
<1>6. References'
  BY <1>1, <1>2 DEF TableOK, References
<1>7. Stays
  BY <1>1, <1>2 DEF TableOK, MemoriesOK, Stays
<1>8. QED
  BY <1>4, <1>5, <1>6, <1>7 DEF TableOK, MemoriesOK

\* A row is marked as merged into another that covers it.
LEMMA RowMerged ==
    ASSUME MemoryBase, TableOK, NEW i, NEW j, memories' = Mem!MergedInto(i, j), UNCHANGED <<nextMemory, covers>>,
           \/ Insight(i) /\ Read(j, "long_term") /\ i \in covers[j]
           \/ Read(i, "profile") /\ Read(j, "profile")
    PROVE  TableOK' /\ Stays /\ nextMemory' \in Nat
<1>1. nextMemory \in Nat /\ i \in Mem!Rows /\ j \in Mem!Rows /\ i < nextMemory /\ j < nextMemory
  BY DEF TableOK, MemoriesOK, Insight, Read
<1>2. CASE memories' = memories
  BY <1>1, <1>2 DEF TableOK, MemoriesOK, Insights, References, Stays
<1>3. CASE /\ memories[i].tier # "none" /\ memories[j].tier # "none"
           /\ memories' = [memories EXCEPT ![i] = [tier |-> memories[i].tier, vec |-> memories[i].vec, old |-> memories[i].old, into |-> j]]
  <2> DEFINE x == [tier |-> memories[i].tier, vec |-> memories[i].vec, old |-> memories[i].old, into |-> j]
  <2>1. /\ x.tier = memories[i].tier /\ x.old = memories[i].old /\ x.into = j
        /\ x = [tier |-> x.tier, vec |-> x.vec, old |-> x.old, into |-> x.into] /\ memories' = [memories EXCEPT ![i] = x]
    BY <1>3
  <2> HIDE DEF x
  <2>2. /\ memories' = [k \in Mem!Rows |-> memories'[k]] /\ memories'[i] = x
        /\ \A k \in Mem!Rows : k # i => memories'[k] = memories[k]
    BY <1>1, <2>1 DEF TableOK, MemoriesOK
  <2>3. \A k \in Mem!Rows : memories'[k].tier = memories[k].tier
    BY <2>1, <2>2
  <2>4. MemoriesOK'
    <3>1. \A k \in Mem!Rows : k >= nextMemory' => memories'[k] = Mem!NoRow
      BY <1>1, <2>2 DEF TableOK, MemoriesOK, Mem!Rows
    <3>2. ASSUME NEW k \in Mem!Rows
          PROVE  /\ memories'[k] = [tier |-> memories'[k].tier, vec |-> memories'[k].vec, old |-> memories'[k].old, into |-> memories'[k].into]
                 /\ memories'[k].tier \in Mem!Tiers \cup {"none"}
      BY <2>1, <2>2 DEF TableOK, MemoriesOK
    <3>3. nextMemory' \in Nat \ {0} /\ covers' = [k \in Mem!Rows |-> covers'[k]]
      BY DEF TableOK, MemoriesOK
    <3>4. QED
      BY <2>2, <3>1, <3>2, <3>3 DEF MemoriesOK
  <2>5. \/ memories[i].tier = "short_term" /\ memories[j].tier = "long_term" /\ i \in covers[j]
        \/ memories[i].tier = "profile" /\ memories[j].tier = "profile"
    BY <1>3 DEF Insight, Read
  <2>6. Insights'
    BY <2>1, <2>2, <2>5 DEF TableOK, Insights
  <2>7. References'
    BY <1>1, <2>1, <2>2, <2>3, <2>5 DEF TableOK, References
  <2>8. QED
    BY <1>1, <2>3, <2>4, <2>6, <2>7 DEF TableOK, Stays
<1>4. QED
  BY <1>2, <1>3 DEF Mem!MergedInto, Mem!Stored

\* A short-term row reaches its end.
LEMMA RowAged == ASSUME MemoryBase, TableOK, NEW i \in Mem!Rows, Mem!Age(i) PROVE TableOK' /\ Stays /\ nextMemory' \in Nat
<1> DEFINE x == [tier |-> memories[i].tier, vec |-> memories[i].vec, old |-> TRUE, into |-> memories[i].into]
<1>1. /\ x.tier = memories[i].tier /\ x.into = memories[i].into /\ memories[i].tier = "short_term"
      /\ x = [tier |-> x.tier, vec |-> x.vec, old |-> x.old, into |-> x.into] /\ memories' = [memories EXCEPT ![i] = x]
      /\ UNCHANGED <<nextMemory, covers>>
  BY DEF Mem!Age
<1> HIDE DEF x
<1>2. /\ memories' = [k \in Mem!Rows |-> memories'[k]] /\ memories'[i] = x
      /\ \A k \in Mem!Rows : k # i => memories'[k] = memories[k]
  BY <1>1 DEF TableOK, MemoriesOK
<1>3. \A k \in Mem!Rows : memories'[k].tier = memories[k].tier /\ memories'[k].into = memories[k].into
  BY <1>1, <1>2
<1>4. MemoriesOK'
  <2>1. \A k \in Mem!Rows : k >= nextMemory => k # i /\ memories[k] = Mem!NoRow
    BY <1>1 DEF TableOK, MemoriesOK, Mem!NoRow
  <2>2. \A k \in Mem!Rows : k >= nextMemory' => memories'[k] = Mem!NoRow
    BY <1>1, <1>2, <2>1
  <2>3. ASSUME NEW k \in Mem!Rows
        PROVE  /\ memories'[k] = [tier |-> memories'[k].tier, vec |-> memories'[k].vec, old |-> memories'[k].old, into |-> memories'[k].into]
               /\ memories'[k].tier \in Mem!Tiers \cup {"none"}
    BY <1>1, <1>2 DEF TableOK, MemoriesOK
  <2>4. nextMemory' \in Nat \ {0} /\ covers' = [k \in Mem!Rows |-> covers'[k]]
    BY <1>1 DEF TableOK, MemoriesOK
  <2>5. QED
    BY <1>2, <2>2, <2>3, <2>4 DEF MemoriesOK
<1>5. Insights'
  BY <1>1, <1>2 DEF TableOK, Insights
<1>6. References'
  BY <1>1, <1>3 DEF TableOK, References
<1>7. QED
  BY <1>1, <1>3, <1>4, <1>5, <1>6 DEF TableOK, MemoriesOK, Stays

\* The table changes, and a goroutine goes on.
LEMMA TableAndGoroutine ==
    ASSUME MemoryBase, MemoryInv, TableOK', Stays, nextMemory' \in Nat, NEW p \in Workers, NEW x, GoroutineOK(x)',
           work' = work \/ work' = [work EXCEPT ![p] = x]
    PROVE  MemoryInv'
<1>1. GoroutinesOK'
  BY GoroutinesStay
<1>2. QED
  BY <1>1 DEF MemoryInv, TableOK

LEMMA TableOnly == ASSUME MemoryBase, MemoryInv, TableOK', Stays, nextMemory' \in Nat, UNCHANGED work PROVE MemoryInv'
<1>1. ASSUME NEW q \in Workers PROVE GoroutineOK(work[q])'
  <2>1. PICK w : w = work[q]
    OBVIOUS
  <2>2. GoroutineOK(w) /\ nextMemory \in Nat
    BY <2>1 DEF MemoryInv, GoroutinesOK, MemoriesOK
  <2>3. GoroutineOK(w)'
    BY <2>2, GoroutineStays
  <2>4. QED
    BY <2>1, <2>3
<1>2. QED
  BY <1>1 DEF MemoryInv, GoroutinesOK, TableOK

\* A cluster has rows of those that were read.
LEMMA ClustersOf == ASSUME NEW s, NEW c \in Mem!Clusters(s) PROVE c \subseteq s
  BY DEF Mem!Clusters

LEMMA MemoryNext == ASSUME MemoryBase, MemoryInv, [Mem!Next]_Mem!vars PROVE MemoryInv'
<1>1. TableOK /\ GoroutinesOK /\ nextMemory \in Nat
  BY DEF MemoryInv, TableOK, MemoriesOK
<1>2. GoroutineOK(Mem!Idle)
  BY DEF GoroutineOK, Mem!Idle
<1>3. ASSUME NEW p \in Workers, NEW x, GoroutineOK(x), work' = work \/ work' = [work EXCEPT ![p] = x], UNCHANGED <<memories, nextMemory, covers>>
      PROVE  MemoryInv'
  BY <1>3, OnlyGoroutine
<1>4. ASSUME NEW p \in Workers, Mem!Ends(p), UNCHANGED <<memories, nextMemory, covers>> PROVE MemoryInv'
  BY <1>2, <1>3, <1>4 DEF Mem!Ends
<1>5. ASSUME NEW p \in Workers, NEW n, NEW v, Mem!Stores(p, n, v), UNCHANGED <<memories, nextMemory, covers>> PROVE MemoryInv'
  <2> DEFINE x == [at |-> "store", todo |-> {}, marks |-> {}, target |-> 0, left |-> n, vec |-> v]
  <2>1. GoroutineOK(x)
    BY DEF GoroutineOK
  <2>2. work' = [work EXCEPT ![p] = x]
    BY <1>5 DEF Mem!Stores
  <2> HIDE DEF x
  <2>3. QED
    BY <1>3, <1>5, <2>1, <2>2
\* What a goroutine at a place knows.
<1>6. ASSUME NEW l \in {"merge", "mark", "build", "refresh", "replace"}, NEW todo, NEW marks, NEW target,
             l \in {"merge", "mark"} => \A c \in todo : \A i \in c : Insight(i),
             l = "mark" => Read(target, "long_term") /\ \A i \in marks : Insight(i) /\ i \in covers[target],
             l \in {"refresh", "replace"} => Read(target, "profile"),
             l = "replace" => \A i \in marks : Read(i, "profile")
      PROVE  GoroutineOK([at |-> l, todo |-> todo, marks |-> marks, target |-> target, left |-> 0, vec |-> FALSE])
  BY <1>6 DEF GoroutineOK
<1>7. ASSUME NEW p \in Workers, Mem!ReadShortTerm(p) PROVE MemoryInv'
  <2> DEFINE todo == {c \in Mem!Clusters({i \in Mem!ListShortTermByEmployee : memories[i].vec}) : Mem!Cardinality(c) >= 2}
             x == [at |-> "merge", todo |-> todo, marks |-> {}, target |-> 0, left |-> 0, vec |-> FALSE]
  <2>1. work' = [work EXCEPT ![p] = x] /\ UNCHANGED <<memories, nextMemory, covers>>
    BY <1>7 DEF Mem!ReadShortTerm, Mem!Goes
  <2>2. \A c \in todo : \A i \in c : i \in Mem!ListShortTermByEmployee
    BY ClustersOf
  <2>3. \A i \in Mem!ListShortTermByEmployee : Insight(i)
    BY <1>1 DEF Mem!ListShortTermByEmployee, Mem!Rows, Insight, Read, TableOK, MemoriesOK, Insights, Mem!NoRow
  <2> HIDE DEF todo
  <2>4. GoroutineOK(x)
    BY <2>2, <2>3 DEF GoroutineOK
  <2> HIDE DEF x
  <2>5. QED
    BY <1>3, <2>1, <2>4
<1>8. ASSUME NEW p \in Workers, Mem!ReadLongTerm(p) PROVE MemoryInv'
  <2> DEFINE x == [at |-> "build", todo |-> {}, marks |-> Mem!ListLongTermByEmployee, target |-> 0, left |-> 0, vec |-> FALSE]
  <2>1. GoroutineOK(x)
    BY DEF GoroutineOK
  <2>2. work' = [work EXCEPT ![p] = x] /\ UNCHANGED <<memories, nextMemory, covers>>
    BY <1>8 DEF Mem!ReadLongTerm, Mem!Goes
  <2> HIDE DEF x
  <2>3. QED
    BY <1>3, <2>1, <2>2
<1>9. ASSUME NEW p \in Workers, Mem!Refresh(p) PROVE MemoryInv'
  <2> DEFINE other == Mem!GetProfileByEmployee \ {work[p].target}
             x == [at |-> "replace", todo |-> {}, marks |-> other, target |-> work[p].target, left |-> 0, vec |-> FALSE]
  <2>1. Mem!Ends(p) \/ work' = [work EXCEPT ![p] = x]
    BY <1>9 DEF Mem!Refresh, Mem!Goes
  <2>2. Read(work[p].target, "profile")
    BY <1>1, <1>9 DEF Mem!Refresh, Mem!At, GoroutinesOK, GoroutineOK
  <2>3. \A i \in other : Read(i, "profile")
    BY <1>1 DEF Mem!GetProfileByEmployee, Mem!Rows, Read, TableOK, MemoriesOK, Mem!NoRow
  <2> HIDE DEF other
  <2>4. GoroutineOK(x)
    BY <2>2, <2>3 DEF GoroutineOK
  <2>5. UNCHANGED <<memories, nextMemory, covers>>
    BY <1>9 DEF Mem!Refresh
  <2> HIDE DEF x
  <2>6. QED
    BY <1>3, <1>4, <2>1, <2>4, <2>5
<1>10. ASSUME NEW p \in Workers, Mem!Store(p) PROVE MemoryInv'
  <2>1. UNCHANGED <<memories, nextMemory, covers>> \/ \E v : Mem!CreateMemory("short_term", v, {})
    BY <1>10 DEF Mem!Store
  <2>2. Mem!Ends(p) \/ \E n, v : Mem!Stores(p, n, v)
    BY <1>10 DEF Mem!Store
  <2>3. CASE UNCHANGED <<memories, nextMemory, covers>>
    BY <1>4, <1>5, <2>2, <2>3
  <2>4. ASSUME NEW v, Mem!CreateMemory("short_term", v, {}) PROVE MemoryInv'
    <3>1. TableOK' /\ Stays /\ nextMemory' \in Nat
      <4>1. "short_term" \in Mem!Tiers
        BY DEF Mem!Tiers
      <4>2. QED
        BY <1>1, <2>4, <4>1, RowMade
    <3>2. CASE Mem!Ends(p)
      <4> DEFINE x == Mem!Idle
      <4>1. GoroutineOK(x)'
        BY DEF GoroutineOK, Mem!Idle
      <4>2. work' = [work EXCEPT ![p] = x]
        BY <3>2 DEF Mem!Ends
      <4> HIDE DEF x
      <4>3. QED
        BY <3>1, <4>1, <4>2, TableAndGoroutine
    <3>3. ASSUME NEW n, NEW u, Mem!Stores(p, n, u) PROVE MemoryInv'
      <4> DEFINE x == [at |-> "store", todo |-> {}, marks |-> {}, target |-> 0, left |-> n, vec |-> u]
      <4>1. GoroutineOK(x)'
        BY DEF GoroutineOK
      <4>2. work' = [work EXCEPT ![p] = x]
        BY <3>3 DEF Mem!Stores
      <4> HIDE DEF x
      <4>3. QED
        BY <3>1, <4>1, <4>2, TableAndGoroutine
    <3>4. QED
      BY <2>2, <3>2, <3>3
  <2>5. QED
    BY <2>1, <2>3, <2>4
<1>11. ASSUME NEW p \in Workers, Mem!Summarise(p) PROVE MemoryInv'
  <2>1. PICK c \in work[p].todo :
          \/ \E v \in BOOLEAN : /\ Mem!CreateMemory("long_term", v, UNION {covers[i] : i \in c})
                                /\ Mem!Goes(p, "mark", work[p].todo \ {c}, c, nextMemory)
          \/ /\ Mem!Goes(p, "merge", work[p].todo \ {c}, {}, 0)
             /\ UNCHANGED <<memories, nextMemory, covers>>
    BY <1>11 DEF Mem!Summarise, Mem!Members
  <2>2. PICK todo, n : todo = work[p].todo \ {c} /\ n = nextMemory
    OBVIOUS
  <2>3. (\A d \in todo : \A i \in d : Insight(i)) /\ \A i \in c : Insight(i)
    BY <1>1, <1>11, <2>2 DEF Mem!Summarise, Mem!At, GoroutinesOK, GoroutineOK
  <2>4. CASE Mem!Goes(p, "merge", work[p].todo \ {c}, {}, 0) /\ UNCHANGED <<memories, nextMemory, covers>>
    <3> DEFINE x == [at |-> "merge", todo |-> todo, marks |-> {}, target |-> 0, left |-> 0, vec |-> FALSE]
    <3>1. GoroutineOK(x)
      BY <2>3 DEF GoroutineOK
    <3>2. work' = [work EXCEPT ![p] = x]
      BY <2>2, <2>4 DEF Mem!Goes
    <3> HIDE DEF x
    <3>3. QED
      BY <1>3, <2>4, <3>1, <3>2
  <2>5. ASSUME NEW v, Mem!CreateMemory("long_term", v, UNION {covers[i] : i \in c}),
               Mem!Goes(p, "mark", work[p].todo \ {c}, c, nextMemory)
        PROVE  MemoryInv'
    <3> DEFINE of == UNION {covers[i] : i \in c}
               x == [at |-> "mark", todo |-> todo, marks |-> c, target |-> n, left |-> 0, vec |-> FALSE]
    <3>1. \A i \in c : i \in of
      BY <2>3 DEF Insight
    <3>2. "long_term" \in Mem!Tiers /\ Mem!CreateMemory("long_term", v, of)
      BY <2>5 DEF Mem!Tiers
    <3> HIDE DEF of
    <3>3. /\ TableOK' /\ Stays /\ nextMemory' \in Nat /\ n \in Mem!Rows /\ n < nextMemory' /\ memories'[n].tier = "long_term"
          /\ covers'[n] = (IF of = {} THEN {n} ELSE of)
      BY <1>1, <2>2, <3>2, RowMade
    <3>4. (\A d \in todo : \A i \in d : Insight(i)') /\ \A i \in c : Insight(i)'
      BY <1>1, <2>3, <3>3, ReadStays
    <3>5. Read(n, "long_term")' /\ \A i \in c : i \in covers'[n]
      BY <3>1, <3>3 DEF Read
    <3>6. GoroutineOK(x)'
      BY <3>4, <3>5 DEF GoroutineOK
    <3>7. work' = [work EXCEPT ![p] = x]
      BY <2>2, <2>5 DEF Mem!Goes
    <3> HIDE DEF x
    <3>8. QED
      BY <3>3, <3>6, <3>7, TableAndGoroutine
  <2>6. QED
    BY <2>1, <2>4, <2>5
<1>12. ASSUME NEW p \in Workers, Mem!Mark(p) PROVE MemoryInv'
  <2>1. PICK i \in work[p].marks, l \in {"merge", "mark"} :
          /\ Mem!Goes(p, l, work[p].todo, work[p].marks \ {i}, work[p].target)
          /\ memories' = Mem!MergedInto(i, work[p].target) \/ memories' = memories
          /\ UNCHANGED <<nextMemory, covers>>
    BY <1>12 DEF Mem!Mark
  <2>2. PICK todo, marks, j : todo = work[p].todo /\ marks = work[p].marks \ {i} /\ j = work[p].target
    OBVIOUS
  <2>3. /\ \A c \in todo : \A k \in c : Insight(k)
        /\ Read(j, "long_term") /\ \A k \in marks \cup {i} : Insight(k) /\ k \in covers[j]
    BY <1>1, <1>12, <2>2 DEF Mem!Mark, Mem!At, GoroutinesOK, GoroutineOK
  <2>4. TableOK' /\ Stays /\ nextMemory' \in Nat
    <3>1. CASE memories' = memories
      BY <1>1, <2>1, <3>1 DEF TableOK, MemoriesOK, Insights, References, Stays
    <3>2. CASE memories' = Mem!MergedInto(i, j)
      BY <1>1, <2>1, <2>3, <3>2, RowMerged
    <3>3. QED
      BY <2>1, <2>2, <3>1, <3>2
  <2>5. /\ \A c \in todo : \A k \in c : Insight(k)'
        /\ Read(j, "long_term")' /\ \A k \in marks : Insight(k)' /\ k \in covers'[j]
    <3>1. \A k : k \in covers[j] => k \in covers'[j]
      BY <2>3, <2>4 DEF Stays, Read
    <3>2. QED
      BY <1>1, <2>3, <2>4, <3>1, ReadStays
  <2> DEFINE x == [at |-> l, todo |-> todo, marks |-> marks, target |-> j, left |-> 0, vec |-> FALSE]
  <2>6. GoroutineOK(x)'
    BY <2>1, <2>5 DEF GoroutineOK
  <2>7. work' = [work EXCEPT ![p] = x]
    BY <2>1, <2>2 DEF Mem!Goes
  <2> HIDE DEF x
  <2>8. QED
    BY <2>4, <2>6, <2>7, TableAndGoroutine
<1>13. ASSUME NEW p \in Workers, Mem!Build(p) PROVE MemoryInv'
  <2>1. CASE Mem!Ends(p) /\ UNCHANGED <<memories, nextMemory, covers>>
    BY <1>4, <2>1
  <2>2. ASSUME NEW v, NEW of, Mem!CreateMemory("profile", v, of), Mem!Goes(p, "refresh", {}, {}, nextMemory)
        PROVE  MemoryInv'
    <3>1. PICK n : n = nextMemory
      OBVIOUS
    <3> DEFINE x == [at |-> "refresh", todo |-> {}, marks |-> {}, target |-> n, left |-> 0, vec |-> FALSE]
    <3>2. "profile" \in Mem!Tiers
      BY DEF Mem!Tiers
    <3>3. /\ TableOK' /\ Stays /\ nextMemory' \in Nat /\ n \in Mem!Rows /\ n < nextMemory' /\ memories'[n].tier = "profile"
      BY <1>1, <2>2, <3>1, <3>2, RowMade
    <3>4. Read(n, "profile")'
      BY <3>3 DEF Read
    <3>5. GoroutineOK(x)'
      BY <3>4 DEF GoroutineOK
    <3>6. work' = [work EXCEPT ![p] = x]
      BY <2>2, <3>1 DEF Mem!Goes
    <3> HIDE DEF x
    <3>7. QED
      BY <3>3, <3>5, <3>6, TableAndGoroutine
  <2>3. QED
    BY <1>13, <2>1, <2>2 DEF Mem!Build
<1>14. ASSUME NEW p \in Workers, Mem!Replace(p) PROVE MemoryInv'
  <2>1. CASE UNCHANGED memories
    BY <1>4, <1>14, <2>1 DEF Mem!Replace
  <2>2. ASSUME NEW i \in work[p].marks, memories' = Mem!MergedInto(i, work[p].target) PROVE MemoryInv'
    <3>1. PICK j : j = work[p].target
      OBVIOUS
    <3>2. Read(i, "profile") /\ Read(j, "profile")
      BY <1>1, <1>14, <2>2, <3>1 DEF Mem!Replace, Mem!At, GoroutinesOK, GoroutineOK
    <3>3. TableOK' /\ Stays /\ nextMemory' \in Nat
      BY <1>1, <1>14, <2>2, <3>1, <3>2, RowMerged DEF Mem!Replace
    <3> DEFINE x == Mem!Idle
    <3>4. GoroutineOK(x)'
      BY DEF GoroutineOK, Mem!Idle
    <3>5. work' = [work EXCEPT ![p] = x]
      BY <1>14 DEF Mem!Replace, Mem!Ends
    <3> HIDE DEF x
    <3>6. QED
      BY <3>3, <3>4, <3>5, TableAndGoroutine
  <2>3. QED
    BY <1>14, <2>1, <2>2 DEF Mem!Replace
<1>15. ASSUME NEW p \in Workers, Mem!Clean(p) PROVE MemoryInv'
  <2>1. /\ memories' = [i \in Mem!Rows |-> IF i \in Mem!Expired THEN Mem!NoRow ELSE memories[i]]
        /\ UNCHANGED <<nextMemory, covers, work>>
    BY <1>15 DEF Mem!Clean, Mem!DeleteExpiredMemories
  <2>2. \A i \in Mem!Rows : memories[i].into \notin Mem!Expired
    <3>1. \A j \in Mem!Expired : j \in Mem!Rows /\ memories[j].tier = "short_term"
      BY <1>1 DEF Mem!Expired, TableOK, Insights
    <3>2. ASSUME NEW i \in Mem!Rows, memories[i].into \in Mem!Expired PROVE FALSE
      <4>1. memories[i].into # 0
        BY <3>1, <3>2 DEF Mem!Rows
      <4>2. memories[memories[i].into].tier # "short_term"
        BY <1>1, <4>1 DEF TableOK, MemoriesOK, Insights, References, Mem!Tiers
      <4>3. QED
        BY <3>1, <3>2, <4>2
    <3>3. QED
      BY <3>2
  <2>3. TableOK' /\ Stays /\ nextMemory' \in Nat
    BY <1>1, <2>1, <2>2, RowsGone
  <2>4. QED
    BY <2>1, <2>3, TableOnly
<1>16. ASSUME NEW i \in Mem!Rows, Mem!Delete(i) PROVE MemoryInv'
  <2>1. /\ memories' = [memories EXCEPT ![i] = Mem!NoRow] /\ UNCHANGED <<nextMemory, covers, work>>
        /\ \A j \in Mem!Rows : memories[j].into \notin {i}
    BY <1>16 DEF Mem!Delete, Mem!DeleteMemory
  <2>2. memories' = [j \in Mem!Rows |-> IF j \in {i} THEN Mem!NoRow ELSE memories[j]]
    BY <1>1, <2>1 DEF TableOK, MemoriesOK
  <2>3. TableOK' /\ Stays /\ nextMemory' \in Nat
    BY <1>1, <2>1, <2>2, RowsGone
  <2>4. QED
    BY <2>1, <2>3, TableOnly
<1>17. ASSUME NEW i \in Mem!Rows, Mem!Age(i) PROVE MemoryInv'
  <2>1. TableOK' /\ Stays /\ nextMemory' \in Nat
    BY <1>1, <1>17, RowAged
  <2>2. QED
    BY <1>17, <2>1, TableOnly DEF Mem!Age
<1>18. CASE Mem!Crash \/ UNCHANGED Mem!vars
  <2>1. UNCHANGED <<memories, nextMemory, covers>> /\ (work' = work \/ work' = [p \in Workers |-> Mem!Idle])
    BY <1>18 DEF Mem!Crash, Mem!vars
  <2>2. TableOK'
    BY <1>1, <2>1 DEF TableOK, MemoriesOK, Insights, References
  <2>3. Stays /\ nextMemory' \in Nat
    BY <1>1, <2>1 DEF Stays
  <2>4. CASE UNCHANGED work
    BY <2>2, <2>3, <2>4, TableOnly
  <2>5. CASE work' = [p \in Workers |-> Mem!Idle]
    BY <2>2, <2>5 DEF MemoryInv, TableOK, GoroutinesOK, GoroutineOK, Mem!Idle
  <2>6. QED
    BY <2>1, <2>4, <2>5
<1>19. ASSUME NEW p \in Workers, Mem!Merged(p) PROVE MemoryInv'
  BY <1>4, <1>19 DEF Mem!Merged
<1>20. ASSUME NEW p \in Workers, NEW n, Mem!Extract(p, n) PROVE MemoryInv'
  BY <1>5, <1>20 DEF Mem!Extract
<1>21. QED
  BY <1>7, <1>8, <1>9, <1>10, <1>11, <1>12, <1>13, <1>14, <1>15, <1>16, <1>17, <1>18, <1>19, <1>20 DEF Mem!Next

\* An insight that was merged is covered by the row it refers to, which is
\* recalled in its place unless its embedding failed: whatever overlaps, fails,
\* ends, expires or is deleted, a row is marked only after the one that covers
\* it exists, and that one stays (consolidator.go:113).
THEOREM StillRecalled == MemoryBase => (Mem!Spec => []Mem!StillRecalled)
<1> SUFFICES ASSUME MemoryBase PROVE Mem!Spec => []Mem!StillRecalled
  OBVIOUS
<1>1. Mem!Init => MemoryInv
  BY MemoryInit
<1>2. MemoryInv /\ [Mem!Next]_Mem!vars => MemoryInv'
  BY MemoryNext
<1>3. MemoryInv => Mem!StillRecalled
  BY RecalledMeans
<1>4. QED
  BY <1>1, <1>2, <1>3, PTL DEF Mem!Spec

-----------------------------------------------------------------------------
(* World model: what was mentioned often is shown                          *)

CONSTANTS
    Reporters, Names, Categories, Pairs, Helps, Proficiencies, MaxItems, MaxMentions,
    MaxBlockers, MaxInsights, MaxDays, MaxNights

VARIABLES skill, tie, blocker, insights, reported, lost, advised, racing

Wor == INSTANCE WorldModel WITH Employees <- Reporters


SkillsBase == MaxDays \in 0 .. 7

\* What is left, at the least, of the lowest confidence, 0.4, after 0 to 13 runs.
Lasting == <<400, 380, 361, 343, 326, 310, 295, 280, 266, 253, 240, 228, 217, 206>>

SkillOK(x) ==
    /\ x = [seen |-> x.seen, sure |-> x.sure, days |-> x.days, runs |-> x.runs]
    /\ x.seen \in Nat /\ x.sure \in Nat /\ x.days \in 0 .. MaxDays /\ x.runs \in Nat
    /\ x.seen >= 5 /\ x.days < 7 /\ x.runs <= 13 => x.sure >= Lasting[x.runs + 1]
SkillsOK == skill = [k \in Wor!Skills |-> skill[k]] /\ \A k \in Wor!Skills : SkillOK(skill[k])

\* Within the week a run multiplies by 0.95 at the least.
LEMMA Weighing ==
    ASSUME SkillsBase, NEW x, x.days \in 0 .. MaxDays, NEW late \in BOOLEAN
    PROVE  Wor!Weight(x, late) \in Nat /\ (x.days < 7 => Wor!Weight(x, late) >= 9500)
<1>1. x.days \in {0, 1, 2, 3, 4, 5, 6, 7}
  BY DEF SkillsBase
<1>2. PICK n \in 1 .. 9 : n = x.days + (IF late THEN 2 ELSE 1)
  BY <1>1
<1>3. Wor!Weekly[n] \in Nat /\ (n <= 8 => Wor!Weekly[n] >= 9500)
  <2>1. CASE n \in {1, 2, 3, 4, 5}
    BY <2>1 DEF Wor!Weekly
  <2>2. CASE n \in {6, 7, 8, 9}
    BY <2>2 DEF Wor!Weekly
  <2>3. QED
    BY <2>1, <2>2
<1>4. x.days < 7 => n <= 8
  BY <1>1, <1>2
<1>5. QED
  BY <1>2, <1>3, <1>4 DEF Wor!Weight

LEMMA Products ==
    ASSUME NEW a \in Nat, NEW b \in Nat, NEW w \in Nat, NEW m \in Nat, a >= b, w >= 9500, m >= 5
    PROVE  a * w * m >= b * 47500
<1>1. a * w \in Nat /\ a * 9500 \in Nat /\ a * w >= a * 9500
  BY SMTT(30)
<1>2. a * 9500 >= b * 9500
  OBVIOUS
<1>3. ASSUME NEW c \in Nat PROVE c * m >= c * 5
  BY SMTT(30)
<1>4. a * w * m >= (a * w) * 5
  BY <1>1, <1>3
<1>5. QED
  BY <1>1, <1>2, <1>4

LEMMA Lasts ==
    ASSUME NEW n \in 1 .. 13, NEW p \in Nat, p >= Lasting[n] * 47500
    PROVE  (p + 25000) \div 50000 >= Lasting[n + 1]
<1>1. CASE n \in {1, 2, 3, 4}
  BY <1>1 DEF Lasting
<1>2. CASE n \in {5, 6, 7, 8}
  BY <1>2 DEF Lasting
<1>3. CASE n \in {9, 10, 11}
  BY <1>3 DEF Lasting
<1>4. CASE n \in {12, 13}
  BY <1>4 DEF Lasting
<1>5. QED
  BY <1>1, <1>2, <1>3, <1>4

LEMMA LastingIs == \A n \in 1 .. 14 : Lasting[n] \in Nat /\ Lasting[n] >= 200 /\ Lasting[n] <= 400
<1>1. \A n \in {1, 2, 3, 4, 5, 6, 7} : Lasting[n] \in Nat /\ Lasting[n] >= 200 /\ Lasting[n] <= 400
  BY DEF Lasting
<1>2. \A n \in {8, 9, 10, 11, 12, 13, 14} : Lasting[n] \in Nat /\ Lasting[n] >= 200 /\ Lasting[n] <= 400
  BY DEF Lasting
<1>3. QED
  BY <1>1, <1>2

LEMMA FadedSkill ==
    ASSUME SkillsBase, NEW x, SkillOK(x), NEW late \in BOOLEAN
    PROVE  /\ Wor!Faded(x, late) \in Nat
           /\ x.seen >= 5 /\ x.days < 7 /\ x.runs + 1 <= 13 => Wor!Faded(x, late) >= Lasting[x.runs + 2]
<1>1. PICK a, w, m, n : a = x.sure /\ w = Wor!Weight(x, late) /\ m = Wor!Least(x.seen, 10) /\ n = x.runs + 1
  OBVIOUS
<1>2. a \in Nat /\ w \in Nat /\ m \in Nat /\ n \in Nat \ {0} /\ a * w * m \in Nat
  <2>1. a \in Nat /\ w \in Nat /\ n \in Nat \ {0}
    BY <1>1, Weighing DEF SkillOK
  <2>2. m \in Nat
    BY <1>1 DEF SkillOK, Wor!Least
  <2>3. a * w \in Nat
    BY <2>1
  <2>4. QED
    BY <2>1, <2>2, <2>3
<1>3. Wor!Faded(x, late) = (a * w * m + 25000) \div 50000
  BY <1>1 DEF Wor!Faded
<1>4. ASSUME x.seen >= 5, x.days < 7, n <= 13 PROVE Wor!Faded(x, late) >= Lasting[n + 1]
  <2>1. w >= 9500
    BY <1>1, <1>4, Weighing DEF SkillOK
  <2>2. m >= 5
    BY <1>1, <1>4 DEF SkillOK, Wor!Least
  <2>3. n \in 1 .. 13 /\ n \in 1 .. 14
    BY <1>2, <1>4
  <2>4. x.runs <= 13 /\ x.runs \in Nat
    BY <1>1, <2>3 DEF SkillOK
  <2>5. a >= Lasting[n]
    BY <1>1, <1>4, <2>4 DEF SkillOK
  <2>6. Lasting[n] \in Nat
    BY <2>3, LastingIs
  <2>7. a * w * m >= Lasting[n] * 47500
    BY <1>2, <2>1, <2>2, <2>5, <2>6, Products
  <2>8. QED
    BY <1>2, <1>3, <2>3, <2>7, Lasts
<1>5. (a * w * m + 25000) \div 50000 \in Nat
  BY <1>2
<1>6. x.runs + 2 = n + 1
  BY <1>1 DEF SkillOK
<1>7. QED
  BY <1>1, <1>3, <1>4, <1>5, <1>6

LEMMA SkillsNext == ASSUME SkillsBase, SkillsOK, [Wor!Next]_Wor!vars PROVE SkillsOK'
<1>1. ASSUME NEW k \in Wor!Skills, NEW l, Wor!UpsertSkill(k, l) PROVE SkillsOK'
  <2> DEFINE x == [seen |-> skill[k].seen + 1, sure |-> Wor!Greatest(skill[k].sure, Wor!Confidence(l)), days |-> 0, runs |-> 0]
  <2>1. Wor!Confidence(l) \in Nat /\ Wor!Confidence(l) >= 400
    BY DEF Wor!Confidence
  <2>2. SkillOK(skill[k])
    BY DEF SkillsOK
  <2>3. SkillOK(x)
    <3>1. /\ x.seen = skill[k].seen + 1 /\ x.sure = Wor!Greatest(skill[k].sure, Wor!Confidence(l))
          /\ x.days = 0 /\ x.runs = 0
          /\ x = [seen |-> x.seen, sure |-> x.sure, days |-> x.days, runs |-> x.runs]
      OBVIOUS
    <3>2. skill[k].seen \in Nat /\ skill[k].sure \in Nat
      BY <2>2 DEF SkillOK
    <3> HIDE DEF x
    <3>3. x.sure \in Nat /\ x.sure >= 400
      BY <2>1, <3>1, <3>2 DEF Wor!Greatest
    <3>4. Lasting[1] = 400
      BY DEF Lasting
    <3>5. QED
      BY <3>1, <3>2, <3>3, <3>4 DEF SkillOK, SkillsBase
  <2>4. skill' = [skill EXCEPT ![k] = x]
    BY <1>1 DEF Wor!UpsertSkill
  <2> HIDE DEF x
  <2>5. QED
    BY <2>3, <2>4 DEF SkillsOK
<1>2. CASE Wor!Decay
  <2>1. CASE skill' = skill
    BY <2>1 DEF SkillsOK
  <2>2. ASSUME NEW late \in [Wor!Skills -> BOOLEAN],
               skill' = [k \in Wor!Skills |-> IF k \in Wor!Known THEN Wor!Rated(skill[k], Wor!Faded(skill[k], late[k]))
                                              ELSE skill[k]]
        PROVE  SkillsOK'
    <3>1. ASSUME NEW x, SkillOK(x), NEW b \in BOOLEAN PROVE SkillOK(Wor!Rated(x, Wor!Faded(x, b)))
      <4> DEFINE f == Wor!Faded(x, b)
                 y == Wor!Rated(x, f)
      <4>1. /\ x.seen \in Nat /\ x.sure \in Nat /\ x.days \in 0 .. MaxDays /\ x.runs \in Nat
            /\ f \in Nat
            /\ x.seen >= 5 /\ x.days < 7 /\ x.runs + 1 <= 13 => f >= Lasting[x.runs + 2]
        BY <3>1, FadedSkill DEF SkillOK
      <4> HIDE DEF f
      <4>2. /\ y = [seen |-> y.seen, sure |-> y.sure, days |-> y.days, runs |-> y.runs]
            /\ y.seen = x.seen /\ y.sure = Wor!Greatest(50, f) /\ y.days = x.days /\ y.runs = x.runs + 1
        BY DEF Wor!Rated
      <4> HIDE DEF y
      <4>3. y.sure \in Nat /\ y.sure >= f
        BY <4>1, <4>2 DEF Wor!Greatest
      <4>4. y.runs + 1 = x.runs + 2
        BY <4>1, <4>2
      <4>5. y.runs <= 13 => Lasting[y.runs + 1] \in Nat
        BY <4>1, <4>2, LastingIs
      <4>6. SkillOK(y)
        BY <4>1, <4>2, <4>3, <4>4, <4>5 DEF SkillOK
      <4>7. QED
        BY <4>6 DEF f, y
    <3>2. \A k \in Wor!Skills : SkillOK(skill[k]) /\ late[k] \in BOOLEAN
      BY DEF SkillsOK
    <3>3. \A k \in Wor!Skills : SkillOK(skill'[k])
      BY <2>2, <3>1, <3>2
    <3>4. QED
      BY <2>2, <3>3 DEF SkillsOK
  <2>3. QED
    BY <1>2, <2>1, <2>2 DEF Wor!Decay, Wor!DecaySkillConfidence
<1>3. CASE Wor!Day
  <2>1. skill' = [k \in Wor!Skills |-> Wor!Older(skill[k])] /\ \A k \in Wor!Skills : skill'[k].days <= MaxDays
    BY <1>3 DEF Wor!Day
  <2>2. ASSUME NEW x, SkillOK(x), Wor!Older(x).days <= MaxDays PROVE SkillOK(Wor!Older(x))
    <3>1. /\ x = [seen |-> x.seen, sure |-> x.sure, days |-> x.days, runs |-> x.runs]
          /\ x.seen \in Nat /\ x.sure \in Nat /\ x.days \in 0 .. MaxDays /\ x.runs \in Nat
          /\ x.seen >= 5 /\ x.days < 7 /\ x.runs <= 13 => x.sure >= Lasting[x.runs + 1]
      BY <2>2 DEF SkillOK
    <3>2. CASE Wor!Older(x) = x
      BY <2>2, <3>2
    <3>3. CASE Wor!Older(x) = [x EXCEPT !.days = @ + 1]
      <4> DEFINE y == [seen |-> x.seen, sure |-> x.sure, days |-> x.days + 1, runs |-> x.runs]
      <4>1. Wor!Older(x) = y
        BY <3>1, <3>3
      <4>2. /\ y = [seen |-> y.seen, sure |-> y.sure, days |-> y.days, runs |-> y.runs]
            /\ y.seen = x.seen /\ y.sure = x.sure /\ y.days = x.days + 1 /\ y.runs = x.runs
        OBVIOUS
      <4> HIDE DEF y
      <4>3. SkillOK(y)
        BY <2>2, <3>1, <4>1, <4>2 DEF SkillOK, SkillsBase
      <4>4. QED
        BY <4>1, <4>3
    <3>4. QED
      BY <3>2, <3>3 DEF Wor!Older
  <2>3. QED
    BY <2>1, <2>2 DEF SkillsOK
<1>4. CASE UNCHANGED skill
  BY <1>4 DEF SkillsOK
<1>5. ASSUME NEW p \in Workers, NEW i, Wor!MergeSkill(p, i) PROVE SkillsOK'
  <2>1. UNCHANGED skill \/ Wor!UpsertSkill(i.of, i.as)
    BY <1>5 DEF Wor!MergeSkill
  <2>2. CASE Wor!UpsertSkill(i.of, i.as) /\ i.of \notin Wor!Skills
    <3>1. skill' = skill
      BY <2>2 DEF Wor!UpsertSkill, SkillsOK
    <3>2. QED
      BY <1>4, <3>1
  <2>3. QED
    BY <1>1, <1>4, <2>1, <2>2
<1>6. CASE \/ \E p \in Workers : \/ \E e \in Reporters : Wor!Report(p, e)
                                 \/ \E i \in work[p].todo : Wor!MergeTie(p, i) \/ Wor!MergeGrowth(p, i) \/ Wor!MergeBlocker(p, i)
                                 \/ Wor!WriteBlocker(p) \/ Wor!Trigger(p)
           \/ \E n \in 1 .. MaxInsights : Wor!Insights(n)
           \/ Wor!Crash \/ UNCHANGED Wor!vars
  <2>1. UNCHANGED skill
    BY <1>6 DEF Wor!Report, Wor!MergeTie, Wor!MergeGrowth, Wor!MergeBlocker, Wor!WriteBlocker, Wor!Trigger, Wor!Insights,
                Wor!Crash, Wor!vars
  <2>2. QED
    BY <1>4, <2>1
<1>7. QED
  BY <1>2, <1>3, <1>5, <1>6 DEF Wor!Next

\* A skill mentioned five times, and within the week, is shown though each run
\* of the decay multiplies what the last one left, so long as no more than
\* thirteen ran since: a week's nights, and six after restarts (decay.go:28).
THEOREM OftenMentionedShown == SkillsBase => (Wor!Spec => []Wor!OftenMentionedShown)
<1> SUFFICES ASSUME SkillsBase PROVE Wor!Spec => []Wor!OftenMentionedShown
  OBVIOUS
<1>1. Wor!Init => SkillsOK
  BY DEF Wor!Init, SkillsOK, SkillOK, Wor!NoSkill, SkillsBase
<1>2. SkillsOK /\ [Wor!Next]_Wor!vars => SkillsOK'
  BY SkillsNext
<1>3. SkillsOK => Wor!OftenMentionedShown
  <2> SUFFICES ASSUME SkillsOK, NEW k \in Wor!Skills, skill[k].seen >= 5, skill[k].days < 7, skill[k].runs <= 13
               PROVE  skill[k].sure >= 200
    BY DEF Wor!OftenMentionedShown, Wor!ShownSkills
  <2>1. SkillOK(skill[k])
    BY DEF SkillsOK
  <2>2. skill[k].runs + 1 \in 1 .. 14 /\ skill[k].sure \in Nat /\ skill[k].sure >= Lasting[skill[k].runs + 1]
    BY <2>1 DEF SkillOK
  <2>3. QED
    BY <2>2, LastingIs
<1>4. QED
  BY <1>1, <1>2, <1>3, PTL DEF Wor!Spec

-----------------------------------------------------------------------------
(* World model: a mention is counted in one row                            *)

\* Partial sums of what the rows of a blocker say.
Says(k, n) == IF Wor!Of(n) = k THEN blocker[n].recurrence ELSE 0
Sums(k, s) ==
    /\ s = [n \in 0 .. Len(blocker) |-> s[n]]
    /\ s[0] = 0 /\ \A n \in 1 .. Len(blocker) : s[n] = s[n - 1] + Says(k, n)
    /\ \A n \in 0 .. Len(blocker) : s[n] \in Nat

LEMMA CountedIs == ASSUME Len(blocker) \in Nat, NEW k, NEW s, Sums(k, s) PROVE Wor!Counted(k) = s[Len(blocker)]
<1> DEFINE L == Len(blocker)
           G(g) == g = [n \in 0 .. L |-> IF n = 0 THEN 0 ELSE g[n - 1] + Says(k, n)]
           sum == CHOOSE g : G(g)
<1>1. G(s)
  <2>1. \A n \in 0 .. L : s[n] = IF n = 0 THEN 0 ELSE s[n - 1] + Says(k, n)
    <3>1. \A n \in 0 .. L : n = 0 \/ n \in 1 .. L
      OBVIOUS
    <3>2. s[0] = 0 /\ \A n \in 1 .. L : s[n] = s[n - 1] + Says(k, n)
      BY DEF Sums
    <3>3. \A n \in 1 .. L : n # 0
      OBVIOUS
    <3> HIDE DEF L
    <3>4. QED
      BY <3>1, <3>2, <3>3
  <2>2. s = [n \in 0 .. L |-> s[n]]
    BY DEF Sums
  <2> HIDE DEF L
  <2>3. QED
    BY <2>1, <2>2
<1>2. G(sum)
  BY <1>1
<1>3. Wor!Counted(k) = sum[L]
  BY DEF Wor!Counted, Says
<1> HIDE DEF sum
<1> DEFINE bad == {n \in 0 .. L : sum[n] # s[n]}
<1>4. bad = {}
  <2> SUFFICES ASSUME bad # {} PROVE FALSE
    OBVIOUS
  <2>1. bad \subseteq Nat
    OBVIOUS
  <2> HIDE DEF bad
  <2>2. PICK n \in bad : \A m \in bad : ~(<<m, n>> \in OpToRel(<, Nat))
    BY <2>1, NatLessThanWellFounded, WFMin
  <2> USE DEF bad
  <2>3. n \in 0 .. L /\ sum[n] # s[n]
    OBVIOUS
  <2>4. n # 0
    BY <1>1, <1>2, <2>3
  <2>5. n - 1 \in 0 .. L /\ n - 1 < n /\ n - 1 \in Nat /\ n \in Nat
    BY <2>3, <2>4
  <2>6. sum[n - 1] = s[n - 1]
    BY <2>2, <2>5 DEF OpToRel
  <2>7. sum[n] = sum[n - 1] + Says(k, n) /\ s[n] = s[n - 1] + Says(k, n)
    BY <1>1, <1>2, <2>3, <2>4
  <2>8. QED
    BY <2>3, <2>6, <2>7
<1>5. QED
  BY <1>3, <1>4

Blockers == [who : Reporters, category : Categories, status : {"active", "recurring", "resolved"}, recurrence : Nat]
RowsOfBlockers == blocker \in Seq(Blockers)
CountsKept ==
    /\ reported \in [Wor!Problems -> Nat] /\ lost \in [Wor!Problems -> Nat]
    /\ \A k \in Wor!Problems :
          /\ IsFiniteSet(Wor!Carrying(k))
          /\ \E s : Sums(k, s) /\ reported[k] = s[Len(blocker)] + Cardinality(Wor!Carrying(k)) + lost[k]

\* Where a goroutine is, and which row it has found.
Blocking(i) ==
    /\ i.of \in Wor!Problems /\ i.resolved \in BOOLEAN
    /\ i = [kind |-> "blocker", of |-> i.of, resolved |-> i.resolved]
Finding(w) ==
    /\ w = [at |-> w.at, who |-> w.who, todo |-> w.todo, item |-> w.item, found |-> w.found]
    /\ \A i \in w.todo : i.kind = "blocker" => Blocking(i)
    /\ w.at = "idle" => w.todo = {}
    /\ w.at = "write" => Blocking(w.item) /\ w.item \notin w.todo
FoundOK(w) == w.at = "write" /\ w.found # 0 => w.found \in Wor!Rows /\ Wor!Of(w.found) = w.item.of
FindingsOK == work = [p \in Workers |-> work[p]] /\ \A p \in Workers : Finding(work[p]) /\ FoundOK(work[p])

\* What may become an open row of a blocker: its open rows, and what each mention
\* about to be written has found, which is a row, or a new one.
Opens(k) == {b \in Wor!Rows : Wor!Of(b) = k /\ blocker[b].status # "resolved"}
Claim(p) == IF work[p].found = 0 THEN <<"new", p>> ELSE <<"row", work[p].found>>
Claims(k) == {<<"row", b>> : b \in Opens(k)} \cup {Claim(p) : p \in Wor!Writing(k)}
OneOpen ==
    /\ racing \in [Wor!Problems -> Nat]
    /\ \A k \in Wor!Problems : IsFiniteSet(Claims(k)) /\ Cardinality(Claims(k)) <= 1 + racing[k]

CountedInv == RowsOfBlockers /\ CountsKept /\ FindingsOK /\ OneOpen

LEMMA WorCounts == \A S : Wor!Cardinality(S) = Cardinality(S)
  BY DEF Wor!Cardinality, Cardinality, Wor!IsFiniteSet, IsFiniteSet

LEMMA CountedMeans == CountedInv => Wor!CountedInOneRow
<1> SUFFICES ASSUME CountedInv, NEW k \in Wor!Problems
             PROVE  /\ reported[k] = Wor!Counted(k) + Cardinality(Wor!Carrying(k)) + lost[k]
                    /\ Cardinality({b \in Wor!ActiveBlockers : Wor!Of(b) = k}) <= 1 + racing[k]
  BY WorCounts DEF Wor!CountedInOneRow
<1>1. Len(blocker) \in Nat
  BY DEF CountedInv, RowsOfBlockers
<1>2. reported[k] = Wor!Counted(k) + Cardinality(Wor!Carrying(k)) + lost[k]
  <2>1. PICK s : Sums(k, s) /\ reported[k] = s[Len(blocker)] + Cardinality(Wor!Carrying(k)) + lost[k]
    BY DEF CountedInv, CountsKept
  <2>2. Wor!Counted(k) = s[Len(blocker)]
    BY <1>1, <2>1, CountedIs
  <2>3. QED
    BY <2>1, <2>2
<1> DEFINE A == {b \in Wor!ActiveBlockers : Wor!Of(b) = k}
           f == [b \in A |-> <<"row", b>>]
<1>3. f \in Injection(A, Claims(k))
  <2>1. \A b \in A : <<"row", b>> \in Claims(k)
    BY DEF Wor!ActiveBlockers, Wor!Active, Opens, Claims
  <2>2. \A b, c \in A : <<"row", b>> = <<"row", c>> => b = c
    OBVIOUS
  <2> HIDE DEF A
  <2>3. QED
    BY <2>1, <2>2 DEF Injection, IsInjective
<1>4. IsFiniteSet(Claims(k)) /\ Cardinality(Claims(k)) <= 1 + racing[k] /\ racing[k] \in Nat
  BY DEF CountedInv, OneOpen
<1> HIDE DEF f, A
<1>5. IsFiniteSet(A) /\ Cardinality(A) <= Cardinality(Claims(k))
  BY <1>3, <1>4, FS_Injection
<1>6. Cardinality(A) \in Nat /\ Cardinality(Claims(k)) \in Nat
  BY <1>4, <1>5, FS_CardinalityType
<1>7. Cardinality(A) <= 1 + racing[k]
  BY <1>4, <1>5, <1>6
<1>8. QED
  BY <1>2, <1>7 DEF A

LEMMA CountedInit == ASSUME Wor!Init PROVE CountedInv
<1>1. blocker = <<>> /\ Len(blocker) = 0 /\ RowsOfBlockers /\ Wor!Rows = {}
  BY DEF Wor!Init, RowsOfBlockers, Wor!Rows
<1>2. \A k : Wor!Writing(k) = {} /\ Wor!Carrying(k) = {}
  BY DEF Wor!Init, Wor!Writing, Wor!Carrying, Wor!At, Wor!Idle
<1>3. CountsKept
  <2>1. \A k : Sums(k, [n \in 0 .. 0 |-> 0])
    BY <1>1 DEF Sums
  <2>2. reported = [k \in Wor!Problems |-> 0] /\ lost = [k \in Wor!Problems |-> 0]
    BY DEF Wor!Init
  <2>3. \A k : IsFiniteSet(Wor!Carrying(k)) /\ Cardinality(Wor!Carrying(k)) = 0
    BY <1>2, FS_EmptySet
  <2>4. QED
    BY <1>1, <2>1, <2>2, <2>3 DEF CountsKept
<1>4. FindingsOK
  BY DEF Wor!Init, FindingsOK, Finding, FoundOK, Wor!Idle
<1>5. OneOpen
  <2>1. \A k : Claims(k) = {}
    BY <1>1, <1>2 DEF Claims, Opens
  <2>2. QED
    BY <2>1, FS_EmptySet DEF OneOpen, Wor!Init
<1>6. QED
  BY <1>1, <1>3, <1>4, <1>5 DEF CountedInv

LEMMA CountsStay ==
    ASSUME CountsKept, UNCHANGED <<blocker, reported, lost>>, \A k \in Wor!Problems : Wor!Carrying(k)' = Wor!Carrying(k)
    PROVE  CountsKept'
<1>1. \A k, s : Sums(k, s) => Sums(k, s)'
  BY DEF Sums, Says, Wor!Of
<1>2. \A k \in Wor!Problems : IsFiniteSet(Wor!Carrying(k)') /\ Cardinality(Wor!Carrying(k)') = Cardinality(Wor!Carrying(k))
  BY DEF CountsKept
<1>3. QED
  BY <1>1, <1>2 DEF CountsKept

LEMMA ClaimsShrink ==
    ASSUME OneOpen, NEW k \in Wor!Problems, NEW S, S \subseteq Claims(k)
    PROVE  IsFiniteSet(S) /\ Cardinality(S) <= 1 + racing[k]
<1>1. IsFiniteSet(Claims(k)) /\ Cardinality(Claims(k)) <= 1 + racing[k] /\ racing[k] \in Nat
  BY DEF OneOpen
<1>2. IsFiniteSet(S) /\ Cardinality(S) <= Cardinality(Claims(k))
  BY <1>1, FS_Subset
<1>3. QED
  BY <1>1, <1>2, FS_CardinalityType

\* A goroutine goes on without a blocker in hand.
LEMMA WorkerAside ==
    ASSUME CountedInv, UNCHANGED <<blocker, racing>>, NEW p \in Workers, NEW x, x.at # "write", Finding(x),
           work' = [work EXCEPT ![p] = x]
    PROVE  /\ RowsOfBlockers' /\ FindingsOK' /\ OneOpen'
           /\ \A k : Wor!Carrying(k)' = (Wor!Carrying(k) \ {p}) \cup IF Wor!Mention(k) \in x.todo THEN {p} ELSE {}
<1>1. RowsOfBlockers'
  BY DEF CountedInv, RowsOfBlockers
<1>2. work'[p] = x /\ work' = [q \in Workers |-> work'[q]] /\ \A q \in Workers : q # p => work'[q] = work[q]
  BY DEF CountedInv, FindingsOK
<1>3. FindingsOK'
  BY <1>2 DEF CountedInv, FindingsOK, Finding, FoundOK, Wor!Rows, Wor!Of
<1>4. \A k : Wor!Writing(k)' = Wor!Writing(k) \ {p}
  BY <1>2 DEF Wor!Writing, Wor!At
<1>5. OneOpen'
  <2>1. \A k : Opens(k)' = Opens(k)
    BY DEF Opens, Wor!Rows, Wor!Of
  <2>2. \A q \in Workers : q # p => Claim(q)' = Claim(q)
    BY <1>2 DEF Claim
  <2>3. \A k : Wor!Writing(k) \subseteq Workers
    BY DEF Wor!Writing
  <2>4. \A k : Claims(k)' \subseteq Claims(k)
    BY <1>4, <2>1, <2>2, <2>3 DEF Claims
  <2>5. OneOpen
    BY DEF CountedInv
  <2>6. QED
    BY <2>4, <2>5, ClaimsShrink DEF OneOpen
<1>6. ASSUME NEW k PROVE Wor!Carrying(k)' = (Wor!Carrying(k) \ {p}) \cup IF Wor!Mention(k) \in x.todo THEN {p} ELSE {}
  <2>1. \A q \in Workers : q # p => (Wor!Mention(k) \in work'[q].todo <=> Wor!Mention(k) \in work[q].todo)
    BY <1>2
  <2>2. Wor!Mention(k) \in work'[p].todo <=> Wor!Mention(k) \in x.todo
    BY <1>2
  <2>3. Wor!Carrying(k)' = Wor!Writing(k)' \cup {q \in Workers : Wor!Mention(k) \in work'[q].todo}
    BY DEF Wor!Carrying, Wor!Mention
  <2>4. Wor!Carrying(k) = Wor!Writing(k) \cup {q \in Workers : Wor!Mention(k) \in work[q].todo}
    BY DEF Wor!Carrying
  <2>5. QED
    BY <1>4, <2>1, <2>2, <2>3, <2>4
<1>7. QED
  BY <1>1, <1>3, <1>5, <1>6

\* A row of a blocker is written, and says d mentions more.
LEMMA RowWritten ==
    ASSUME RowsOfBlockers, NEW b \in Wor!Rows, NEW status \in {"active", "recurring", "resolved"}, NEW d \in {0, 1},
           Wor!Sets(b, status, blocker[b].recurrence + d)
    PROVE  /\ RowsOfBlockers' /\ Len(blocker') = Len(blocker) /\ Wor!Rows' = Wor!Rows
           /\ \A n \in Wor!Rows : Wor!Of(n)' = Wor!Of(n)
           /\ \A n \in Wor!Rows : blocker'[n].recurrence = blocker[n].recurrence + (IF n = b THEN d ELSE 0)
           /\ \A n \in Wor!Rows : blocker'[n].status = IF n = b THEN status ELSE blocker[n].status
<1> DEFINE x == [who |-> blocker[b].who, category |-> blocker[b].category, status |-> status, recurrence |-> blocker[b].recurrence + d]
<1>1. blocker \in Seq(Blockers) /\ b \in 1 .. Len(blocker) /\ blocker[b] \in Blockers
  BY DEF RowsOfBlockers, Wor!Rows
<1>2. /\ x \in Blockers /\ x.who = blocker[b].who /\ x.category = blocker[b].category /\ x.status = status
      /\ x.recurrence = blocker[b].recurrence + d
  BY <1>1 DEF Blockers
<1>3. blocker' = [blocker EXCEPT ![b] = x]
  BY DEF Wor!Sets
<1> HIDE DEF x
<1>4. /\ blocker' \in Seq(Blockers) /\ Len(blocker') = Len(blocker) /\ blocker'[b] = x
      /\ \A n \in 1 .. Len(blocker) : n # b => blocker'[n] = blocker[n]
  BY <1>1, <1>2, <1>3
<1>5. \A n \in 1 .. Len(blocker) : blocker[n] \in Blockers
  BY <1>1
<1>6. \A n \in 1 .. Len(blocker) : blocker[n].recurrence \in Nat
  BY <1>5 DEF Blockers
<1>7. \A n \in 1 .. Len(blocker) : blocker'[n].who = blocker[n].who /\ blocker'[n].category = blocker[n].category
  BY <1>2, <1>4
<1>8. RowsOfBlockers' /\ Len(blocker') = Len(blocker) /\ Wor!Rows' = Wor!Rows /\ b \in 1 .. Len(blocker)
  BY <1>1, <1>4 DEF RowsOfBlockers, Wor!Rows
<1>9. \A n \in Wor!Rows : Wor!Of(n)' = Wor!Of(n)
  BY <1>7 DEF Wor!Rows, Wor!Of
<1>10. \A n \in 1 .. Len(blocker) : blocker'[n].recurrence = blocker[n].recurrence + (IF n = b THEN d ELSE 0)
  BY <1>2, <1>4, <1>6
<1>11. \A n \in 1 .. Len(blocker) : blocker'[n].status = IF n = b THEN status ELSE blocker[n].status
  BY <1>2, <1>4
<1>12. QED
  BY <1>8, <1>9, <1>10, <1>11 DEF Wor!Rows

LEMMA SumWritten ==
    ASSUME RowsOfBlockers, NEW k, NEW b \in Wor!Rows, NEW d \in {0, 1}, NEW s, Sums(k, s),
           RowsOfBlockers', Len(blocker') = Len(blocker), \A n \in Wor!Rows : Wor!Of(n)' = Wor!Of(n),
           \A n \in Wor!Rows : blocker'[n].recurrence = blocker[n].recurrence + (IF n = b THEN d ELSE 0)
    PROVE  \E t : /\ Sums(k, t)'
                  /\ t[Len(blocker')] = s[Len(blocker)] + IF Wor!Of(b) = k THEN d ELSE 0
<1> DEFINE L == Len(blocker)
           e == IF Wor!Of(b) = k THEN d ELSE 0
<1>1. L \in Nat /\ b \in 1 .. L /\ e \in {0, 1} /\ Len(blocker') = L
  BY DEF RowsOfBlockers, Wor!Rows
<1>2. \A n \in 1 .. L : blocker[n].recurrence \in Nat
  <2>1. \A n \in 1 .. L : blocker[n] \in Blockers
    BY DEF RowsOfBlockers
  <2>2. QED
    BY <2>1 DEF Blockers
<1>3. \A n \in 1 .. L : Says(k, n) \in Nat /\ Says(k, n)' = Says(k, n) + IF n = b THEN e ELSE 0
  BY <1>1, <1>2 DEF Says, Wor!Rows
<1> HIDE DEF e
<1>4. s[0] = 0 /\ (\A n \in 1 .. L : s[n] = s[n - 1] + Says(k, n)) /\ \A n \in 0 .. L : s[n] \in Nat
  BY DEF Sums
<1> HIDE DEF L
<1>5. PICK t : t = [n \in 0 .. L |-> t[n]] /\ \A n \in 0 .. L : t[n] = IF n < b THEN s[n] ELSE s[n] + e
  <2>1. PICK t : t = [n \in 0 .. L |-> IF n < b THEN s[n] ELSE s[n] + e]
    OBVIOUS
  <2>2. t = [n \in 0 .. L |-> t[n]] /\ \A n \in 0 .. L : t[n] = IF n < b THEN s[n] ELSE s[n] + e
    BY <2>1
  <2>3. QED
    BY <2>2
<1>6. t[0] = 0 /\ \A n \in 0 .. L : t[n] \in Nat
  BY <1>1, <1>4, <1>5
<1>7. ASSUME NEW n \in 1 .. L PROVE t[n] = t[n - 1] + Says(k, n)'
  <2>1. n \in 0 .. L /\ n - 1 \in 0 .. L /\ n \in Nat /\ b \in Nat
    BY <1>1
  <2>2. s[n] = s[n - 1] + Says(k, n) /\ s[n] \in Nat /\ s[n - 1] \in Nat /\ Says(k, n) \in Nat
    BY <1>3, <1>4, <2>1
  <2>3. CASE n < b
    BY <1>1, <1>3, <1>5, <2>1, <2>2, <2>3
  <2>4. CASE n = b
    BY <1>1, <1>3, <1>5, <2>1, <2>2, <2>4
  <2>5. CASE n > b
    BY <1>1, <1>3, <1>5, <2>1, <2>2, <2>5
  <2>6. QED
    BY <2>1, <2>3, <2>4, <2>5
<1>8. t[L] = s[L] + e
  BY <1>1, <1>5
<1>9. Sums(k, t)'
  BY <1>1, <1>5, <1>6, <1>7 DEF Sums
<1>10. QED
  BY <1>1, <1>8, <1>9 DEF L, e

\* A row of a blocker is created.
LEMMA RowCreated ==
    ASSUME RowsOfBlockers, NEW m \in Wor!Problems, Wor!CreateBlocker(m)
    PROVE  /\ RowsOfBlockers' /\ Len(blocker) \in Nat /\ Len(blocker') = Len(blocker) + 1
           /\ \A n \in Wor!Rows : blocker'[n] = blocker[n]
           /\ blocker'[Len(blocker) + 1].who = m[1] /\ blocker'[Len(blocker) + 1].category = m[2]
           /\ blocker'[Len(blocker) + 1].status = "active" /\ blocker'[Len(blocker) + 1].recurrence = 1
<1> DEFINE x == [who |-> m[1], category |-> m[2], status |-> "active", recurrence |-> 1]
<1>1. blocker \in Seq(Blockers) /\ blocker' = Append(blocker, x)
  BY DEF RowsOfBlockers, Wor!CreateBlocker
<1>2. x \in Blockers /\ x.who = m[1] /\ x.category = m[2] /\ x.status = "active" /\ x.recurrence = 1
  BY DEF Blockers, Wor!Problems
<1> HIDE DEF x
<1>3. /\ blocker' \in Seq(Blockers) /\ Len(blocker) \in Nat /\ Len(blocker') = Len(blocker) + 1
      /\ \A n \in 1 .. Len(blocker) : blocker'[n] = blocker[n]
      /\ blocker'[Len(blocker) + 1] = x
  BY <1>1, <1>2
<1>4. QED
  BY <1>2, <1>3 DEF RowsOfBlockers, Wor!Rows

LEMMA SumCreated ==
    ASSUME RowsOfBlockers, NEW k \in Wor!Problems, NEW m \in Wor!Problems, Wor!CreateBlocker(m), NEW s, Sums(k, s)
    PROVE  \E t : Sums(k, t)' /\ t[Len(blocker')] = s[Len(blocker)] + IF m = k THEN 1 ELSE 0
<1> DEFINE L == Len(blocker)
           e == IF m = k THEN 1 ELSE 0
<1>1. /\ L \in Nat /\ Len(blocker') = L + 1 /\ \A n \in 1 .. L : blocker'[n] = blocker[n]
      /\ blocker'[L + 1].who = m[1] /\ blocker'[L + 1].category = m[2] /\ blocker'[L + 1].recurrence = 1
  BY RowCreated DEF Wor!Rows
<1>2. m = <<m[1], m[2]>>
  BY DEF Wor!Problems
<1>3. PICK j : j = L + 1
  OBVIOUS
<1>4. \A n \in 1 .. L : Says(k, n)' = Says(k, n)
  BY <1>1 DEF Says, Wor!Of
<1>5. Says(k, j)' = e
  BY <1>1, <1>2, <1>3 DEF Says, Wor!Of
<1>6. s[0] = 0 /\ (\A n \in 1 .. L : s[n] = s[n - 1] + Says(k, n)) /\ \A n \in 0 .. L : s[n] \in Nat
  BY DEF Sums
<1>7. e \in {0, 1}
  OBVIOUS
<1> HIDE DEF e, L
<1>8. PICK t : t = [n \in 0 .. j |-> t[n]] /\ \A n \in 0 .. j : t[n] = IF n < j THEN s[n] ELSE s[L] + e
  <2>1. PICK t : t = [n \in 0 .. j |-> IF n < j THEN s[n] ELSE s[L] + e]
    OBVIOUS
  <2>2. t = [n \in 0 .. j |-> t[n]] /\ \A n \in 0 .. j : t[n] = IF n < j THEN s[n] ELSE s[L] + e
    BY <2>1
  <2>3. QED
    BY <2>2
<1>9. t[0] = 0 /\ (\A n \in 0 .. j : t[n] \in Nat) /\ t[j] = s[L] + e
  BY <1>1, <1>3, <1>6, <1>7, <1>8
<1>10. ASSUME NEW n \in 1 .. j PROVE t[n] = t[n - 1] + Says(k, n)'
  <2>1. n \in 0 .. j /\ n - 1 \in 0 .. j /\ n - 1 < j /\ n \in Nat
    BY <1>1, <1>3
  <2>2. CASE n = j
    BY <1>1, <1>3, <1>5, <1>8, <2>1, <2>2
  <2>3. CASE n < j
    <3>1. n \in 1 .. L
      BY <1>1, <1>3, <2>1, <2>3
    <3>2. QED
      BY <1>4, <1>6, <1>8, <2>1, <2>3, <3>1
  <2>4. QED
    BY <1>1, <1>3, <2>1, <2>2, <2>3
<1>11. Sums(k, t)'
  BY <1>1, <1>3, <1>8, <1>9, <1>10 DEF Sums
<1>12. QED
  BY <1>1, <1>3, <1>9, <1>11 DEF L, e

\* FindSimilarBlocker finds an open row, or there is none.
LEMMA SimilarIs ==
    ASSUME RowsOfBlockers, NEW k
    PROVE  IF Opens(k) = {} THEN Wor!FindSimilar(k) = 0 ELSE Wor!FindSimilar(k) \in Opens(k)
<1> DEFINE L == Len(blocker)
           found == CHOOSE b \in Opens(k) : \A c \in Opens(k) : c <= b
<1>1. Wor!FindSimilar(k) = IF Opens(k) = {} THEN 0 ELSE found
  BY DEF Wor!FindSimilar, Opens
<1>2. L \in Nat /\ Opens(k) \subseteq 1 .. L
  BY DEF RowsOfBlockers, Opens, Wor!Rows
<1> HIDE DEF L
<1>3. ASSUME Opens(k) # {} PROVE \E b \in Opens(k) : \A c \in Opens(k) : c <= b
  <2> DEFINE gaps == {L - b : b \in Opens(k)}
  <2>1. gaps \subseteq Nat /\ gaps # {}
    BY <1>2, <1>3
  <2> HIDE DEF gaps
  <2>2. PICK g \in gaps : \A h \in gaps : ~(<<h, g>> \in OpToRel(<, Nat))
    BY <2>1, NatLessThanWellFounded, WFMin
  <2>3. \A h \in gaps : ~(h < g)
    BY <2>1, <2>2 DEF OpToRel
  <2>4. PICK b \in Opens(k) : g = L - b
    BY DEF gaps
  <2>5. \A c \in Opens(k) : ~(L - c < L - b)
    BY <2>3, <2>4 DEF gaps
  <2>6. QED
    BY <1>2, <2>4, <2>5
<1>4. QED
  BY <1>1, <1>3

\* A goroutine goes on with what it had to do, but for a finding that is no blocker.
LEMMA WorkerGoesOn ==
    ASSUME CountedInv, UNCHANGED <<blocker, reported, lost, racing>>, NEW p \in Workers, ~Wor!At(p, "write"),
           NEW x, x.at # "write", Finding(x), work' = [work EXCEPT ![p] = x],
           \A k \in Wor!Problems : Wor!Mention(k) \in x.todo <=> Wor!Mention(k) \in work[p].todo
    PROVE  CountedInv'
<1>1. /\ RowsOfBlockers' /\ FindingsOK' /\ OneOpen'
      /\ \A k : Wor!Carrying(k)' = (Wor!Carrying(k) \ {p}) \cup IF Wor!Mention(k) \in x.todo THEN {p} ELSE {}
  BY WorkerAside
<1>2. ASSUME NEW k \in Wor!Problems PROVE Wor!Carrying(k)' = Wor!Carrying(k)
  <2>1. p \in Wor!Carrying(k) <=> Wor!Mention(k) \in x.todo
    BY DEF Wor!Carrying, Wor!Writing
  <2>2. QED
    BY <1>1, <2>1
<1>3. CountsKept'
  BY <1>2, CountsStay DEF CountedInv
<1>4. QED
  BY <1>1, <1>3 DEF CountedInv

LEMMA CountedReport == ASSUME CountedInv, NEW p \in Workers, NEW e \in Reporters, Wor!Report(p, e) PROVE CountedInv'
<1>1. PICK s \in SUBSET Wor!Items(e) :
         /\ work' = [work EXCEPT ![p] = [at |-> "merge", who |-> e, todo |-> s, item |-> None, found |-> 0]]
         /\ reported' = [k \in Wor!Problems |-> reported[k] + IF Wor!Mention(k) \in s THEN 1 ELSE 0]
  BY DEF Wor!Report
<1>2. \A i \in s : i.kind = "blocker" => Blocking(i)
  <2>1. ASSUME NEW i \in Wor!Items(e), i.kind = "blocker" PROVE Blocking(i)
    BY <2>1 DEF Wor!Items, Wor!Problems, Wor!Growth, Blocking
  <2>2. QED
    BY <2>1
<1> DEFINE x == [at |-> "merge", who |-> e, todo |-> s, item |-> None, found |-> 0]
<1>3. Finding(x) /\ x.at # "write" /\ x.todo = s
  BY <1>2 DEF Finding
<1>4. work' = [work EXCEPT ![p] = x]
  BY <1>1
<1> HIDE DEF x
<1>5. UNCHANGED <<blocker, racing, lost>> /\ Wor!At(p, "idle")
  BY DEF Wor!Report
<1>6. /\ RowsOfBlockers' /\ FindingsOK' /\ OneOpen'
      /\ \A k : Wor!Carrying(k)' = (Wor!Carrying(k) \ {p}) \cup IF Wor!Mention(k) \in s THEN {p} ELSE {}
  BY <1>3, <1>4, <1>5, WorkerAside
<1>7. work[p].todo = {} /\ ~Wor!At(p, "write")
  BY <1>5 DEF CountedInv, FindingsOK, Finding, Wor!At
<1>8. CountsKept'
  <2>1. reported \in [Wor!Problems -> Nat] /\ lost' = lost /\ lost \in [Wor!Problems -> Nat]
    BY <1>5 DEF CountedInv, CountsKept
  <2>2. reported' \in [Wor!Problems -> Nat]
    BY <1>1, <2>1
  <2>3. ASSUME NEW k \in Wor!Problems
        PROVE  /\ IsFiniteSet(Wor!Carrying(k)')
               /\ \E t : Sums(k, t)' /\ reported'[k] = t[Len(blocker')] + Cardinality(Wor!Carrying(k)') + lost'[k]
    <3>1. PICK t : Sums(k, t) /\ reported[k] = t[Len(blocker)] + Cardinality(Wor!Carrying(k)) + lost[k]
      BY DEF CountedInv, CountsKept
    <3>2. IsFiniteSet(Wor!Carrying(k)) /\ p \notin Wor!Carrying(k)
      BY <1>7 DEF CountedInv, CountsKept, Wor!Carrying, Wor!Writing
    <3>3. Cardinality(Wor!Carrying(k)) \in Nat
      BY <3>2, FS_CardinalityType
    <3>4. Sums(k, t)' /\ Len(blocker') = Len(blocker)
      BY <1>5, <3>1 DEF Sums, Says, Wor!Of
    <3>5. t[Len(blocker)] \in Nat
      BY <3>1 DEF Sums, CountedInv, RowsOfBlockers
    <3>6. CASE Wor!Mention(k) \in s
      <4>1. Wor!Carrying(k)' = Wor!Carrying(k) \cup {p}
        BY <1>6, <3>2, <3>6
      <4>2. IsFiniteSet(Wor!Carrying(k)') /\ Cardinality(Wor!Carrying(k)') = Cardinality(Wor!Carrying(k)) + 1
        BY <3>2, <4>1, FS_AddElement
      <4>3. reported'[k] = reported[k] + 1
        BY <1>1, <3>6
      <4>4. QED
        <5>1. lost'[k] = lost[k] /\ lost[k] \in Nat
          BY <2>1
        <5>2. reported'[k] = t[Len(blocker')] + Cardinality(Wor!Carrying(k)') + lost'[k]
          BY <3>1, <3>3, <3>4, <3>5, <4>2, <4>3, <5>1
        <5>3. QED
          BY <3>4, <4>2, <5>2
    <3>7. CASE Wor!Mention(k) \notin s
      <4>1. Wor!Carrying(k)' = Wor!Carrying(k)
        BY <1>6, <3>2, <3>7
      <4>2. reported'[k] = reported[k]
        BY <1>1, <2>1, <3>7
      <4>3. QED
        BY <2>1, <3>1, <3>2, <3>4, <4>1, <4>2
    <3>8. QED
      BY <3>6, <3>7
  <2>4. QED
    BY <2>1, <2>2, <2>3 DEF CountsKept
<1>9. QED
  BY <1>6, <1>8 DEF CountedInv

LEMMA CountedCrash == ASSUME CountedInv, Wor!Crash PROVE CountedInv'
<1>1. /\ work' = [p \in Workers |-> Wor!Idle] /\ UNCHANGED <<blocker, reported, racing>>
      /\ lost' = [k \in Wor!Problems |-> lost[k] + Cardinality(Wor!Carrying(k))]
  BY WorCounts DEF Wor!Crash
<1>2. \A k : Wor!Writing(k)' = {} /\ Wor!Carrying(k)' = {}
  BY <1>1 DEF Wor!Writing, Wor!Carrying, Wor!At, Wor!Idle
<1>3. RowsOfBlockers' /\ FindingsOK'
  BY <1>1 DEF CountedInv, RowsOfBlockers, FindingsOK, Finding, FoundOK, Wor!Idle
<1>4. OneOpen'
  <2>1. \A k : Claims(k)' \subseteq Claims(k)
    <3>1. \A k : Opens(k)' = Opens(k)
      BY <1>1 DEF Opens, Wor!Rows, Wor!Of
    <3>2. QED
      BY <1>2, <3>1 DEF Claims
  <2>2. OneOpen
    BY DEF CountedInv
  <2>3. QED
    BY <1>1, <2>1, <2>2, ClaimsShrink DEF OneOpen
<1>5. CountsKept'
  <2>1. \A k \in Wor!Problems : IsFiniteSet(Wor!Carrying(k)') /\ Cardinality(Wor!Carrying(k)') = 0
    BY <1>2, FS_EmptySet
  <2>2. \A k \in Wor!Problems : Cardinality(Wor!Carrying(k)) \in Nat
    BY FS_CardinalityType DEF CountedInv, CountsKept
  <2>3. /\ reported \in [Wor!Problems -> Nat] /\ lost \in [Wor!Problems -> Nat]
    BY DEF CountedInv, CountsKept
  <2>4. lost' \in [Wor!Problems -> Nat] /\ \A k \in Wor!Problems : lost'[k] = lost[k] + Cardinality(Wor!Carrying(k))
    BY <1>1, <2>2, <2>3
  <2>5. ASSUME NEW k \in Wor!Problems
        PROVE  \E t : Sums(k, t)' /\ reported'[k] = t[Len(blocker')] + Cardinality(Wor!Carrying(k)') + lost'[k]
    <3>1. PICK t : Sums(k, t) /\ reported[k] = t[Len(blocker)] + Cardinality(Wor!Carrying(k)) + lost[k]
      BY DEF CountedInv, CountsKept
    <3>2. Sums(k, t)' /\ Len(blocker') = Len(blocker)
      BY <1>1, <3>1 DEF Sums, Says, Wor!Of
    <3>3. t[Len(blocker)] \in Nat
      BY <3>1 DEF Sums, CountedInv, RowsOfBlockers
    <3>4. QED
      BY <1>1, <2>1, <2>2, <2>3, <2>4, <3>1, <3>2, <3>3
  <2>6. QED
    BY <1>1, <2>1, <2>3, <2>4, <2>5 DEF CountsKept
<1>6. QED
  BY <1>3, <1>4, <1>5 DEF CountedInv

LEMMA CountedMerge ==
    ASSUME CountedInv, NEW p \in Workers, NEW i \in work[p].todo, Wor!MergeBlocker(p, i)
    PROVE  CountedInv'
<1>1. RowsOfBlockers /\ CountsKept /\ FindingsOK /\ OneOpen
  BY DEF CountedInv
<1>2. PICK ok \in BOOLEAN :
        /\ Wor!Goes(p, "write", work[p].todo \ {i}, i, IF ok THEN Wor!FindSimilar(i.of) ELSE 0)
        /\ racing' = [racing EXCEPT ![i.of] = IF ~i.resolved /\ (Wor!Writing(i.of) # {} \/ ~ok) THEN @ + 1 ELSE @]
  BY DEF Wor!MergeBlocker
<1>3. Blocking(i)
  BY <1>1 DEF Wor!MergeBlocker, FindingsOK, Finding
<1>4. PICK k, f : k \in Wor!Problems /\ k = i.of /\ f = IF ok THEN Wor!FindSimilar(i.of) ELSE 0
  BY <1>3 DEF Blocking
<1>5. UNCHANGED <<blocker, reported, lost>> /\ Wor!At(p, "merge")
  BY DEF Wor!MergeBlocker, Wor!Turn
<1> DEFINE x == [at |-> "write", who |-> work[p].who, todo |-> work[p].todo \ {i}, item |-> i, found |-> f]
<1>6. /\ x.at = "write" /\ x.item = i /\ x.found = f /\ work' = [work EXCEPT ![p] = x]
      /\ x = [at |-> x.at, who |-> x.who, todo |-> x.todo, item |-> x.item, found |-> x.found]
      /\ x.todo = work[p].todo \ {i}
  BY <1>2, <1>4 DEF Wor!Goes
<1> HIDE DEF x
<1>7. work' = [q \in Workers |-> work'[q]] /\ work'[p] = x /\ \A q \in Workers : q # p => work'[q] = work[q]
  BY <1>1, <1>6 DEF FindingsOK
<1>8. ok => IF Opens(k) = {} THEN f = 0 ELSE f \in Opens(k)
  BY <1>1, <1>4, SimilarIs
<1>9. Wor!Rows \subseteq Nat \ {0}
  BY <1>1 DEF RowsOfBlockers, Wor!Rows
<1>10. FindingsOK'
  <2>1. Finding(x)
    BY <1>1, <1>3, <1>6 DEF FindingsOK, Finding
  <2>2. f # 0 => f \in Wor!Rows /\ Wor!Of(f) = k
    BY <1>4, <1>8 DEF Opens
  <2>3. FoundOK(x)
    BY <1>4, <1>6, <2>2 DEF FoundOK
  <2>4. \A q \in Workers : Finding(work'[q]) /\ FoundOK(work'[q])
    BY <1>1, <1>7, <2>1, <2>3 DEF FindingsOK
  <2>5. QED
    BY <1>5, <1>7, <2>4 DEF FindingsOK, Finding, FoundOK, Wor!Rows, Wor!Of
<1>11. \A j : Wor!Writing(j)' = Wor!Writing(j) \cup IF i = Wor!Mention(j) THEN {p} ELSE {}
  <2>1. ASSUME NEW j, NEW q \in Workers
        PROVE  q \in Wor!Writing(j)' <=> (q \in Wor!Writing(j) \/ (q = p /\ i = Wor!Mention(j)))
    <3>1. CASE q = p
      BY <1>5, <1>6, <1>7, <3>1 DEF Wor!Writing, Wor!At, Wor!Mention
    <3>2. CASE q # p
      BY <1>7, <3>2 DEF Wor!Writing, Wor!At, Wor!Mention
    <3>3. QED
      BY <3>1, <3>2
  <2>2. \A j : Wor!Writing(j) \subseteq Workers /\ Wor!Writing(j)' \subseteq Workers
    BY DEF Wor!Writing
  <2>3. QED
    BY <2>1, <2>2
<1>12. CountsKept'
  <2>1. ASSUME NEW j \in Wor!Problems PROVE Wor!Carrying(j)' = Wor!Carrying(j)
    <3>1. \A q \in Workers : q # p => (Wor!Mention(j) \in work'[q].todo <=> Wor!Mention(j) \in work[q].todo)
      BY <1>7
    <3>2. Wor!Mention(j) \in work'[p].todo <=> (Wor!Mention(j) \in work[p].todo /\ i # Wor!Mention(j))
      BY <1>6, <1>7
    <3>3. i = Wor!Mention(j) => Wor!Mention(j) \in work[p].todo
      OBVIOUS
    <3>4. Wor!Carrying(j)' = Wor!Writing(j)' \cup {q \in Workers : Wor!Mention(j) \in work'[q].todo}
      BY DEF Wor!Carrying, Wor!Mention
    <3>5. Wor!Carrying(j) = Wor!Writing(j) \cup {q \in Workers : Wor!Mention(j) \in work[q].todo}
      BY DEF Wor!Carrying
    <3>6. QED
      BY <1>11, <3>1, <3>2, <3>3, <3>4, <3>5
  <2>2. QED
    BY <1>1, <1>5, <2>1, CountsStay
<1>13. OneOpen'
  <2>1. \A j : Opens(j)' = Opens(j)
    BY <1>5 DEF Opens, Wor!Rows, Wor!Of
  <2>2. \A j : \A q \in Wor!Writing(j) : Claim(q)' = Claim(q)
    BY <1>5, <1>7 DEF Claim, Wor!Writing, Wor!At
  <2>3. PICK c : c = Claim(p)'
    OBVIOUS
  <2>4. \A j : Claims(j)' = Claims(j) \cup IF i = Wor!Mention(j) THEN {c} ELSE {}
    BY <1>11, <2>1, <2>2, <2>3 DEF Claims
  <2>5. c = IF f = 0 THEN <<"new", p>> ELSE <<"row", f>>
    BY <1>6, <1>7, <2>3 DEF Claim
  <2>6. racing' \in [Wor!Problems -> Nat]
    <3>1. racing \in [Wor!Problems -> Nat] /\ racing[k] \in Nat
      BY <1>1, <1>4 DEF OneOpen
    <3>2. racing' = racing \/ racing' = [racing EXCEPT ![k] = racing[k] + 1]
      BY <1>2, <1>4, <3>1
    <3>3. QED
      BY <3>1, <3>2
  <2>7. ASSUME NEW j \in Wor!Problems PROVE IsFiniteSet(Claims(j)') /\ Cardinality(Claims(j)') <= 1 + racing'[j]
    <3>1. IsFiniteSet(Claims(j)) /\ Cardinality(Claims(j)) <= 1 + racing[j] /\ racing[j] \in Nat
      BY <1>1 DEF OneOpen
    <3>2. Cardinality(Claims(j)) \in Nat
      BY <3>1, FS_CardinalityType
    <3>3. racing'[j] = racing[j] \/ racing'[j] = racing[j] + 1
      BY <1>1, <1>2 DEF OneOpen
    <3>4. CASE i # Wor!Mention(j)
      <4>1. Claims(j)' = Claims(j)
        BY <2>4, <3>4
      <4>2. QED
        BY <3>1, <3>2, <3>3, <4>1
    <3>5. CASE i = Wor!Mention(j)
      <4>1. ~i.resolved /\ i.of = j /\ k = j
        BY <1>4, <3>5 DEF Wor!Mention
      <4>2. Claims(j)' = Claims(j) \cup {c}
        BY <2>4, <3>5
      <4>3. IsFiniteSet(Claims(j)') /\ Cardinality(Claims(j)') = IF c \in Claims(j) THEN Cardinality(Claims(j)) ELSE Cardinality(Claims(j)) + 1
        BY <3>1, <4>2, FS_AddElement
      <4>4. CASE Wor!Writing(j) # {} \/ ~ok
        <5>1. racing'[j] = racing[j] + 1
          BY <1>1, <1>2, <4>1, <4>4 DEF OneOpen
        <5>2. QED
          BY <3>1, <3>2, <4>3, <5>1
      <4>5. CASE Wor!Writing(j) = {} /\ ok /\ Opens(j) = {}
        <5>1. Claims(j) = {}
          BY <4>5 DEF Claims
        <5>2. Cardinality(Claims(j)') = 1
          BY <4>2, <5>1, FS_Singleton
        <5>3. QED
          BY <2>6, <3>1, <3>3, <4>3, <5>2
      <4>6. CASE Wor!Writing(j) = {} /\ ok /\ Opens(j) # {}
        <5>1. f \in Opens(j) /\ f # 0
          BY <1>8, <1>9, <4>1, <4>6 DEF Opens
        <5>2. c \in Claims(j)
          BY <2>5, <5>1 DEF Claims
        <5>3. QED
          BY <3>1, <3>2, <3>3, <4>3, <5>2
      <4>7. QED
        BY <4>4, <4>5, <4>6
    <3>6. QED
      BY <3>4, <3>5
  <2>8. QED
    BY <2>6, <2>7 DEF OneOpen
<1>14. RowsOfBlockers'
  BY <1>1, <1>5 DEF RowsOfBlockers
<1>15. QED
  BY <1>10, <1>12, <1>13, <1>14 DEF CountedInv

LEMMA CountedWrite == ASSUME CountedInv, NEW p \in Workers, Wor!WriteBlocker(p) PROVE CountedInv'
<1>1. RowsOfBlockers /\ CountsKept /\ FindingsOK /\ OneOpen
  BY DEF CountedInv
<1>2. Wor!At(p, "write") /\ Wor!Goes(p, "merge", work[p].todo, None, 0) /\ UNCHANGED <<racing, reported>>
  BY DEF Wor!WriteBlocker
<1>3. Finding(work[p]) /\ FoundOK(work[p]) /\ work[p].at = "write"
  BY <1>1, <1>2 DEF FindingsOK, Wor!At
<1>4. Blocking(work[p].item) /\ work[p].item \notin work[p].todo
  BY <1>3 DEF Finding
<1>5. PICK i, k, b, m : /\ i = work[p].item /\ k = i.of /\ b = work[p].found
                        /\ m = IF i.resolved THEN 0 ELSE 1
  OBVIOUS
<1>6. k \in Wor!Problems /\ i.resolved \in BOOLEAN /\ m \in {0, 1} /\ i \notin work[p].todo
  BY <1>4, <1>5 DEF Blocking
<1>7. b # 0 => b \in Wor!Rows /\ Wor!Of(b) = k
  BY <1>3, <1>5 DEF FoundOK
<1> DEFINE x == [at |-> "merge", who |-> work[p].who, todo |-> work[p].todo, item |-> None, found |-> 0]
<1>8. Finding(x) /\ x.at # "write" /\ x.todo = work[p].todo
  BY <1>3 DEF Finding
<1>9. work' = [work EXCEPT ![p] = x]
  BY <1>2 DEF Wor!Goes
<1> HIDE DEF x
<1>10. work' = [q \in Workers |-> work'[q]] /\ work'[p] = x /\ \A q \in Workers : q # p => work'[q] = work[q]
  BY <1>1, <1>9 DEF FindingsOK
<1>11. \A j : i = Wor!Mention(j) => m = 1 /\ j = k
  BY <1>5 DEF Wor!Mention
<1>12. m = 1 => i = Wor!Mention(k)
  <2>1. i = [kind |-> "blocker", of |-> i.of, resolved |-> i.resolved]
    BY <1>4, <1>5 DEF Blocking
  <2>2. m = 1 => i.resolved = FALSE
    BY <1>5, <1>6
  <2>3. QED
    BY <1>5, <2>1, <2>2 DEF Wor!Mention
<1>13. \A j : Wor!Writing(j)' = Wor!Writing(j) \ {p}
  BY <1>8, <1>10 DEF Wor!Writing, Wor!At, Wor!Mention
<1>14. \A j : p \in Wor!Writing(j) <=> i = Wor!Mention(j)
  BY <1>2, <1>5 DEF Wor!Writing
\* A mention is on its way no longer.
<1>15. ASSUME NEW j \in Wor!Problems
       PROVE  /\ IsFiniteSet(Wor!Carrying(j)')
              /\ Cardinality(Wor!Carrying(j)) \in Nat /\ Cardinality(Wor!Carrying(j)') \in Nat
              /\ Cardinality(Wor!Carrying(j)) = Cardinality(Wor!Carrying(j)') + IF j = k THEN m ELSE 0
  <2>1. IsFiniteSet(Wor!Carrying(j))
    BY <1>1 DEF CountsKept
  <2>2. \A q \in Workers : Wor!Mention(j) \in work'[q].todo <=> Wor!Mention(j) \in work[q].todo
    BY <1>8, <1>10
  <2>3. Wor!Carrying(j)' = Wor!Writing(j)' \cup {q \in Workers : Wor!Mention(j) \in work'[q].todo}
    BY DEF Wor!Carrying, Wor!Mention
  <2>4. Wor!Carrying(j) = Wor!Writing(j) \cup {q \in Workers : Wor!Mention(j) \in work[q].todo}
    BY DEF Wor!Carrying
  <2>5. CASE i = Wor!Mention(j)
    <3>1. Wor!Carrying(j)' = Wor!Carrying(j) \ {p} /\ p \in Wor!Carrying(j)
      BY <1>6, <1>13, <1>14, <2>2, <2>3, <2>4, <2>5
    <3>2. /\ IsFiniteSet(Wor!Carrying(j)')
          /\ Cardinality(Wor!Carrying(j)') = Cardinality(Wor!Carrying(j)) - 1
      BY <2>1, <3>1, FS_RemoveElement
    <3>3. Cardinality(Wor!Carrying(j)) \in Nat /\ Cardinality(Wor!Carrying(j)') \in Nat
      BY <2>1, <3>2, FS_CardinalityType
    <3>4. j = k /\ m = 1
      BY <1>11, <2>5
    <3>5. QED
      BY <3>2, <3>3, <3>4
  <2>6. CASE i # Wor!Mention(j)
    <3>1. Wor!Carrying(j)' = Wor!Carrying(j)
      BY <1>13, <1>14, <2>2, <2>3, <2>4, <2>6
    <3>2. j = k => m = 0
      BY <1>6, <1>12, <2>6
    <3>3. QED
      BY <2>1, <3>1, <3>2, FS_CardinalityType
  <2>7. QED
    BY <2>5, <2>6
\* So that what the rows count more and what is lost make up for it.
<1>16. ASSUME NEW d \in {0, 1}, NEW l \in {0, 1}, d + l = m, lost' = [lost EXCEPT ![k] = @ + l],
              \A j \in Wor!Problems : \A s : Sums(j, s) =>
                 \E t : Sums(j, t)' /\ t[Len(blocker')] = s[Len(blocker)] + IF j = k THEN d ELSE 0
       PROVE  CountsKept'
  <2>1. reported \in [Wor!Problems -> Nat] /\ lost \in [Wor!Problems -> Nat] /\ reported' = reported
    BY <1>1, <1>2 DEF CountsKept
  <2>2. lost' \in [Wor!Problems -> Nat] /\ \A j \in Wor!Problems : lost'[j] = lost[j] + IF j = k THEN l ELSE 0
    BY <1>6, <1>16, <2>1
  <2>3. ASSUME NEW j \in Wor!Problems
        PROVE  \E t : Sums(j, t)' /\ reported'[j] = t[Len(blocker')] + Cardinality(Wor!Carrying(j)') + lost'[j]
    <3>1. PICK s : Sums(j, s) /\ reported[j] = s[Len(blocker)] + Cardinality(Wor!Carrying(j)) + lost[j]
      BY <1>1 DEF CountsKept
    <3>2. PICK t : Sums(j, t)' /\ t[Len(blocker')] = s[Len(blocker)] + IF j = k THEN d ELSE 0
      BY <1>16, <3>1
    <3>3. s[Len(blocker)] \in Nat
      BY <1>1, <3>1 DEF Sums, RowsOfBlockers
    <3>4. /\ Cardinality(Wor!Carrying(j)) \in Nat /\ Cardinality(Wor!Carrying(j)') \in Nat
          /\ Cardinality(Wor!Carrying(j)) = Cardinality(Wor!Carrying(j)') + IF j = k THEN m ELSE 0
      BY <1>15
    <3>5. lost[j] \in Nat /\ lost'[j] = lost[j] + (IF j = k THEN l ELSE 0) /\ reported'[j] = reported[j]
      BY <2>1, <2>2
    <3>6. reported'[j] = t[Len(blocker')] + Cardinality(Wor!Carrying(j)') + lost'[j]
      <4>1. CASE j = k
        <5>1. PICK u, c, v : u = s[Len(blocker)] /\ c = Cardinality(Wor!Carrying(j)') /\ v = lost[j]
          OBVIOUS
        <5>2. u \in Nat /\ c \in Nat /\ v \in Nat
          BY <3>3, <3>4, <3>5, <5>1
        <5>3. Cardinality(Wor!Carrying(j)) = c + m /\ lost'[j] = v + l /\ t[Len(blocker')] = u + d
          BY <3>2, <3>4, <3>5, <4>1, <5>1
        <5>4. reported'[j] = u + (c + m) + v
          BY <3>1, <3>5, <5>1, <5>3
        <5>5. u + (c + m) + v = (u + d) + c + (v + l)
          BY <1>16, <5>2
        <5>6. QED
          BY <5>1, <5>3, <5>4, <5>5
      <4>2. CASE j # k
        BY <3>1, <3>2, <3>3, <3>4, <3>5, <4>2
      <4>3. QED
        BY <4>1, <4>2
    <3>7. QED
      BY <3>2, <3>6
  <2>4. QED
    BY <1>15, <2>1, <2>2, <2>3 DEF CountsKept
<1>17. \A j : \A q \in Wor!Writing(j)' : q \in Wor!Writing(j) /\ q # p /\ Claim(q)' = Claim(q)
  BY <1>10, <1>13 DEF Claim, Wor!Writing
<1>18. ASSUME \A j \in Wor!Problems : Opens(j)' \subseteq Opens(j) \cup IF m = 1 /\ j = k /\ b # 0 THEN {b} ELSE {}
       PROVE  OneOpen'
  <2>1. ASSUME NEW j \in Wor!Problems PROVE Claims(j)' \subseteq Claims(j)
    <3>1. m = 1 /\ j = k /\ b # 0 => <<"row", b>> \in Claims(j)
      BY <1>5, <1>12, <1>14 DEF Claims, Claim
    <3>2. QED
      BY <1>17, <1>18, <3>1 DEF Claims
  <2>2. QED
    BY <1>1, <1>2, <2>1, ClaimsShrink DEF OneOpen
<1>19. ASSUME Wor!Rows \subseteq Wor!Rows', \A n \in Wor!Rows : Wor!Of(n)' = Wor!Of(n) PROVE FindingsOK'
  <2>1. \A w : FoundOK(w) => FoundOK(w)'
    BY <1>19 DEF FoundOK
  <2>2. ASSUME NEW q \in Workers PROVE Finding(work'[q]) /\ FoundOK(work[q])'
    <3>1. PICK w : w = work[q]
      OBVIOUS
    <3>2. Finding(w) /\ FoundOK(w)'
      BY <1>1, <2>1, <3>1 DEF FindingsOK
    <3>3. PICK y : y = x
      OBVIOUS
    <3>4. work'[q] = w \/ work'[q] = y
      BY <1>10, <3>1, <3>3
    <3>5. Finding(y) /\ FoundOK(y)'
      BY <1>8, <3>3 DEF FoundOK
    <3>6. QED
      BY <3>2, <3>4, <3>5
  <2>3. QED
    BY <1>10, <2>2 DEF FindingsOK, Finding
<1>20. ASSUME UNCHANGED blocker, NEW l \in {0, 1}, l = m, lost' = [lost EXCEPT ![k] = @ + l] PROVE CountedInv'
  <2>1. \A j, s : Sums(j, s) => Sums(j, s)'
    BY <1>20 DEF Sums, Says, Wor!Of
  <2>2. \A j \in Wor!Problems : \A s : Sums(j, s) =>
           \E t : Sums(j, t)' /\ t[Len(blocker')] = s[Len(blocker)] + IF j = k THEN 0 ELSE 0
    <3>1. \A j, s : Sums(j, s) => s[Len(blocker)] \in Nat
      BY <1>1 DEF Sums, RowsOfBlockers
    <3>2. QED
      BY <1>20, <2>1, <3>1
  <2>3. 0 \in {0, 1} /\ 0 + l = m
    BY <1>20
  <2>4. CountsKept'
    BY <1>16, <1>20, <2>2, <2>3
  <2>5. OneOpen'
    <3>1. \A j : Opens(j)' = Opens(j)
      BY <1>20 DEF Opens, Wor!Rows, Wor!Of
    <3>2. QED
      BY <1>18, <3>1
  <2>6. RowsOfBlockers' /\ FindingsOK'
    <3>1. Wor!Rows' = Wor!Rows /\ \A n \in Wor!Rows : Wor!Of(n)' = Wor!Of(n)
      BY <1>20 DEF Wor!Rows, Wor!Of
    <3>2. QED
      BY <1>1, <1>19, <1>20, <3>1 DEF RowsOfBlockers
  <2>7. QED
    BY <2>4, <2>5, <2>6 DEF CountedInv
<1>21. lost = [lost EXCEPT ![k] = @ + 0]
  BY <1>1, <1>6 DEF CountsKept
\* The row that was found is written, and counts m mentions more.
<1>22. ASSUME b # 0, NEW status \in {"active", "recurring", "resolved"}, m = 0 => status = "resolved",
              Wor!Sets(b, status, blocker[b].recurrence + m), UNCHANGED lost
       PROVE  CountedInv'
  <2>1. b \in Wor!Rows /\ Wor!Of(b) = k
    BY <1>7, <1>22
  <2>2. /\ RowsOfBlockers' /\ Len(blocker') = Len(blocker) /\ Wor!Rows' = Wor!Rows
        /\ \A n \in Wor!Rows : Wor!Of(n)' = Wor!Of(n)
        /\ \A n \in Wor!Rows : blocker'[n].recurrence = blocker[n].recurrence + (IF n = b THEN m ELSE 0)
        /\ \A n \in Wor!Rows : blocker'[n].status = IF n = b THEN status ELSE blocker[n].status
    BY <1>1, <1>6, <1>22, <2>1, RowWritten
  <2>3. FindingsOK'
    BY <1>19, <2>2
  <2>4. ASSUME NEW j \in Wor!Problems, NEW s, Sums(j, s)
        PROVE  \E t : Sums(j, t)' /\ t[Len(blocker')] = s[Len(blocker)] + IF j = k THEN m ELSE 0
    <3>1. PICK t : Sums(j, t)' /\ t[Len(blocker')] = s[Len(blocker)] + IF Wor!Of(b) = j THEN m ELSE 0
      BY <1>1, <1>6, <2>1, <2>2, <2>4, SumWritten
    <3>2. QED
      BY <2>1, <3>1
  <2>5. CountsKept'
    <3>1. lost' = [lost EXCEPT ![k] = @ + 0] /\ 0 \in {0, 1} /\ m + 0 = m
      BY <1>6, <1>21, <1>22
    <3>2. QED
      BY <1>6, <1>16, <2>4, <3>1
  <2>6. OneOpen'
    <3>1. ASSUME NEW j \in Wor!Problems
          PROVE  Opens(j)' \subseteq Opens(j) \cup IF m = 1 /\ j = k /\ b # 0 THEN {b} ELSE {}
      <4>1. ASSUME NEW n \in Opens(j)' PROVE n \in Opens(j) \/ (m = 1 /\ j = k /\ n = b)
        <5>1. n \in Wor!Rows /\ Wor!Of(n) = j /\ blocker'[n].status # "resolved"
          BY <2>2, <4>1 DEF Opens
        <5>2. CASE n = b
          BY <1>6, <1>22, <2>1, <2>2, <5>1, <5>2
        <5>3. CASE n # b
          BY <2>2, <5>1, <5>3 DEF Opens
        <5>4. QED
          BY <5>2, <5>3
      <4>2. QED
        BY <1>22, <4>1
    <3>2. QED
      BY <1>18, <3>1
  <2>7. QED
    BY <2>2, <2>3, <2>5, <2>6 DEF CountedInv
\* A row is created in place of none.
<1>23. ASSUME m = 1, b = 0, Wor!CreateBlocker(k), UNCHANGED lost PROVE CountedInv'
  <2>1. /\ RowsOfBlockers' /\ Len(blocker) \in Nat /\ Len(blocker') = Len(blocker) + 1
        /\ \A n \in Wor!Rows : blocker'[n] = blocker[n]
        /\ blocker'[Len(blocker) + 1].who = k[1] /\ blocker'[Len(blocker) + 1].category = k[2]
    BY <1>1, <1>6, <1>23, RowCreated
  <2>2. PICK new : new = Len(blocker) + 1
    OBVIOUS
  <2>3. Wor!Of(new)' = k
    BY <1>6, <2>1, <2>2 DEF Wor!Of, Wor!Problems
  <2>4. /\ \A n \in Wor!Rows : n \in Wor!Rows' /\ Wor!Of(n)' = Wor!Of(n)
        /\ \A n \in Wor!Rows' : n \in Wor!Rows \/ n = new
    BY <2>1, <2>2 DEF Wor!Rows, Wor!Of
  <2>5. FindingsOK'
    BY <1>19, <2>4
  <2>6. CountsKept'
    <3>1. ASSUME NEW j \in Wor!Problems, NEW s, Sums(j, s)
          PROVE  \E t : Sums(j, t)' /\ t[Len(blocker')] = s[Len(blocker)] + IF j = k THEN 1 ELSE 0
      BY <1>1, <1>6, <1>23, <3>1, SumCreated
    <3>2. lost' = [lost EXCEPT ![k] = @ + 0] /\ 0 \in {0, 1} /\ 1 \in {0, 1} /\ 1 + 0 = m
      BY <1>21, <1>23
    <3>3. QED
      BY <1>16, <3>1, <3>2
  <2>7. OneOpen'
    <3>1. \A j : Opens(j)' \subseteq Opens(j) \cup IF j = k THEN {new} ELSE {}
      <4>1. ASSUME NEW j, NEW n \in Opens(j)' PROVE n \in Opens(j) \/ (j = k /\ n = new)
        <5>1. n \in Wor!Rows' /\ Wor!Of(n)' = j /\ blocker'[n].status # "resolved"
          BY <4>1 DEF Opens
        <5>2. CASE n = new
          BY <2>3, <5>1, <5>2
        <5>3. CASE n \in Wor!Rows
          BY <2>1, <2>4, <5>1, <5>3 DEF Opens
        <5>4. QED
          BY <2>4, <5>1, <5>2, <5>3
      <4>2. QED
        BY <4>1
    <3>2. ASSUME NEW j \in Wor!Problems PROVE IsFiniteSet(Claims(j)') /\ Cardinality(Claims(j)') <= 1 + racing[j]
      <4>1. CASE j # k
        <5>1. Claims(j)' \subseteq Claims(j)
          BY <1>17, <3>1, <4>1 DEF Claims
        <5>2. QED
          BY <1>1, <5>1, ClaimsShrink
      <4>2. CASE j = k
        <5> DEFINE c == <<"new", p>>
                   d == <<"row", new>>
                   S == Claims(j) \ {c}
        <5>1. c \in Claims(j)
          BY <1>5, <1>12, <1>14, <1>23, <4>2 DEF Claims, Claim
        <5>2. \A q \in Wor!Writing(j)' : Claim(q) # c
          BY <1>17 DEF Claim
        <5>3. \A n : <<"row", n>> # c
          OBVIOUS
        <5>4. Claims(j)' \subseteq S \cup {d}
          BY <1>17, <3>1, <5>2, <5>3 DEF Claims
        <5>5. IsFiniteSet(Claims(j)) /\ Cardinality(Claims(j)) <= 1 + racing[j] /\ racing[j] \in Nat
          BY <1>1 DEF OneOpen
        <5> HIDE DEF c, d
        <5>6. IsFiniteSet(S) /\ Cardinality(S) = Cardinality(Claims(j)) - 1
          BY <5>1, <5>5, FS_RemoveElement
        <5> HIDE DEF S
        <5>7. /\ IsFiniteSet(S \cup {d})
              /\ Cardinality(S \cup {d}) = IF d \in S THEN Cardinality(S) ELSE Cardinality(S) + 1
          BY <5>6, FS_AddElement
        <5>8. IsFiniteSet(Claims(j)') /\ Cardinality(Claims(j)') <= Cardinality(S \cup {d})
          BY <5>4, <5>7, FS_Subset
        <5>9. Cardinality(Claims(j)) \in Nat /\ Cardinality(S) \in Nat /\ Cardinality(Claims(j)') \in Nat
          BY <5>5, <5>6, <5>8, FS_CardinalityType
        <5>10. QED
          BY <5>5, <5>6, <5>7, <5>8, <5>9
      <4>3. QED
        BY <4>1, <4>2
    <3>3. QED
      BY <1>1, <1>2, <3>2 DEF OneOpen
  <2>8. QED
    BY <2>1, <2>5, <2>6, <2>7 DEF CountedInv
<1>24. b # 0 => blocker[b].recurrence + 0 = blocker[b].recurrence
  <2>1. ASSUME b # 0 PROVE blocker[b] \in Blockers
    BY <1>1, <1>7, <2>1 DEF RowsOfBlockers, Wor!Rows
  <2>2. QED
    BY <2>1 DEF Blockers
<1>25. CASE i.resolved /\ (IF b = 0 THEN UNCHANGED blocker ELSE Wor!Resolve(b)) /\ UNCHANGED lost
  <2>1. m = 0
    BY <1>5, <1>25
  <2>2. CASE b = 0
    BY <1>20, <1>21, <1>25, <2>1, <2>2
  <2>3. CASE b # 0
    <3>1. Wor!Sets(b, "resolved", blocker[b].recurrence + m)
      BY <1>24, <1>25, <2>1, <2>3 DEF Wor!Resolve
    <3>2. QED
      BY <1>22, <1>25, <2>3, <3>1
  <2>4. QED
    BY <2>2, <2>3
<1>26. CASE ~i.resolved /\ (IF b = 0 THEN Wor!CreateBlocker(k) ELSE Wor!Increment(b)) /\ UNCHANGED lost
  <2>1. m = 1
    BY <1>5, <1>26
  <2>2. CASE b = 0
    BY <1>23, <1>26, <2>1, <2>2
  <2>3. CASE b # 0
    <3>1. Wor!Sets(b, "recurring", blocker[b].recurrence + m)
      BY <1>26, <2>1, <2>3 DEF Wor!Increment
    <3>2. QED
      BY <1>22, <1>26, <2>1, <2>3, <3>1
  <2>4. QED
    BY <2>2, <2>3
<1>27. CASE UNCHANGED blocker /\ lost' = [lost EXCEPT ![k] = IF i.resolved THEN @ ELSE @ + 1]
  <2>1. lost' = [lost EXCEPT ![k] = @ + m]
    <3>1. lost \in [Wor!Problems -> Nat] /\ lost[k] \in Nat
      BY <1>1, <1>6 DEF CountsKept
    <3>2. CASE i.resolved
      <4>1. lost' = [lost EXCEPT ![k] = @]
        BY <1>27, <3>2
      <4>2. m = 0 /\ lost[k] + m = lost[k]
        BY <1>5, <3>1, <3>2
      <4>3. QED
        BY <3>1, <4>1, <4>2
    <3>3. CASE ~i.resolved
      BY <1>5, <1>27, <3>1, <3>3
    <3>4. QED
      BY <3>2, <3>3
  <2>2. QED
    BY <1>6, <1>20, <1>27, <2>1
<1>28. QED
  BY <1>5, <1>25, <1>26, <1>27 DEF Wor!WriteBlocker

LEMMA CountedNext == ASSUME CountedInv, [Wor!Next]_Wor!vars PROVE CountedInv'
<1>1. RowsOfBlockers /\ CountsKept /\ FindingsOK /\ OneOpen
  BY DEF CountedInv
<1>2. ASSUME NEW p \in Workers, NEW i \in work[p].todo, Wor!MergeSkill(p, i) \/ Wor!MergeTie(p, i) \/ Wor!MergeGrowth(p, i)
      PROVE  CountedInv'
  <2> DEFINE x == [at |-> "merge", who |-> work[p].who, todo |-> work[p].todo \ {i}, item |-> None, found |-> 0]
  <2>1. UNCHANGED <<blocker, reported, lost, racing>> /\ Wor!Goes(p, "merge", work[p].todo \ {i}, None, 0)
    BY <1>2 DEF Wor!MergeSkill, Wor!MergeTie, Wor!MergeGrowth, Wor!Rest
  <2>2. i.kind # "blocker" /\ work[p].at = "merge"
    BY <1>2 DEF Wor!MergeSkill, Wor!MergeTie, Wor!MergeGrowth, Wor!Turn, Wor!At
  <2>3. Finding(work[p])
    BY <1>1 DEF FindingsOK
  <2>4. Finding(x) /\ x.at # "write" /\ x.todo = work[p].todo \ {i}
    BY <2>3 DEF Finding
  <2>5. work' = [work EXCEPT ![p] = x]
    BY <2>1 DEF Wor!Goes
  <2>6. \A k : Wor!Mention(k) # i
    BY <2>2 DEF Wor!Mention
  <2> HIDE DEF x
  <2>7. QED
    BY <2>1, <2>2, <2>4, <2>5, <2>6, WorkerGoesOn DEF Wor!At
<1>3. ASSUME NEW p \in Workers, Wor!Trigger(p) PROVE CountedInv'
  <2>1. Finding(Wor!Idle) /\ Wor!Idle.at # "write" /\ Wor!Idle.todo = {}
    BY DEF Finding, Wor!Idle
  <2>2. /\ work[p].todo = {} /\ work[p].at = "merge" /\ work' = [work EXCEPT ![p] = Wor!Idle]
        /\ UNCHANGED <<blocker, reported, lost, racing>>
    BY <1>3 DEF Wor!Trigger, Wor!At
  <2>3. QED
    BY <2>1, <2>2, WorkerGoesOn DEF Wor!At
<1>4. CASE UNCHANGED <<blocker, work, reported, lost, racing>>
  <2>1. RowsOfBlockers'
    BY <1>1, <1>4 DEF RowsOfBlockers
  <2>2. \A k : Wor!Writing(k)' = Wor!Writing(k) /\ Wor!Carrying(k)' = Wor!Carrying(k)
    BY <1>4 DEF Wor!Writing, Wor!Carrying, Wor!At, Wor!Mention
  <2>3. CountsKept'
    BY <1>1, <1>4, <2>2, CountsStay
  <2>4. FindingsOK'
    BY <1>1, <1>4 DEF FindingsOK, Finding, FoundOK, Wor!Rows, Wor!Of
  <2>5. OneOpen'
    <3>1. \A k : Claims(k)' = Claims(k)
      BY <1>4, <2>2 DEF Claims, Claim, Opens, Wor!Rows, Wor!Of
    <3>2. QED
      BY <1>1, <1>4, <3>1 DEF OneOpen
  <2>6. QED
    BY <2>1, <2>3, <2>4, <2>5 DEF CountedInv
<1>5. CASE Wor!Decay \/ Wor!Day \/ (\E n \in 1 .. MaxInsights : Wor!Insights(n)) \/ UNCHANGED Wor!vars
  BY <1>4, <1>5 DEF Wor!Decay, Wor!Day, Wor!Insights, Wor!vars
<1>6. QED
  BY <1>2, <1>3, <1>5, CountedReport, CountedMerge, CountedWrite, CountedCrash DEF Wor!Next

\* Every mention of a blocker is counted once, in whichever row, is still on its
\* way, or was dropped by a failed write or a crash, whose errors nobody looks at
\* (extractor.go:275-285); and a blocker has at most one open row more than
\* searches for it failed or overlapped another mention's write.
THEOREM CountedInOneRow == Wor!Spec => []Wor!CountedInOneRow
<1>1. Wor!Init => CountedInv
  BY CountedInit
<1>2. CountedInv /\ [Wor!Next]_Wor!vars => CountedInv'
  BY CountedNext
<1>3. CountedInv => Wor!CountedInOneRow
  BY CountedMeans
<1>4. QED
  BY <1>1, <1>2, <1>3, PTL DEF Wor!Spec

-----------------------------------------------------------------------------
(* Roles: the event bus                                                    *)

CONSTANTS
    Tenants, Boss, RoleIds, EventTypes, BootTypes, Published, Cron, RolePlans, Requests,
    CallFaults, BusFaults, Crashes, MaxActivations, MaxEvents

VARIABLES
    organizations, rows, phase, toLoad, agents, regs, listening, bus, cur, req, ran, owed, events,
    amiss, doubled, activations

Rol == INSTANCE Roles WITH Nil <- None, Plans <- RolePlans, MaxRequests <- MaxActivations,
   org <- organizations, overlapped <- doubled, requests <- activations


RolEvents == [id : Nat, tenant : Tenants, type : Published]

Calls == [id : Nat, at : Nat]

\* Events wait on the bus in the order of their ids, after the one being dispatched,
\* and what has run came before; a handler yet to be called comes after those that ran.
BusOK == events \in Nat /\ bus \in Seq(RolEvents) /\ \A i \in DOMAIN bus : bus[i].id \in 1 .. events
RanOK ==
    /\ ran \in Seq(Calls)
    /\ \A n \in DOMAIN ran : ran[n].id \in 1 .. events
Waiting ==
    /\ \A i, j \in DOMAIN bus : i < j => bus[i].id < bus[j].id
    /\ \A i \in DOMAIN bus, n \in DOMAIN ran : ran[n].id < bus[i].id
CurOK ==
    cur # None =>
        /\ cur = [event |-> cur.event, todo |-> cur.todo]
        /\ cur.event \in RolEvents /\ cur.event.id \in 1 .. events /\ cur.todo \in SUBSET Nat
CurIsNew ==
    cur # None =>
        /\ \A i \in DOMAIN bus : cur.event.id < bus[i].id
        /\ \A n \in DOMAIN ran : ran[n].id < cur.event.id
               \/ (ran[n].id = cur.event.id /\ \A i \in cur.todo : ran[n].at < i)
InOrder == \A m, n \in DOMAIN ran : m < n => Rol!Before(ran[m], ran[n])

\* What is owed has run, or its event will meet the handler, which wants it.
Wants(i, x) == i \in DOMAIN regs /\ regs[i].tenant = x.tenant
WithRun(o) == \E n \in DOMAIN ran : ran[n] = [id |-> o[1], at |-> o[2]]
WithBus(o) == \E n \in DOMAIN bus : bus[n].id = o[1] /\ Wants(o[2], bus[n]) /\ regs[o[2]].on = bus[n].type
WithCur(o) == cur # None /\ cur.event.id = o[1] /\ o[2] \in cur.todo /\ Wants(o[2], cur.event)
Settled(o) == WithRun(o) \/ WithBus(o) \/ WithCur(o)
OwedOK == \A o \in owed : Settled(o)

Delivery == BusOK /\ RanOK /\ Waiting /\ CurOK /\ CurIsNew /\ InOrder /\ OwedOK

LEMMA DeliveryMeans == ASSUME Delivery PROVE Rol!HandledOnce
  BY DEF Delivery, InOrder, OwedOK, Settled, WithRun, WithBus, WithCur, Rol!HandledOnce

\* Registrations are added, and none is changed.
Grown == \A i \in DOMAIN regs : i \in DOMAIN regs' /\ regs'[i] = regs[i]

LEMMA DeliveryStays == ASSUME Delivery, Grown, UNCHANGED <<bus, cur, ran, owed, events>> PROVE Delivery'
<1>1. OwedOK'
  <2>1. \A o \in owed : Settled(o)'
    BY DEF Delivery, OwedOK, Settled, WithRun, WithBus, WithCur, Wants, Grown
  <2>2. QED
    BY <2>1 DEF OwedOK
<1>2. QED
  BY <1>1 DEF Delivery, BusOK, RanOK, Waiting, CurOK, CurIsNew, InOrder, Rol!Before

LEMMA DeliveryCrash == ASSUME Delivery, Rol!Crash PROVE Delivery'
  BY DEF Delivery, BusOK, RanOK, Waiting, CurOK, CurIsNew, InOrder, OwedOK, Rol!Before, Rol!Crash

LEMMA DeliveryPublish ==
    ASSUME Delivery, NEW t \in Tenants, NEW type \in Published, Rol!Publish(t, type) PROVE Delivery'
<1> DEFINE e == [id |-> events', tenant |-> t, type |-> type]
           more == {e.id} \X {i \in Rol!Handlers(type) : Rol!OwnTenant(e, i)}
<1>1. events' = events + 1 /\ events \in Nat /\ events' \in Nat /\ UNCHANGED <<cur, ran, regs>>
  BY DEF Delivery, BusOK, Rol!Publish, Rol!memory
<1>2. e \in RolEvents /\ e.id = events + 1 /\ e.type = type
  BY <1>1 DEF RolEvents
<1>3. (bus' = Append(bus, e) /\ owed' = owed \cup more) \/ (bus' = bus /\ owed' = owed)
  BY DEF Rol!Publish
<1>4. \A o \in more : o[1] = e.id /\ Wants(o[2], e) /\ regs[o[2]].on = type
  BY DEF Rol!Handlers, Rol!OwnTenant, Wants
<1> HIDE DEF e, more
<1>5. CASE bus' = bus /\ owed' = owed
  <2>1. OwedOK'
    BY <1>1, <1>5 DEF Delivery, OwedOK, Settled, WithRun, WithBus, WithCur, Wants
  <2>2. QED
    BY <1>1, <1>5, <2>1 DEF Delivery, BusOK, RanOK, Waiting, CurOK, CurIsNew, InOrder, Rol!Before
<1>6. CASE bus' = Append(bus, e) /\ owed' = owed \cup more
  <2>1. /\ bus' \in Seq(RolEvents) /\ DOMAIN bus' = 1 .. Len(bus) + 1 /\ DOMAIN bus = 1 .. Len(bus) /\ Len(bus) \in Nat
        /\ \A i \in DOMAIN bus : bus'[i] = bus[i]
        /\ bus'[Len(bus) + 1] = e
    BY <1>2, <1>6 DEF Delivery, BusOK
  <2>2. \A i \in DOMAIN bus' : bus'[i].id \in 1 .. events + 1
                               /\ (i \notin DOMAIN bus => i = Len(bus) + 1 /\ bus'[i].id = events + 1)
    BY <2>1, <1>2 DEF Delivery, BusOK
  <2>3. BusOK' /\ RanOK' /\ CurOK'
    BY <2>1, <2>2, <1>1 DEF Delivery, BusOK, RanOK, CurOK
  <2>4. Waiting'
    <3>1. ASSUME NEW i \in DOMAIN bus', NEW j \in DOMAIN bus', i < j
          PROVE  bus'[i].id < bus'[j].id
      <4>1. i \in DOMAIN bus
        BY <2>1, <3>1
      <4>2. bus'[i].id = bus[i].id /\ bus[i].id \in 1 .. events
        BY <2>1, <4>1 DEF Delivery, BusOK
      <4>3. CASE j \in DOMAIN bus
        BY <2>1, <3>1, <4>1, <4>3 DEF Delivery, Waiting
      <4>4. CASE j \notin DOMAIN bus
        BY <1>1, <2>2, <4>2, <4>4
      <4>5. QED
        BY <4>3, <4>4
    <3>2. ASSUME NEW i \in DOMAIN bus', NEW n \in DOMAIN ran
          PROVE  ran[n].id < bus'[i].id
      <4>1. ran[n].id \in 1 .. events
        BY DEF Delivery, RanOK
      <4>2. CASE i \in DOMAIN bus
        BY <2>1, <4>2 DEF Delivery, Waiting
      <4>3. CASE i \notin DOMAIN bus
        BY <1>1, <2>2, <4>1, <4>3
      <4>4. QED
        BY <4>2, <4>3
    <3>3. QED
      BY <1>1, <3>1, <3>2 DEF Waiting
  <2>5. CurIsNew'
    <3>1. ASSUME cur # None, NEW i \in DOMAIN bus' PROVE cur.event.id < bus'[i].id
      <4>1. cur.event.id \in 1 .. events
        BY <3>1 DEF Delivery, CurOK
      <4>2. CASE i \in DOMAIN bus
        BY <2>1, <3>1, <4>2 DEF Delivery, CurIsNew
      <4>3. CASE i \notin DOMAIN bus
        BY <1>1, <2>2, <4>1, <4>3
      <4>4. QED
        BY <4>2, <4>3
    <3>2. QED
      BY <1>1, <3>1 DEF Delivery, CurIsNew
  <2>6. OwedOK'
    <3>1. ASSUME NEW o \in owed PROVE Settled(o)'
      <4>1. Settled(o)
        BY DEF Delivery, OwedOK
      <4>2. WithBus(o) => WithBus(o)'
        BY <1>1, <2>1 DEF WithBus, Wants
      <4>3. QED
        BY <1>1, <4>1, <4>2 DEF Settled, WithRun, WithCur, Wants
    <3>2. ASSUME NEW o \in more PROVE Settled(o)'
      <4>1. Len(bus) + 1 \in DOMAIN bus' /\ bus'[Len(bus) + 1] = e
        BY <2>1
      <4>2. WithBus(o)'
        BY <1>1, <1>2, <1>4, <4>1 DEF WithBus, Wants
      <4>3. QED
        BY <4>2 DEF Settled
    <3>3. QED
      BY <1>6, <3>1, <3>2 DEF OwedOK
  <2>7. InOrder'
    BY <1>1 DEF Delivery, InOrder, Rol!Before
  <2>8. QED
    BY <2>3, <2>4, <2>5, <2>6, <2>7 DEF Delivery
<1>7. QED
  BY <1>3, <1>5, <1>6

Subscribed == regs \in Seq(Rol!Registrations)

LEMMA DeliveryDispatch == ASSUME Delivery, Subscribed, Rol!NilAssumption, Rol!Dispatch PROVE Delivery'
<1> DEFINE todo == Rol!Handlers(Head(bus).type)
<1>1. /\ bus # <<>> /\ bus' = Tail(bus) /\ cur' = [event |-> Head(bus), todo |-> todo]
      /\ cur = None /\ UNCHANGED <<ran, owed, events, regs>>
  BY DEF Rol!Dispatch, Rol!memory
<1>2. todo \in SUBSET Nat
  BY DEF Rol!Handlers, Subscribed
<1>3. \A i \in DOMAIN regs : regs[i].on = Head(bus).type => i \in todo
  BY DEF Rol!Handlers
<1> HIDE DEF todo
<1>4. /\ DOMAIN bus = 1 .. Len(bus) /\ Len(bus) \in Nat \ {0} /\ bus[1] \in RolEvents /\ Head(bus) = bus[1]
      /\ Tail(bus) \in Seq(RolEvents) /\ DOMAIN Tail(bus) = 1 .. Len(bus) - 1
      /\ \A i \in 1 .. Len(bus) - 1 : Tail(bus)[i] = bus[i + 1]
  BY <1>1 DEF Delivery, BusOK
<1>5. cur'.event = bus[1] /\ cur'.todo = todo /\ cur' = [event |-> cur'.event, todo |-> cur'.todo]
  BY <1>1, <1>4
<1>6. bus[1].id \in 1 .. events
  BY <1>4 DEF Delivery, BusOK
<1>7. BusOK' /\ RanOK' /\ CurOK'
  <2>1. BusOK' /\ RanOK'
    BY <1>1, <1>4 DEF Delivery, BusOK, RanOK
  <2>2. CurOK'
    BY <1>1, <1>2, <1>4, <1>5, <1>6 DEF CurOK
  <2>3. QED
    BY <2>1, <2>2
<1>8. \A i \in DOMAIN bus' : i \in Nat /\ i + 1 \in DOMAIN bus /\ 1 < i + 1 /\ bus'[i] = bus[i + 1]
  BY <1>1, <1>4
<1>9. Waiting'
  <2>1. \A i, j \in DOMAIN bus' : i < j => bus'[i].id < bus'[j].id
    <3>1. \A i, j \in DOMAIN bus' : i < j => i + 1 < j + 1
      BY <1>8
    <3>2. QED
      BY <1>8, <3>1 DEF Delivery, Waiting
  <2>2. \A i \in DOMAIN bus', n \in DOMAIN ran' : ran'[n].id < bus'[i].id
    BY <1>8, <1>1 DEF Delivery, Waiting
  <2>3. QED
    BY <2>1, <2>2 DEF Waiting
<1>10. CurIsNew'
  <2>1. 1 \in DOMAIN bus
    BY <1>4
  <2>2. \A i \in DOMAIN bus' : bus[1].id < bus'[i].id
    BY <1>8, <2>1 DEF Delivery, Waiting
  <2>3. \A n \in DOMAIN ran' : ran'[n].id < bus[1].id
    BY <1>1, <2>1 DEF Delivery, Waiting
  <2>4. QED
    BY <1>5, <2>2, <2>3 DEF CurIsNew
<1>11. OwedOK'
  <2>1. ASSUME NEW o \in owed PROVE Settled(o)'
    <3>1. Settled(o)
      BY DEF Delivery, OwedOK
    <3>2. CASE WithRun(o)
      BY <1>1, <3>2 DEF Settled, WithRun
    <3>3. CASE WithBus(o)
      <4>1. PICK n \in DOMAIN bus : bus[n].id = o[1] /\ Wants(o[2], bus[n]) /\ regs[o[2]].on = bus[n].type
        BY <3>3 DEF WithBus
      <4>2. CASE n = 1
        <5>0. cur' \in Rol!Dispatches
          BY <1>1, <1>2, <1>4 DEF Rol!Dispatches, RolEvents
        <5>1. cur' # None
          BY <5>0 DEF Rol!NilAssumption
        <5>2. WithCur(o)'
          BY <1>1, <1>3, <1>4, <1>5, <4>1, <4>2, <5>1 DEF WithCur, Wants
        <5>3. QED
          BY <5>2 DEF Settled
      <4>3. CASE n # 1
        <5>1. n - 1 \in DOMAIN bus' /\ bus'[n - 1] = bus[n]
          BY <1>1, <1>4, <4>3
        <5>2. WithBus(o)'
          BY <1>1, <4>1, <5>1 DEF WithBus, Wants
        <5>3. QED
          BY <5>2 DEF Settled
      <4>4. QED
        BY <4>2, <4>3
    <3>4. QED
      BY <1>1, <3>1, <3>2, <3>3 DEF Settled, WithCur
  <2>2. QED
    BY <1>1, <2>1 DEF OwedOK
<1>12. InOrder'
  BY <1>1 DEF Delivery, InOrder, Rol!Before
<1>13. QED
  BY <1>7, <1>9, <1>10, <1>11, <1>12 DEF Delivery

LEMMA DeliveryHandle == ASSUME Delivery, Rol!NilAssumption, Rol!Handle PROVE Delivery'
<1> DEFINE call(i) == [id |-> cur.event.id, at |-> i]
<1>1. PICK i \in cur.todo :
         /\ cur # None /\ \A j \in cur.todo : i <= j
         /\ ran' = IF Rol!OwnTenant(cur.event, i) THEN Append(ran, call(i)) ELSE ran
         /\ cur' = [cur EXCEPT !.todo = @ \ {i}]
         /\ UNCHANGED <<bus, events, owed, regs>>
  BY DEF Rol!Handle, Rol!memory
<1>2. /\ cur' = [event |-> cur.event, todo |-> cur.todo \ {i}]
      /\ cur'.event = cur.event /\ cur'.todo = cur.todo \ {i} /\ cur' # None
      /\ i \in Nat /\ cur.todo \in SUBSET Nat /\ cur.event.id \in 1 .. events /\ events \in Nat
  <2>1. /\ i \in Nat /\ cur.todo \in SUBSET Nat /\ cur.event \in RolEvents
        /\ cur.event.id \in 1 .. events /\ events \in Nat
    BY <1>1 DEF Delivery, CurOK, BusOK
  <2>2. cur' = [event |-> cur.event, todo |-> cur.todo \ {i}]
    BY <1>1 DEF Delivery, CurOK
  <2>3. QED
    BY <2>1, <2>2 DEF Rol!NilAssumption, Rol!Dispatches, RolEvents
<1>3. BusOK' /\ CurOK'
  BY <1>1, <1>2 DEF Delivery, BusOK, CurOK
<1>4. ASSUME NEW o \in owed, ~(o[2] = i /\ WithCur(o)), \A n \in DOMAIN ran : n \in DOMAIN ran' /\ ran'[n] = ran[n]
      PROVE  Settled(o)'
  <2>1. Settled(o)
    BY DEF Delivery, OwedOK
  <2>2. WithRun(o) => WithRun(o)'
    BY <1>4 DEF WithRun
  <2>3. WithBus(o) => WithBus(o)'
    BY <1>1 DEF WithBus, Wants
  <2>4. WithCur(o) => WithCur(o)'
    BY <1>1, <1>2, <1>4 DEF WithCur, Wants
  <2>5. QED
    BY <2>1, <2>2, <2>3, <2>4 DEF Settled
<1>5. CASE ~ Rol!OwnTenant(cur.event, i)
  <2>1. OwedOK'
    <3>1. \A o \in owed : ~(o[2] = i /\ WithCur(o))
      BY <1>5 DEF WithCur, Wants, Rol!OwnTenant
    <3>2. QED
      BY <1>1, <1>4, <1>5, <3>1 DEF OwedOK
  <2>2. RanOK' /\ Waiting' /\ InOrder'
    BY <1>1, <1>5 DEF Delivery, RanOK, Waiting, InOrder, Rol!Before
  <2>3. CurIsNew'
    BY <1>1, <1>2, <1>5 DEF Delivery, CurIsNew
  <2>4. QED
    BY <1>3, <2>1, <2>2, <2>3 DEF Delivery
<1>6. CASE Rol!OwnTenant(cur.event, i)
  <2>1. call(i) \in Calls /\ call(i).id = cur.event.id /\ call(i).at = i
    BY <1>2 DEF Calls
  <2>2. ran' = Append(ran, call(i))
    BY <1>1, <1>6
  <2> HIDE DEF call
  <2>3. /\ ran' \in Seq(Calls)
        /\ DOMAIN ran = 1 .. Len(ran) /\ DOMAIN ran' = 1 .. Len(ran) + 1 /\ Len(ran) \in Nat
        /\ \A n \in DOMAIN ran : n \in DOMAIN ran' /\ ran'[n] = ran[n]
        /\ ran'[Len(ran) + 1] = call(i)
    BY <2>1, <2>2 DEF Delivery, RanOK
  <2>4. \A n \in DOMAIN ran' : n \in DOMAIN ran \/ n = Len(ran) + 1
    BY <2>3
  <2>5. RanOK'
    BY <1>1, <1>2, <2>1, <2>3, <2>4 DEF Delivery, RanOK
  <2>6. Waiting'
    BY <1>1, <2>1, <2>3, <2>4 DEF Delivery, Waiting, CurIsNew
  <2>7. CurIsNew'
    <3>1. ASSUME NEW n \in DOMAIN ran'
          PROVE  ran'[n].id < cur.event.id
                 \/ (ran'[n].id = cur.event.id /\ \A j \in cur.todo \ {i} : ran'[n].at < j)
      <4>1. CASE n \in DOMAIN ran
        BY <1>1, <2>3, <4>1 DEF Delivery, CurIsNew
      <4>2. CASE n = Len(ran) + 1
        <5>1. \A j \in cur.todo \ {i} : i < j
          BY <1>1, <1>2
        <5>2. QED
          BY <2>1, <2>3, <4>2, <5>1
      <4>3. QED
        BY <2>4, <4>1, <4>2
    <3>2. QED
      BY <1>1, <1>2, <3>1 DEF Delivery, CurIsNew
  <2>8. InOrder'
    <3>1. ASSUME NEW m \in DOMAIN ran', NEW n \in DOMAIN ran', m < n
          PROVE  Rol!Before(ran'[m], ran'[n])
      <4>1. m \in DOMAIN ran
        BY <2>3, <3>1
      <4>2. CASE n \in DOMAIN ran
        BY <2>3, <3>1, <4>1, <4>2 DEF Delivery, InOrder
      <4>3. CASE n = Len(ran) + 1
        <5>1. Rol!Before(ran[m], call(i))
          BY <1>1, <2>1, <4>1 DEF Delivery, CurIsNew, Rol!Before
        <5>2. QED
          BY <2>3, <4>1, <4>3, <5>1
      <4>4. QED
        BY <2>4, <4>2, <4>3
    <3>2. QED
      BY <3>1 DEF InOrder, Rol!Before
  <2>9. OwedOK'
    <3>1. ASSUME NEW o \in owed PROVE Settled(o)'
      <4>1. CASE o[2] = i /\ WithCur(o)
        <5>1. call(i) = [id |-> o[1], at |-> o[2]]
          BY <4>1 DEF WithCur, call
        <5>2. Len(ran) + 1 \in DOMAIN ran'
          BY <2>3
        <5>3. QED
          BY <2>3, <5>1, <5>2 DEF Settled, WithRun
      <4>2. CASE ~(o[2] = i /\ WithCur(o))
        BY <1>4, <2>3, <4>2
      <4>3. QED
        BY <4>1, <4>2
    <3>2. QED
      BY <1>1, <3>1 DEF OwedOK
  <2>10. QED
    BY <1>3, <2>5, <2>6, <2>7, <2>8, <2>9 DEF Delivery
<1>7. QED
  BY <1>5, <1>6

LEMMA DeliveryHandled == ASSUME Delivery, Rol!Handled PROVE Delivery'
<1>1. cur # None /\ cur.todo = {} /\ cur' = None /\ UNCHANGED <<bus, ran, owed, events, regs>>
  BY DEF Rol!Handled, Rol!memory
<1>2. OwedOK'
  <2>1. \A o \in owed : WithRun(o) \/ WithBus(o)
    BY <1>1 DEF Delivery, OwedOK, Settled, WithCur
  <2>2. \A o \in owed : Settled(o)'
    BY <1>1, <2>1 DEF Settled, WithRun, WithBus, Wants
  <2>3. QED
    BY <1>1, <2>2 DEF OwedOK
<1>3. QED
  BY <1>1, <1>2 DEF Delivery, BusOK, RanOK, Waiting, CurOK, CurIsNew, InOrder, Rol!Before

-----------------------------------------------------------------------------
(* Roles: what runs and what is stored                                     *)

PlansOK ==
    /\ organizations = [t \in Tenants |-> organizations[t]]
    /\ \A t \in Tenants : organizations[t] # None => organizations[t].plan \in RolePlans
\* An activation begins with a plan.
HasPlan == \A q \in Requests : req[q].pc = "activate" => organizations[req[q].tenant].plan \in RolePlans
RowsOK == rows \in [Tenants -> [RoleIds -> Rol!Configs \cup {None}]]
ToLoadOK == toLoad \in SUBSET RoleIds /\ \A r \in toLoad : rows[Boss][r] # None
ActivationOK(x) ==
    \/ x = Rol!NoRequest
    \/ x = Rol!At("activate", x.tenant, x.got) /\ x.tenant \in Tenants /\ x.got \in RolePlans
    \/ /\ x = [pc |-> "roles", tenant |-> x.tenant, got |-> x.got, role |-> None, todo |-> x.todo]
       /\ x.tenant \in Tenants /\ x.got \in RolePlans /\ x.todo \in SUBSET Rol!InPlan(x.got)
    \/ /\ x = [pc |-> "register", tenant |-> x.tenant, got |-> x.got, role |-> x.role, todo |-> x.todo]
       /\ x.tenant \in Tenants /\ x.got \in RolePlans /\ x.todo \in SUBSET Rol!InPlan(x.got)
       /\ x.role \in Rol!InPlan(x.got)
ActivationsOK == req = [q \in Requests |-> req[q]] /\ \A q \in Requests : ActivationOK(req[q])

\* Two activations of a tenant at a time are noted; what an activation that ran alone has
\* created and not yet registered is as it was created.
Together ==
    \A p, q \in Requests :
        p # q /\ Rol!Activating(p) /\ Rol!Activating(q) /\ req[p].tenant = req[q].tenant
        => req[p].tenant \in doubled
Created ==
    \A q \in Requests : req[q].pc = "register" =>
        /\ rows[req[q].tenant][req[q].role] # None
        /\ req[q].tenant \notin doubled => rows[req[q].tenant][req[q].role] = req[q].got[req[q].role]

\* The three parts of RunningAsStored, with the types they need.
Backed == \A i \in DOMAIN regs : rows[regs[i].tenant][regs[i].role] # None
Manned ==
    /\ agents = [r \in RoleIds |-> agents[r]]
    /\ \A r \in RoleIds : agents[r] # None => agents[r].tenant \in Tenants /\ rows[agents[r].tenant][r] # None
Excused(t, r) == <<t, r>> \in amiss \/ t \in doubled
Coming(t, r) == \E q \in Requests : req[q].pc = "register" /\ req[q].tenant = t /\ req[q].role = r
AsStored ==
    \A r \in RoleIds : agents[r] # None =>
        \/ Excused(agents[r].tenant, r) \/ Coming(agents[r].tenant, r)
        \/ agents[r].config = rows[agents[r].tenant][r]

\* A row runs, or its configuration is about to be registered, or the start has yet to
\* come to it, or this process will not register it.
Underway(t, r) ==
    \E q \in Requests :
        req[q].pc = "register" /\ req[q].tenant = t /\ req[q].role = r /\ req[q].got[r] = rows[t][r]
Awaited(t, r) == t = Boss /\ (phase = "boot" \/ (phase = "loading" /\ r \in toLoad))
AtHand(t, r) == <<t, r>> \in amiss \/ Underway(t, r) \/ Awaited(t, r) \/ Rol!Runs(t, r)
Loaded ==
    /\ phase # "down" => \A t \in Tenants, r \in RoleIds : rows[t][r] # None => AtHand(t, r)
    /\ phase = "up" => toLoad = {}
    /\ phase # "up" => \A q \in Requests : req[q] = Rol!NoRequest

LEMMA RunningParts ==
    ASSUME Backed, AsStored, Loaded, \A r \in RoleIds : agents[r] # None => rows[agents[r].tenant][r] # None
    PROVE  Rol!RunningAsStored
<1>1. ASSUME phase = "up", NEW t \in Tenants, NEW r \in Rol!Active(t)
      PROVE  <<t, r>> \in amiss \/ Rol!Coming(t, r) \/ Rol!Runs(t, r)
  <2>1. r \in RoleIds /\ rows[t][r] # None
    BY DEF Rol!Active
  <2>2. AtHand(t, r)
    BY <1>1, <2>1 DEF Loaded
  <2>3. ~Awaited(t, r)
    BY <1>1 DEF Awaited
  <2>4. Underway(t, r) => Rol!Coming(t, r)
    BY DEF Underway, Rol!Coming
  <2>5. QED
    BY <2>2, <2>3, <2>4 DEF AtHand
<1>2. \A r \in RoleIds :
         agents[r] # None /\ <<agents[r].tenant, r>> \notin amiss /\ agents[r].tenant \notin doubled =>
             agents[r].config = rows[agents[r].tenant][r] \/ Rol!Coming(agents[r].tenant, r)
  BY DEF AsStored, Excused, Coming, Rol!Coming
<1>3. QED
  BY <1>1, <1>2 DEF Rol!RunningAsStored, Backed

LEMMA PlanFacts ==
    ASSUME Rol!PlansAssumption, NEW p \in RolePlans
    PROVE  Rol!InPlan(p) \in SUBSET RoleIds /\ \A r \in RoleIds : p[r] \in Rol!Configs /\ p[r] # None
  BY DEF Rol!PlansAssumption, Rol!InPlan

RolesInv ==
    PlansOK /\ HasPlan /\ RowsOK /\ ToLoadOK /\ ActivationsOK /\ Together /\ Created /\ Subscribed /\ Backed /\ Manned /\ AsStored

\* The actions that leave rows, activations, agents and registrations alone.
LEMMA RolesElsewhere ==
    ASSUME RolesInv, PlansOK', HasPlan', ToLoadOK', amiss \subseteq amiss',
           UNCHANGED <<rows, req, agents, regs, doubled>>
    PROVE  RolesInv'
  BY DEF RolesInv, RowsOK, ActivationsOK, Together, Rol!Activating, Created, Subscribed, Backed, Manned, AsStored, Excused, Coming

LEMMA RegistersBacked ==
    ASSUME Subscribed, Backed, NEW t \in Tenants, NEW r \in RoleIds, NEW options \in Rol!Configs,
           rows[t][r] # None, rows' = rows, Rol!RegisterAgent(t, r, options)
    PROVE  /\ Subscribed' /\ Backed' /\ Grown
           /\ \A k \in DOMAIN options : \E i \in DOMAIN regs' :
                 regs'[i] = [tenant |-> t, role |-> r, on |-> options[k]]
<1> DEFINE more == Rol!Capabilities(t, r, options)
<1>1. /\ more \in Seq(Rol!Registrations)
      /\ \A i \in DOMAIN more : more[i].tenant = t /\ more[i].role = r
      /\ DOMAIN more = DOMAIN options
      /\ \A k \in DOMAIN options : more[k] = [tenant |-> t, role |-> r, on |-> options[k]]
  <2>1. options \in Seq(Rol!Triggers)
    BY DEF Rol!Configs
  <2>2. DOMAIN options = 1 .. Len(options) /\ Len(options) \in Nat /\ \A i \in DOMAIN options : options[i] \in Rol!Triggers
    BY <2>1
  <2>3. more = [i \in 1 .. Len(options) |-> [tenant |-> t, role |-> r, on |-> options[i]]]
    BY <2>2 DEF Rol!Capabilities
  <2>4. \A i \in 1 .. Len(options) : [tenant |-> t, role |-> r, on |-> options[i]] \in Rol!Registrations
    BY <2>2 DEF Rol!Registrations
  <2>5. QED
    BY <2>2, <2>3, <2>4
<1>2. regs' = regs \o more
  BY DEF Rol!RegisterAgent
<1> HIDE DEF more
<1>3. /\ regs' \in Seq(Rol!Registrations)
      /\ \A i \in DOMAIN regs' : (regs'[i] = regs[i] /\ i \in DOMAIN regs) \/ \E j \in DOMAIN more : regs'[i] = more[j]
      /\ \A i \in DOMAIN regs : i \in DOMAIN regs' /\ regs'[i] = regs[i]
      /\ \A k \in DOMAIN more : Len(regs) + k \in DOMAIN regs' /\ regs'[Len(regs) + k] = more[k]
  BY <1>1, <1>2 DEF Subscribed
<1>4. Subscribed' /\ Backed' /\ Grown
  BY <1>1, <1>3 DEF Subscribed, Backed, Grown
<1>5. \A k \in DOMAIN options : \E i \in DOMAIN regs' :
         regs'[i] = [tenant |-> t, role |-> r, on |-> options[k]]
  BY <1>1, <1>3
<1>6. QED
  BY <1>4, <1>5

\* An agent that is registered, or fails to be, and a request that has come to it.
LEMMA RegistersAsStored ==
    ASSUME RolesInv, NEW t \in Tenants, NEW r \in RoleIds, NEW options,
           rows[t][r] # None, rows' = rows, doubled' = doubled,
           t \notin doubled => options = rows[t][r],
           \A s \in Tenants, o \in RoleIds : <<s, o>> # <<t, r>> /\ Coming(s, o) => Coming(s, o)',
           Rol!RegisterAgent(t, r, options) \/ Rol!NotRegistered(t, r)
    PROVE  Manned' /\ AsStored'
<1>1. CASE Rol!RegisterAgent(t, r, options)
  <2>1. /\ agents' = [o \in RoleIds |-> IF o = r THEN [tenant |-> t, config |-> options] ELSE agents[o]]
        /\ \A s, o : <<s, o>> # <<t, r>> /\ <<s, o>> \in amiss => <<s, o>> \in amiss'
    BY <1>1 DEF Rol!RegisterAgent, RolesInv, Manned
  <2>2. Manned'
    BY <2>1 DEF RolesInv, Manned
  <2>3. ASSUME NEW o \in RoleIds, agents'[o] # None
        PROVE  (Excused(agents[o].tenant, o) \/ Coming(agents[o].tenant, o) \/ agents[o].config = rows[agents[o].tenant][o])'
    <3>1. CASE o = r
      BY <2>1, <3>1 DEF Excused
    <3>2. CASE o # r
      <4>1. agents'[o] = agents[o] /\ agents[o].tenant \in Tenants
        BY <2>1, <2>3, <3>2 DEF RolesInv, Manned
      <4>2. Excused(agents[o].tenant, o) \/ Coming(agents[o].tenant, o) \/ agents[o].config = rows[agents[o].tenant][o]
        BY <4>1, <2>3 DEF RolesInv, AsStored
      <4>3. Excused(agents[o].tenant, o) => Excused(agents[o].tenant, o)'
        BY <4>1, <2>1, <3>2 DEF Excused
      <4>4. Coming(agents[o].tenant, o) => Coming(agents[o].tenant, o)'
        BY <4>1, <3>2 DEF Coming
      <4>5. QED
        BY <4>1, <4>2, <4>3, <4>4
    <3>3. QED
      BY <3>1, <3>2
  <2>4. QED
    BY <2>2, <2>3 DEF AsStored
<1>2. CASE Rol!NotRegistered(t, r)
  <2>1. agents' = agents /\ amiss' = amiss \cup {<<t, r>>}
    BY <1>2 DEF Rol!NotRegistered, Rol!memory
  <2>2. Manned'
    BY <2>1 DEF RolesInv, Manned
  <2>3. ASSUME NEW o \in RoleIds, agents[o] # None
        PROVE  (Excused(agents[o].tenant, o) \/ Coming(agents[o].tenant, o) \/ agents[o].config = rows[agents[o].tenant][o])'
    BY <2>1, <2>3 DEF RolesInv, Manned, AsStored, Excused, Coming
  <2>4. QED
    BY <2>1, <2>2, <2>3 DEF AsStored
<1>3. QED
  BY <1>1, <1>2

LEMMA RolesInit == ASSUME Rol!Init PROVE RolesInv /\ Delivery
<1>1. RolesInv
  BY DEF Rol!Init, RolesInv, PlansOK, HasPlan, RowsOK, ToLoadOK, ActivationsOK, ActivationOK, Together, Rol!Activating, Created,
         Subscribed, Backed, Manned, AsStored, Rol!Org, Rol!NoRequest, Rol!At
<1>2. Delivery
  BY DEF Rol!Init, Delivery, BusOK, RanOK, Waiting, CurOK, CurIsNew, InOrder, OwedOK
<1>3. QED
  BY <1>1, <1>2

LEMMA RolesCrash == ASSUME RolesInv, Rol!Crash PROVE RolesInv'
<1>1. PlansOK' /\ RowsOK' /\ ToLoadOK' /\ Subscribed'
  BY DEF RolesInv, Rol!Crash, PlansOK, RowsOK, ToLoadOK, Subscribed
<1>2. ActivationsOK' /\ HasPlan' /\ Together' /\ Created'
  BY DEF RolesInv, HasPlan, Rol!Crash, ActivationsOK, ActivationOK, Together, Created, Rol!Activating, Rol!NoRequest, Rol!At
<1>3. Backed' /\ Manned' /\ AsStored'
  BY DEF RolesInv, Rol!Crash, Backed, Manned, AsStored
<1>4. QED
  BY <1>1, <1>2, <1>3 DEF RolesInv

LEMMA RolesLoadRead == ASSUME RolesInv, Rol!LoadRead PROVE RolesInv'
<1>1. /\ UNCHANGED <<organizations, rows, agents, regs, req, doubled>>
      /\ amiss \subseteq amiss' /\ toLoad' \in {{}, Rol!Active(Boss)}
  BY DEF Rol!LoadRead, Rol!memory, Rol!tally
<1>2. PlansOK' /\ RowsOK' /\ ToLoadOK' /\ Subscribed'
  BY <1>1 DEF RolesInv, PlansOK, RowsOK, ToLoadOK, Subscribed, Rol!Active
<1>3. ActivationsOK' /\ HasPlan' /\ Together' /\ Created'
  BY <1>1 DEF RolesInv, HasPlan, ActivationsOK, ActivationOK, Together, Created, Rol!Activating
<1>4. Backed' /\ Manned' /\ AsStored'
  BY <1>1 DEF RolesInv, Backed, Manned, AsStored, Excused, Coming
<1>5. QED
  BY <1>2, <1>3, <1>4 DEF RolesInv

LEMMA RolesLoadOne == ASSUME RolesInv, Rol!BossAssumption, Rol!LoadOne PROVE RolesInv'
<1>1. PICK r \in toLoad :
         /\ Rol!RegisterAgent(Boss, r, rows[Boss][r]) \/ Rol!NotRegistered(Boss, r)
         /\ toLoad' = toLoad \ {r}
  BY DEF Rol!LoadOne
<1>2. UNCHANGED <<organizations, rows, req, doubled>>
  BY DEF Rol!LoadOne, Rol!tally
<1>3. r \in RoleIds /\ rows[Boss][r] # None /\ rows[Boss][r] \in Rol!Configs /\ Boss \in Tenants
  BY DEF RolesInv, ToLoadOK, RowsOK, Rol!BossAssumption
<1>4. Manned' /\ AsStored'
  <2>1. \A s \in Tenants, o \in RoleIds : Coming(s, o) => Coming(s, o)'
    BY <1>2 DEF Coming
  <2>2. QED
    BY <1>1, <1>2, <1>3, <2>1, RegistersAsStored
<1>5. Subscribed' /\ Backed'
  <2>1. CASE Rol!RegisterAgent(Boss, r, rows[Boss][r])
    BY <1>2, <1>3, <2>1, RegistersBacked DEF RolesInv
  <2>2. CASE Rol!NotRegistered(Boss, r)
    BY <1>2, <2>2 DEF RolesInv, Subscribed, Backed, Rol!NotRegistered, Rol!memory
  <2>3. QED
    BY <1>1, <2>1, <2>2
<1>6. PlansOK' /\ RowsOK' /\ ToLoadOK'
  BY <1>1, <1>2 DEF RolesInv, PlansOK, RowsOK, ToLoadOK
<1>7. ActivationsOK' /\ HasPlan' /\ Together' /\ Created'
  BY <1>2 DEF RolesInv, HasPlan, ActivationsOK, ActivationOK, Together, Created, Rol!Activating
<1>8. QED
  BY <1>4, <1>5, <1>6, <1>7 DEF RolesInv

\* The plan of a tenant is set or changed: the rows and the process are as before.
LEMMA RolesPlan == ASSUME RolesInv, NEW t \in Tenants, Rol!SetupOrg(t) \/ Rol!UpdatePlan(t) PROVE RolesInv'
<1>1. PICK p \in RolePlans, status \in {"draft", organizations[t].status} : organizations' = [organizations EXCEPT ![t] = Rol!Org(p, status)]
  BY DEF Rol!SetupOrg, Rol!UpdatePlan
<1>2. UNCHANGED <<rows, req, agents, regs, amiss, doubled, toLoad>>
  BY DEF Rol!SetupOrg, Rol!UpdatePlan, Rol!memory, Rol!start
<1>3. PlansOK' /\ HasPlan'
  BY <1>1, <1>2 DEF RolesInv, PlansOK, HasPlan, ActivationsOK, ActivationOK, Rol!NoRequest, Rol!At, Rol!Org
<1>4. ToLoadOK'
  BY <1>2 DEF RolesInv, ToLoadOK
<1>5. QED
  BY <1>2, <1>3, <1>4, RolesElsewhere

\* A goroutine goes on; the other ones stay where they are.
LEMMA ActivationMoves ==
    ASSUME ActivationsOK, NEW q \in Requests, NEW x, req' = [req EXCEPT ![q] = x], ActivationOK(x)
    PROVE  ActivationsOK' /\ req'[q] = x /\ \A p \in Requests : p # q => req'[p] = req[p]
  BY DEF ActivationsOK

\* It begins an activation, or ends, and is not among those under way.
LEMMA RolesAway ==
    ASSUME RolesInv, NEW q \in Requests, NEW x, req' = [req EXCEPT ![q] = x], ActivationOK(x),
           req[q].pc # "register", x.pc \in {"idle", "activate"},
           x.pc = "activate" => organizations[x.tenant].plan \in RolePlans,
           UNCHANGED <<organizations, rows, toLoad, agents, regs, amiss, doubled>>
    PROVE  RolesInv'
<1>1. ActivationsOK' /\ req'[q] = x /\ \A p \in Requests : p # q => req'[p] = req[p]
  BY ActivationMoves DEF RolesInv
<1>2. PlansOK' /\ RowsOK' /\ ToLoadOK' /\ Subscribed' /\ Backed' /\ Manned'
  BY DEF RolesInv, PlansOK, RowsOK, ToLoadOK, Subscribed, Backed, Manned
<1>3. Together' /\ Created' /\ HasPlan'
  BY <1>1 DEF RolesInv, Together, Created, HasPlan, Rol!Activating
<1>4. AsStored'
  BY <1>1 DEF RolesInv, AsStored, Excused, Coming
<1>5. QED
  BY <1>1, <1>2, <1>3, <1>4 DEF RolesInv

LEMMA RolesReadToActivate ==
    ASSUME RolesInv, NEW q \in Requests, NEW t \in Tenants, Rol!ReadToActivate(q, t) PROVE RolesInv'
<1> DEFINE x == Rol!At("activate", t, organizations[t].plan)
<1>1. ActivationOK(x) /\ x.pc = "activate" /\ organizations[x.tenant].plan \in RolePlans
  BY DEF RolesInv, PlansOK, Rol!ReadToActivate, Rol!At, ActivationOK
<1>2. /\ req' = [req EXCEPT ![q] = x] /\ req[q].pc # "register"
      /\ UNCHANGED <<organizations, rows, toLoad, agents, regs, amiss, doubled>>
  BY DEF Rol!ReadToActivate, Rol!start, Rol!memory
<1> HIDE DEF x
<1>3. QED
  BY <1>1, <1>2, RolesAway

LEMMA RolesEnd ==
    ASSUME RolesInv, NEW q \in Requests, Rol!EndActivate(q) \/ Rol!Fail(q) PROVE RolesInv'
<1>1. ActivationOK(Rol!NoRequest) /\ Rol!NoRequest.pc = "idle"
  BY DEF ActivationOK, Rol!NoRequest, Rol!At
<1>2. /\ req' = [req EXCEPT ![q] = Rol!NoRequest] /\ req[q].pc # "register"
      /\ UNCHANGED <<organizations, rows, toLoad, agents, regs, amiss, doubled>>
  BY DEF Rol!EndActivate, Rol!Fail, Rol!End, Rol!start, Rol!memory, Rol!tally
<1>3. QED
  BY <1>1, <1>2, RolesAway

LEMMA RolesSetActive == ASSUME RolesInv, NEW q \in Requests, Rol!SetActive(q) PROVE RolesInv'
<1> DEFINE t == req[q].tenant
           x == [pc |-> "roles", tenant |-> t, got |-> req[q].got, role |-> None, todo |-> Rol!InPlan(req[q].got)]
<1>1. req[q] = Rol!At("activate", t, req[q].got) /\ t \in Tenants /\ req[q].got \in RolePlans /\ req[q].pc = "activate"
  BY DEF RolesInv, ActivationsOK, ActivationOK, Rol!SetActive, Rol!NoRequest, Rol!At
<1>3. /\ req' = [req EXCEPT ![q] = x]
      /\ organizations' = [organizations EXCEPT ![t] = Rol!Org(organizations[t].plan, "active")]
      /\ doubled' = doubled \cup {u \in {t} : \E p \in Requests \ {q} : Rol!Activating(p) /\ req[p].tenant = u}
      /\ UNCHANGED <<rows, toLoad, agents, regs, amiss>>
  BY DEF Rol!SetActive, Rol!Goes, Rol!start, Rol!memory
<1>4. organizations[t].plan \in RolePlans
  BY <1>1 DEF RolesInv, HasPlan
<1>5. ActivationOK(x) /\ x.pc = "roles" /\ x.tenant = t
  BY <1>1 DEF ActivationOK
<1> HIDE DEF x
<1>6. ActivationsOK' /\ req'[q] = x /\ \A p \in Requests : p # q => req'[p] = req[p]
  BY <1>3, <1>5, ActivationMoves DEF RolesInv
<1>7. PlansOK' /\ HasPlan'
  BY <1>1, <1>3, <1>4, <1>5, <1>6 DEF RolesInv, PlansOK, HasPlan, ActivationsOK, Rol!Org
<1>8. RowsOK' /\ ToLoadOK' /\ Subscribed' /\ Backed' /\ Manned'
  BY <1>3 DEF RolesInv, RowsOK, ToLoadOK, Subscribed, Backed, Manned
<1>9. Together'
  <2>1. \A p \in Requests : p # q => (Rol!Activating(p)' <=> Rol!Activating(p)) /\ req'[p].tenant = req[p].tenant
    BY <1>6 DEF Rol!Activating
  <2>2. \A p \in Requests : p # q /\ Rol!Activating(p) /\ req[p].tenant = t => t \in doubled'
    BY <1>3
  <2>3. doubled \subseteq doubled' /\ req'[q].tenant = t
    BY <1>3, <1>5, <1>6
  <2>4. QED
    BY <2>1, <2>2, <2>3 DEF RolesInv, Together
<1>10. Created'
  BY <1>3, <1>5, <1>6 DEF RolesInv, Created
<1>11. AsStored'
  <2>1. doubled \subseteq doubled'
    BY <1>3
  <2>2. \A s, o : Coming(s, o) => Coming(s, o)'
    BY <1>1, <1>6 DEF Coming
  <2>3. \A s, o : Excused(s, o) => Excused(s, o)'
    BY <1>3, <2>1 DEF Excused
  <2>4. QED
    BY <1>3, <2>2, <2>3 DEF RolesInv, AsStored
<1>12. QED
  BY <1>6, <1>7, <1>8, <1>9, <1>10, <1>11 DEF RolesInv

LEMMA RolesCreateRole ==
    ASSUME RolesInv, Rol!PlansAssumption, Rol!BossAssumption, NEW q \in Requests, NEW r \in RoleIds, Rol!CreateRole(q, r)
    PROVE  RolesInv'
<1> DEFINE t == req[q].tenant
           x == [pc |-> "register", tenant |-> t, got |-> req[q].got, role |-> r, todo |-> req[q].todo \ {r}]
           y == [pc |-> "roles", tenant |-> t, got |-> req[q].got, role |-> None, todo |-> req[q].todo \ {r}]
<1>1. /\ req[q] = [pc |-> "roles", tenant |-> t, got |-> req[q].got, role |-> None, todo |-> req[q].todo]
      /\ t \in Tenants /\ req[q].got \in RolePlans /\ req[q].todo \in SUBSET Rol!InPlan(req[q].got)
      /\ r \in req[q].todo /\ req[q].pc = "roles"
  BY DEF RolesInv, ActivationsOK, ActivationOK, Rol!CreateRole, Rol!NoRequest, Rol!At
<1>2. UNCHANGED <<organizations, toLoad, agents, regs, amiss, doubled>>
  BY DEF Rol!CreateRole, Rol!start, Rol!memory, Rol!tally
<1>3. ActivationOK(x) /\ ActivationOK(y)
  BY <1>1 DEF ActivationOK
<1>4. CASE req' = [req EXCEPT ![q] = y] /\ rows' = rows
  <2> HIDE DEF y
  <2>1. y.pc = "roles" /\ y.tenant = t
    BY DEF y
  <2>2. ActivationsOK' /\ req'[q] = y /\ \A p \in Requests : p # q => req'[p] = req[p]
    BY <1>3, <1>4, ActivationMoves DEF RolesInv
  <2>3. PlansOK' /\ HasPlan' /\ RowsOK' /\ ToLoadOK' /\ Subscribed' /\ Backed' /\ Manned'
    BY <1>2, <1>4, <2>1, <2>2 DEF RolesInv, PlansOK, HasPlan, RowsOK, ToLoadOK, Subscribed, Backed, Manned
  <2>4. Together' /\ Created'
    BY <1>1, <1>2, <1>4, <2>1, <2>2 DEF RolesInv, Together, Created, Rol!Activating
  <2>5. AsStored'
    BY <1>1, <1>2, <1>4, <2>1, <2>2 DEF RolesInv, AsStored, Excused, Coming
  <2>6. QED
    BY <2>2, <2>3, <2>4, <2>5 DEF RolesInv
<1>5. CASE req' = [req EXCEPT ![q] = x] /\ rows' = [rows EXCEPT ![t][r] = req[q].got[r]]
  <2> HIDE DEF x
  <2>1. x.pc = "register" /\ x.tenant = t /\ x.role = r /\ x.got = req[q].got
    BY DEF x
  <2>2. ActivationsOK' /\ req'[q] = x /\ \A p \in Requests : p # q => req'[p] = req[p]
    BY <1>3, <1>5, ActivationMoves DEF RolesInv
  <2>3. req[q].got[r] \in Rol!Configs /\ req[q].got[r] # None
    BY <1>1, PlanFacts
  <2>4. /\ RowsOK' /\ rows'[t][r] = req[q].got[r]
        /\ \A s \in Tenants, o \in RoleIds : <<s, o>> # <<t, r>> => rows'[s][o] = rows[s][o]
    BY <1>1, <1>5, <2>3 DEF RolesInv, RowsOK
  <2>5. \A s \in Tenants, o \in RoleIds : rows[s][o] # None => rows'[s][o] # None
    BY <2>3, <2>4
  <2>6. PlansOK' /\ HasPlan' /\ Subscribed'
    BY <1>2, <2>1, <2>2 DEF RolesInv, PlansOK, HasPlan, Subscribed
  <2>7. Backed'
    <3>1. \A i \in DOMAIN regs : regs[i].tenant \in Tenants /\ regs[i].role \in RoleIds
      <4>1. \A i \in DOMAIN regs : regs[i] \in Rol!Registrations
        BY DEF RolesInv, Subscribed
      <4>2. \A z \in Rol!Registrations : z.tenant \in Tenants /\ z.role \in RoleIds
        BY DEF Rol!Registrations
      <4>3. QED
        BY <4>1, <4>2
    <3>2. QED
      BY <1>2, <2>5, <3>1 DEF RolesInv, Backed
  <2>8. Manned'
    BY <1>2, <2>5 DEF RolesInv, Manned
  <2>9. Together'
    BY <1>1, <1>2, <2>1, <2>2 DEF RolesInv, Together, Rol!Activating
  <2>10. Created'
    <3>1. \A p \in Requests : p # q /\ req[p].pc = "register" /\ req[p].tenant = t => t \in doubled
      BY <1>1 DEF RolesInv, Together, Rol!Activating
    <3>2. \A p \in Requests : p # q /\ req[p].pc = "register" => req[p].tenant \in Tenants /\ req[p].role \in RoleIds
      BY DEF RolesInv, ActivationsOK, ActivationOK, Rol!NoRequest, Rol!At, Rol!InPlan
    <3>3. ASSUME NEW p \in Requests, p # q, req'[p].pc = "register"
          PROVE  /\ rows'[req'[p].tenant][req'[p].role] # None
                 /\ req'[p].tenant \notin doubled' => rows'[req'[p].tenant][req'[p].role] = req'[p].got[req'[p].role]
      BY <1>2, <2>2, <2>4, <2>5, <3>1, <3>2, <3>3 DEF RolesInv, Created
    <3>4. QED
      BY <2>1, <2>2, <2>3, <2>4, <3>3 DEF Created
  <2>11. AsStored'
    <3>1. ASSUME NEW o \in RoleIds, agents[o] # None
          PROVE  (Excused(agents[o].tenant, o) \/ Coming(agents[o].tenant, o) \/ agents[o].config = rows[agents[o].tenant][o])'
      <4>1. agents[o].tenant \in Tenants
        BY <3>1 DEF RolesInv, Manned
      <4>2. CASE agents[o].tenant = t /\ o = r
        BY <1>2, <4>2, <2>1, <2>2 DEF Coming
      <4>3. CASE ~(agents[o].tenant = t /\ o = r)
        <5>1. Coming(agents[o].tenant, o) => Coming(agents[o].tenant, o)'
          BY <1>1, <1>2, <2>2 DEF Coming
        <5>2. Excused(agents[o].tenant, o) => Excused(agents[o].tenant, o)'
          BY <1>2 DEF Excused
        <5>3. rows'[agents[o].tenant][o] = rows[agents[o].tenant][o]
          BY <2>4, <4>1, <4>3
        <5>4. QED
          BY <1>2, <3>1, <5>1, <5>2, <5>3 DEF RolesInv, AsStored
      <4>4. QED
        BY <4>2, <4>3
    <3>2. QED
      BY <1>2, <3>1 DEF AsStored
  <2>12. ToLoadOK'
    BY <1>2, <2>5 DEF RolesInv, ToLoadOK, Rol!BossAssumption
  <2>13. QED
    BY <2>2, <2>4, <2>6, <2>7, <2>8, <2>9, <2>10, <2>11, <2>12 DEF RolesInv
<1>6. QED
  BY <1>4, <1>5 DEF Rol!CreateRole, Rol!Goes

LEMMA RolesRegister ==
    ASSUME RolesInv, Rol!PlansAssumption, NEW q \in Requests, Rol!Register(q) PROVE RolesInv'
<1> DEFINE t == req[q].tenant
           r == req[q].role
           x == [pc |-> "roles", tenant |-> t, got |-> req[q].got, role |-> None, todo |-> req[q].todo]
<1>1. /\ t \in Tenants /\ req[q].got \in RolePlans /\ req[q].todo \in SUBSET Rol!InPlan(req[q].got)
      /\ r \in Rol!InPlan(req[q].got) /\ req[q].pc = "register"
  BY DEF RolesInv, ActivationsOK, ActivationOK, Rol!Register, Rol!NoRequest, Rol!At
<1>2. /\ UNCHANGED <<organizations, rows, toLoad, doubled>>
      /\ req' = [req EXCEPT ![q] = x]
      /\ Rol!RegisterAgent(t, r, req[q].got[r]) \/ Rol!NotRegistered(t, r)
  BY DEF Rol!Register, Rol!Goes, Rol!start, Rol!tally
<1>3. ActivationOK(x) /\ x.pc = "roles" /\ x.tenant = t
  BY <1>1 DEF ActivationOK
<1> HIDE DEF x
<1>4. ActivationsOK' /\ req'[q] = x /\ \A p \in Requests : p # q => req'[p] = req[p]
  BY <1>2, <1>3, ActivationMoves DEF RolesInv
<1>5. /\ r \in RoleIds /\ req[q].got[r] \in Rol!Configs
      /\ rows[t][r] # None /\ t \notin doubled => req[q].got[r] = rows[t][r]
  BY <1>1, PlanFacts DEF RolesInv, Created
<1>6. rows[t][r] # None
  BY <1>1 DEF RolesInv, Created
<1>7. Manned' /\ AsStored'
  <2>1. \A s \in Tenants, o \in RoleIds : <<s, o>> # <<t, r>> /\ Coming(s, o) => Coming(s, o)'
    BY <1>4 DEF Coming
  <2>2. QED
    BY <1>1, <1>2, <1>5, <1>6, <2>1, RegistersAsStored
<1>8. Subscribed' /\ Backed'
  <2>1. CASE Rol!RegisterAgent(t, r, req[q].got[r])
    BY <1>1, <1>2, <1>5, <1>6, <2>1, RegistersBacked DEF RolesInv
  <2>2. CASE Rol!NotRegistered(t, r)
    BY <1>2, <2>2 DEF RolesInv, Subscribed, Backed, Rol!NotRegistered, Rol!memory
  <2>3. QED
    BY <1>2, <2>1, <2>2
<1>9. PlansOK' /\ HasPlan' /\ RowsOK' /\ ToLoadOK'
  BY <1>2, <1>3, <1>4 DEF RolesInv, PlansOK, HasPlan, RowsOK, ToLoadOK
<1>10. Together' /\ Created'
  BY <1>1, <1>2, <1>3, <1>4 DEF RolesInv, Together, Created, Rol!Activating
<1>11. QED
  BY <1>4, <1>7, <1>8, <1>9, <1>10 DEF RolesInv

RolesBase == Rol!PlansAssumption /\ Rol!BossAssumption /\ Rol!NilAssumption

LEMMA RolesStep == ASSUME RolesBase, RolesInv, [Rol!Next]_Rol!vars PROVE RolesInv'
<1>1. CASE UNCHANGED Rol!vars
  BY <1>1, RolesElsewhere DEF RolesInv, PlansOK, HasPlan, ToLoadOK, Rol!vars
<1>0. CASE Rol!Boot
  BY <1>0, RolesElsewhere DEF RolesInv, PlansOK, HasPlan, ToLoadOK, Rol!Boot, Rol!memory, Rol!tally
<1>2. ASSUME Rol!Serve \/ Rol!Listen \/ Rol!Dispatch \/ Rol!Handle \/ Rol!Handled
             \/ \E t \in Tenants, type \in Published : Rol!Publish(t, type)
      PROVE  RolesInv'
  <2>1. UNCHANGED <<organizations, rows, req, agents, regs, amiss, doubled, toLoad>>
    BY <1>2 DEF Rol!Serve, Rol!Listen, Rol!Dispatch, Rol!Handle, Rol!Handled, Rol!Publish,
                Rol!memory, Rol!start, Rol!tally
  <2>2. QED
    BY <2>1, RolesElsewhere DEF RolesInv, PlansOK, HasPlan, ToLoadOK
<1>3. ASSUME NEW q \in Requests, Rol!RequestStep(q) PROVE RolesInv'
  BY <1>3, RolesReadToActivate, RolesSetActive, RolesCreateRole, RolesRegister, RolesEnd DEF Rol!RequestStep, RolesBase
<1>4. QED
  BY <1>0, <1>1, <1>2, <1>3, RolesLoadRead, RolesLoadOne, RolesCrash, RolesPlan DEF Rol!Next, RolesBase

\* What ran still runs when registrations are added.
LEMMA RunsOn ==
    ASSUME NEW t, NEW r, Rol!Runs(t, r), Grown, rows'[t][r] = rows[t][r], agents'[r] # None
    PROVE  Rol!Runs(t, r)'
<1>1. ASSUME NEW k \in DOMAIN rows[t][r]
      PROVE  \E i \in DOMAIN regs' : regs'[i] = [tenant |-> t, role |-> r, on |-> rows[t][r][k]]
  <2>1. PICK i \in DOMAIN regs : regs[i] = [tenant |-> t, role |-> r, on |-> rows[t][r][k]]
    BY DEF Rol!Runs
  <2>2. i \in DOMAIN regs' /\ regs'[i] = regs[i]
    BY DEF Grown
  <2>3. QED
    BY <2>1, <2>2
<1>2. QED
  BY <1>1 DEF Rol!Runs

LEMMA GrownAgain == ASSUME UNCHANGED regs PROVE Grown
  BY DEF Grown

\* Steps that register nothing; a request that moves was not about to register.
LEMMA LoadedAside ==
    ASSUME Loaded, NEW t \in Tenants, NEW r \in RoleIds, phase # "down", rows[t][r] # None,
           rows'[t][r] = rows[t][r], amiss \subseteq amiss', UNCHANGED <<agents, regs>>,
           Awaited(t, r) => Awaited(t, r)' \/ <<t, r>> \in amiss',
           \A q \in Requests : req[q].pc = "register" => req'[q] = req[q]
    PROVE  AtHand(t, r)'
<1>1. AtHand(t, r)
  BY DEF Loaded
<1>2. Underway(t, r) => Underway(t, r)'
  BY DEF Underway
<1>3. Rol!Runs(t, r) => Rol!Runs(t, r)'
  <2>1. Rol!Runs(t, r) => agents'[r] # None
    BY DEF Rol!Runs
  <2>2. QED
    BY <2>1, GrownAgain, RunsOn
<1>4. QED
  BY <1>1, <1>2, <1>3 DEF AtHand

\* A role is registered as it is stored, or as it was, or its registration fails.
LEMMA LoadedRegister ==
    ASSUME RolesBase, RolesInv, Loaded, phase # "down", NEW t \in Tenants, NEW r \in RoleIds, NEW options \in Rol!Configs,
           rows[t][r] # None, rows' = rows, phase' = phase,
           Rol!RegisterAgent(t, r, options) \/ Rol!NotRegistered(t, r),
           Awaited(t, r) => options = rows[t][r],
           \A s \in Tenants, o \in RoleIds : <<s, o>> # <<t, r>> /\ Awaited(s, o) => Awaited(s, o)',
           \A q \in Requests : req[q].pc = "register" /\ req'[q] # req[q] =>
               req[q].tenant = t /\ req[q].role = r /\ req[q].got[r] = options,
           NEW s \in Tenants, NEW o \in RoleIds, rows[s][o] # None
    PROVE  AtHand(s, o)'
<1>1. AtHand(s, o)
  BY DEF Loaded
<1>2. /\ Grown
      /\ agents[o] # None => agents'[o] # None
      /\ Rol!RegisterAgent(t, r, options) => agents'[r] # None
      /\ \A k, m : <<k, m>> # <<t, r>> /\ <<k, m>> \in amiss => <<k, m>> \in amiss'
      /\ options # rows[t][r] => amiss \subseteq amiss'
      /\ Rol!NotRegistered(t, r) => <<t, r>> \in amiss'
  <2>1. CASE Rol!RegisterAgent(t, r, options)
    <3>1. Grown
      BY <2>1, RegistersBacked DEF RolesInv
    <3>2. /\ agents' = [agents EXCEPT ![r] = [tenant |-> t, config |-> options]]
          /\ amiss' = IF options = rows[t][r] THEN amiss \ {<<t, r>>} ELSE amiss
      BY <2>1 DEF Rol!RegisterAgent
    <3>3. agents'[r] = [tenant |-> t, config |-> options] /\ (o # r => agents'[o] = agents[o])
      BY <3>2 DEF RolesInv, Manned
    <3>4. [tenant |-> t, config |-> options] # None
      <4>1. [tenant |-> t, config |-> options] \in Rol!Agents
        BY DEF Rol!Agents
      <4>2. QED
        BY <4>1 DEF RolesBase, Rol!NilAssumption
    <3>5. ~Rol!NotRegistered(t, r) \/ <<t, r>> \in amiss'
      BY DEF Rol!NotRegistered
    <3>6. \A k, m : <<k, m>> # <<t, r>> /\ <<k, m>> \in amiss => <<k, m>> \in amiss'
      BY <3>2
    <3>7. agents[o] # None => agents'[o] # None
      BY <3>3, <3>4
    <3>8. options # rows[t][r] => amiss \subseteq amiss'
      BY <3>2
    <3>9. QED
      BY <3>1, <3>3, <3>4, <3>5, <3>6, <3>7, <3>8
  <2>2. CASE Rol!NotRegistered(t, r) /\ ~Rol!RegisterAgent(t, r, options)
    BY <2>2, GrownAgain DEF Rol!NotRegistered, Rol!memory
  <2>3. QED
    BY <2>1, <2>2
<1>3. Rol!Runs(s, o) => Rol!Runs(s, o)'
  <2>1. Rol!Runs(s, o) => agents'[o] # None
    BY <1>2 DEF Rol!Runs
  <2>2. QED
    BY <1>2, <2>1, RunsOn
<1>4. CASE <<s, o>> # <<t, r>>
  <2>1. Underway(s, o) => Underway(s, o)'
    BY <1>4 DEF Underway
  <2>2. QED
    BY <1>1, <1>2, <1>3, <1>4, <2>1 DEF AtHand
<1>5. CASE s = t /\ o = r
  <2>1. CASE Rol!NotRegistered(t, r)
    BY <1>2, <1>5, <2>1 DEF AtHand
  <2>2. CASE Rol!RegisterAgent(t, r, options) /\ options = rows[t][r]
    <3>1. \A k \in DOMAIN options : \E i \in DOMAIN regs' :
             regs'[i] = [tenant |-> t, role |-> r, on |-> options[k]]
      BY <2>2, RegistersBacked DEF RolesInv
    <3>2. Rol!Runs(t, r)'
      BY <1>2, <2>2, <3>1 DEF Rol!Runs
    <3>3. QED
      BY <1>5, <3>2 DEF AtHand
  <2>3. CASE Rol!RegisterAgent(t, r, options) /\ options # rows[t][r]
    <3>1. Underway(t, r) => Underway(t, r)'
      BY <2>3 DEF Underway
    <3>2. QED
      BY <1>1, <1>2, <1>3, <1>5, <2>3, <3>1 DEF AtHand
  <2>4. QED
    BY <2>1, <2>2, <2>3
<1>6. QED
  BY <1>4, <1>5

LEMMA LoadedStart ==
    ASSUME RolesBase, RolesInv, Loaded, Rol!Boot \/ Rol!LoadRead \/ Rol!LoadOne \/ Rol!Serve PROVE Loaded'
<1>1. CASE Rol!Boot
  <2>1. phase' = "boot" /\ rows' = rows /\ phase = "down" /\ req' = req
        /\ amiss' = amiss \cup {tr \in (Tenants \ {Boss}) \X RoleIds : tr[2] \in Rol!Active(tr[1])}
    BY <1>1 DEF Rol!Boot
  <2>2. ASSUME NEW t \in Tenants, NEW r \in RoleIds, rows'[t][r] # None PROVE AtHand(t, r)'
    <3>1. CASE t = Boss
      BY <2>1, <3>1 DEF AtHand, Awaited
    <3>2. CASE t # Boss
      <4>1. r \in Rol!Active(t)
        BY <2>1, <2>2 DEF Rol!Active
      <4>2. QED
        BY <2>1, <3>2, <4>1 DEF AtHand
    <3>3. QED
      BY <3>1, <3>2
  <2>3. QED
    BY <2>1, <2>2 DEF Loaded
<1>2. CASE Rol!LoadRead
  <2>1. phase = "boot" /\ phase' = "loading" /\ UNCHANGED <<rows, agents, regs, req>> /\ amiss \subseteq amiss'
        /\ (toLoad' = Rol!Active(Boss) \/ {Boss} \X RoleIds \subseteq amiss')
    BY <1>2 DEF Rol!LoadRead, Rol!memory
  <2>2. ASSUME NEW t \in Tenants, NEW r \in RoleIds, rows[t][r] # None PROVE AtHand(t, r)'
    <3>1. Awaited(t, r) => Awaited(t, r)' \/ <<t, r>> \in amiss'
      BY <2>1, <2>2 DEF Awaited, Rol!Active
    <3>2. QED
      BY <2>1, <2>2, <3>1, LoadedAside
  <2>3. QED
    BY <2>1, <2>2 DEF Loaded
<1>3. CASE Rol!LoadOne
  <2>1. PICK r \in toLoad :
           /\ Rol!RegisterAgent(Boss, r, rows[Boss][r]) \/ Rol!NotRegistered(Boss, r)
           /\ toLoad' = toLoad \ {r}
    BY <1>3 DEF Rol!LoadOne
  <2>2. phase = "loading" /\ UNCHANGED <<phase, rows, req>>
    BY <1>3 DEF Rol!LoadOne
  <2>3. r \in RoleIds /\ rows[Boss][r] # None /\ rows[Boss][r] \in Rol!Configs /\ Boss \in Tenants
    BY DEF RolesInv, ToLoadOK, RowsOK, Rol!BossAssumption, RolesBase
  <2>4. ASSUME NEW s \in Tenants, NEW o \in RoleIds, rows[s][o] # None PROVE AtHand(s, o)'
    <3>1. \A k \in Tenants, m \in RoleIds : <<k, m>> # <<Boss, r>> /\ Awaited(k, m) => Awaited(k, m)'
      BY <2>1, <2>2 DEF Awaited
    <3>2. QED
      BY <2>1, <2>2, <2>3, <2>4, <3>1, LoadedRegister
  <2>5. QED
    BY <2>2, <2>4 DEF Loaded
<1>4. CASE Rol!Serve
  <2>1. phase = "loading" /\ toLoad = {} /\ phase' = "up" /\ UNCHANGED <<toLoad, rows, req, agents, regs, amiss>>
    BY <1>4 DEF Rol!Serve, Rol!memory
  <2>2. ASSUME NEW t \in Tenants, NEW r \in RoleIds, rows[t][r] # None PROVE AtHand(t, r)'
    <3>1. ~Awaited(t, r)
      BY <2>1 DEF Awaited
    <3>2. QED
      BY <2>1, <2>2, <3>1, LoadedAside
  <2>3. QED
    BY <2>1, <2>2 DEF Loaded
<1>5. QED
  BY <1>1, <1>2, <1>3, <1>4

LEMMA LoadedRequest ==
    ASSUME RolesBase, RolesInv, Loaded, NEW q \in Requests, Rol!RequestStep(q) PROVE Loaded'
<1>1. UNCHANGED <<phase, toLoad>>
  BY DEF Rol!RequestStep, Rol!ReadToActivate, Rol!SetActive, Rol!CreateRole, Rol!Register, Rol!EndActivate, Rol!Fail, Rol!start
<1>2. \A t, r : Awaited(t, r) => Awaited(t, r)'
  BY <1>1 DEF Awaited
<1>3. \A p \in Requests : p # q => req'[p] = req[p]
  BY DEF Rol!RequestStep, Rol!ReadToActivate, Rol!SetActive, Rol!CreateRole, Rol!Register, Rol!EndActivate, Rol!Fail,
         Rol!Goes, Rol!End, RolesInv, ActivationsOK
<1>0. phase = "up"
  <2>1. CASE \E t \in Tenants : Rol!ReadToActivate(q, t)
    BY <2>1 DEF Rol!ReadToActivate, Rol!NewRequest
  <2>2. CASE ~\E t \in Tenants : Rol!ReadToActivate(q, t)
    <3>1. req[q].pc # "idle"
      BY <2>2 DEF Rol!RequestStep, Rol!SetActive, Rol!CreateRole, Rol!Register, Rol!EndActivate, Rol!Fail
    <3>2. QED
      BY <3>1 DEF Loaded, Rol!NoRequest, Rol!At
  <2>3. QED
    BY <2>1, <2>2
<1>4. CASE Rol!Register(q)
  <2> DEFINE t == req[q].tenant
             r == req[q].role
  <2>1. /\ t \in Tenants /\ req[q].got \in RolePlans /\ r \in Rol!InPlan(req[q].got) /\ req[q].pc = "register"
    BY <1>4 DEF RolesInv, ActivationsOK, ActivationOK, Rol!Register, Rol!NoRequest, Rol!At
  <2>2. r \in RoleIds /\ req[q].got[r] \in Rol!Configs
    BY <2>1, PlanFacts DEF RolesBase
  <2>3. rows[t][r] # None
    BY <2>1 DEF RolesInv, Created
  <2>4. rows' = rows /\ (Rol!RegisterAgent(t, r, req[q].got[r]) \/ Rol!NotRegistered(t, r))
    BY <1>4 DEF Rol!Register
  <2>5. ASSUME phase # "down", NEW s \in Tenants, NEW o \in RoleIds, rows[s][o] # None PROVE AtHand(s, o)'
    <3>2. ~Awaited(t, r)
      BY <1>0 DEF Awaited
    <3>3. \A p \in Requests : req[p].pc = "register" /\ req'[p] # req[p] =>
             req[p].tenant = t /\ req[p].role = r /\ req[p].got[r] = req[q].got[r]
      BY <1>3
    <3>4. \A k \in Tenants, m \in RoleIds : <<k, m>> # <<t, r>> /\ Awaited(k, m) => Awaited(k, m)'
      BY <1>2
    <3> HIDE DEF t, r
    <3>5. QED
      BY <1>0, <1>1, <2>1, <2>2, <2>3, <2>4, <2>5, <3>2, <3>3, <3>4, LoadedRegister
  <2>6. QED
    BY <1>0, <1>1, <2>4, <2>5 DEF Loaded
<1>5. CASE \E r \in RoleIds : Rol!CreateRole(q, r)
  <2>1. PICK r \in RoleIds : Rol!CreateRole(q, r)
    BY <1>5
  <2> DEFINE t == req[q].tenant
  <2>2. req[q].pc = "roles" /\ UNCHANGED <<agents, regs, amiss>> /\ t \in Tenants
    BY <2>1 DEF Rol!CreateRole, Rol!memory, RolesInv, ActivationsOK, ActivationOK, Rol!NoRequest, Rol!At
  <2>3. ASSUME NEW s \in Tenants, NEW o \in RoleIds, phase # "down", rows[s][o] # None, rows'[s][o] = rows[s][o]
        PROVE  AtHand(s, o)'
    <3>1. \A p \in Requests : req[p].pc = "register" => req'[p] = req[p]
      BY <1>3, <2>2
    <3>2. Awaited(s, o) => Awaited(s, o)'
      BY <1>2
    <3>3. QED
      BY <2>2, <2>3, <3>1, <3>2, LoadedAside
  <2>4. CASE rows' = rows
    BY <1>0, <1>1, <2>3, <2>4 DEF Loaded
  <2>5. CASE rows' = [rows EXCEPT ![t][r] = req[q].got[r]] /\ Rol!Goes(q, "register", r, req[q].todo \ {r})
    <3>1. /\ \A s \in Tenants, o \in RoleIds : <<s, o>> # <<t, r>> => rows'[s][o] = rows[s][o]
          /\ rows'[t][r] = req[q].got[r]
      BY <2>2, <2>5 DEF RolesInv, RowsOK
    <3>2. req'[q] = [pc |-> "register", tenant |-> t, got |-> req[q].got, role |-> r, todo |-> req[q].todo \ {r}]
      BY <2>5 DEF Rol!Goes, RolesInv, ActivationsOK
    <3>3. ASSUME phase # "down", NEW s \in Tenants, NEW o \in RoleIds, rows'[s][o] # None PROVE AtHand(s, o)'
      <4>1. CASE s = t /\ o = r
        <5>1. /\ req'[q].pc = "register" /\ req'[q].tenant = s /\ req'[q].role = o
              /\ req'[q].got[o] = rows'[s][o]
          BY <3>1, <3>2, <4>1
        <5>2. QED
          BY <5>1 DEF AtHand, Underway
      <4>2. CASE ~(s = t /\ o = r)
        BY <2>3, <3>1, <3>3, <4>2
      <4>3. QED
        BY <4>1, <4>2
    <3>4. QED
      BY <1>0, <1>1, <3>3 DEF Loaded
  <2>6. QED
    BY <2>1, <2>4, <2>5 DEF Rol!CreateRole
<1>6. CASE (\E t \in Tenants : Rol!ReadToActivate(q, t)) \/ Rol!SetActive(q) \/ Rol!EndActivate(q) \/ Rol!Fail(q)
  <2>1. req[q].pc # "register" /\ UNCHANGED <<rows, agents, regs, amiss>>
    BY <1>6 DEF Rol!ReadToActivate, Rol!SetActive, Rol!EndActivate, Rol!Fail, Rol!memory
  <2>2. ASSUME NEW s \in Tenants, NEW o \in RoleIds, phase # "down", rows[s][o] # None
        PROVE  AtHand(s, o)'
    <3>1. \A p \in Requests : req[p].pc = "register" => req'[p] = req[p]
      BY <1>3, <2>1
    <3>2. Awaited(s, o) => Awaited(s, o)'
      BY <1>2
    <3>3. QED
      BY <2>1, <2>2, <3>1, <3>2, LoadedAside
  <2>3. QED
    BY <1>0, <1>1, <2>1, <2>2 DEF Loaded
<1>7. QED
  BY <1>4, <1>5, <1>6 DEF Rol!RequestStep

LEMMA LoadedStep == ASSUME RolesBase, RolesInv, Loaded, [Rol!Next]_Rol!vars PROVE Loaded'
<1>1. CASE Rol!Crash
  BY <1>1 DEF Rol!Crash, Loaded
<1>2. ASSUME \/ Rol!Listen \/ Rol!Dispatch \/ Rol!Handle \/ Rol!Handled
             \/ \E t \in Tenants, type \in Published : Rol!Publish(t, type)
             \/ \E t \in Tenants : Rol!SetupOrg(t) \/ Rol!UpdatePlan(t)
             \/ UNCHANGED Rol!vars
      PROVE  Loaded'
  <2>1. UNCHANGED <<rows, phase, toLoad, agents, regs, req, amiss>>
    BY <1>2 DEF Rol!Listen, Rol!Dispatch, Rol!Handle, Rol!Handled, Rol!Publish, Rol!SetupOrg, Rol!UpdatePlan, Rol!vars,
                Rol!memory, Rol!start, Rol!tally
  <2>2. ASSUME NEW s \in Tenants, NEW o \in RoleIds, phase # "down", rows[s][o] # None
        PROVE  AtHand(s, o)'
    <3>1. Awaited(s, o) => Awaited(s, o)'
      BY <2>1 DEF Awaited
    <3>2. QED
      BY <2>1, <2>2, <3>1, LoadedAside
  <2>3. QED
    BY <2>1, <2>2 DEF Loaded
<1>3. QED
  BY <1>1, <1>2, LoadedStart, LoadedRequest DEF Rol!Next

LEMMA DeliveryStep == ASSUME RolesBase, RolesInv, Delivery, [Rol!Next]_Rol!vars PROVE Delivery'
<1>1. CASE UNCHANGED Rol!vars
  BY <1>1, DeliveryStays, GrownAgain DEF Rol!vars, Rol!dispatch
<1>2. ASSUME Rol!Boot \/ Rol!LoadRead \/ Rol!Serve \/ Rol!Listen
             \/ (\E t \in Tenants : Rol!SetupOrg(t) \/ Rol!UpdatePlan(t))
             \/ \E q \in Requests :
                   \/ Rol!SetActive(q) \/ Rol!EndActivate(q) \/ Rol!Fail(q)
                   \/ (\E t \in Tenants : Rol!ReadToActivate(q, t)) \/ (\E r \in RoleIds : Rol!CreateRole(q, r))
      PROVE  Delivery'
  <2>1. UNCHANGED Rol!dispatch /\ UNCHANGED regs
    BY <1>2 DEF Rol!Boot, Rol!LoadRead, Rol!Serve, Rol!Listen, Rol!SetupOrg, Rol!UpdatePlan,
                Rol!ReadToActivate, Rol!SetActive, Rol!CreateRole, Rol!EndActivate, Rol!Fail, Rol!memory
  <2>2. QED
    BY <2>1, DeliveryStays, GrownAgain DEF Rol!dispatch
<1>3. ASSUME NEW t \in Tenants, NEW r \in RoleIds, NEW options \in Rol!Configs, rows[t][r] # None, rows' = rows,
             Rol!RegisterAgent(t, r, options) \/ Rol!NotRegistered(t, r), UNCHANGED Rol!dispatch
      PROVE  Delivery'
  <2>1. CASE Rol!RegisterAgent(t, r, options)
    <3>1. Grown
      BY <1>3, <2>1, RegistersBacked DEF RolesInv
    <3>2. QED
      BY <1>3, <3>1, DeliveryStays DEF Rol!dispatch
  <2>2. CASE Rol!NotRegistered(t, r)
    BY <1>3, <2>2, DeliveryStays, GrownAgain DEF Rol!dispatch, Rol!NotRegistered, Rol!memory
  <2>3. QED
    BY <1>3, <2>1, <2>2
<1>4. CASE Rol!LoadOne
  <2>1. PICK r \in toLoad : Rol!RegisterAgent(Boss, r, rows[Boss][r]) \/ Rol!NotRegistered(Boss, r)
    BY <1>4 DEF Rol!LoadOne
  <2>2. r \in RoleIds /\ rows[Boss][r] # None /\ rows[Boss][r] \in Rol!Configs /\ Boss \in Tenants
    BY DEF RolesInv, ToLoadOK, RowsOK, Rol!BossAssumption, RolesBase
  <2>3. rows' = rows /\ UNCHANGED Rol!dispatch
    BY <1>4 DEF Rol!LoadOne
  <2>4. QED
    BY <1>3, <2>1, <2>2, <2>3
<1>5. ASSUME NEW q \in Requests, Rol!Register(q) PROVE Delivery'
  <2>1. /\ req[q].tenant \in Tenants /\ req[q].got \in RolePlans /\ req[q].role \in Rol!InPlan(req[q].got)
        /\ req[q].pc = "register"
    BY <1>5 DEF RolesInv, ActivationsOK, ActivationOK, Rol!Register, Rol!NoRequest, Rol!At
  <2>2. req[q].role \in RoleIds /\ req[q].got[req[q].role] \in Rol!Configs
    BY <2>1, PlanFacts DEF RolesBase
  <2>3. rows[req[q].tenant][req[q].role] # None
    BY <2>1 DEF RolesInv, Created
  <2>4. /\ rows' = rows /\ UNCHANGED Rol!dispatch
        /\ \/ Rol!RegisterAgent(req[q].tenant, req[q].role, req[q].got[req[q].role])
           \/ Rol!NotRegistered(req[q].tenant, req[q].role)
    BY <1>5 DEF Rol!Register
  <2>5. QED
    BY <1>3, <2>1, <2>2, <2>3, <2>4
<1>6. ASSUME NEW q \in Requests, Rol!RequestStep(q) PROVE Delivery'
  BY <1>2, <1>5, <1>6 DEF Rol!RequestStep
<1>7. CASE Rol!Dispatch \/ Rol!Handle
  BY <1>7, DeliveryDispatch, DeliveryHandle DEF RolesInv, RolesBase
<1>8. QED
  BY <1>1, <1>2, <1>4, <1>6, <1>7, DeliveryCrash, DeliveryPublish, DeliveryHandled DEF Rol!Next

\* What runs in the process has an active row, every active row runs with all its triggers,
\* and an agent works with the configuration of its row, but for rows this process failed to
\* register or never loaded, those about to be registered, and two activations at once.
THEOREM RunsAsStored == RolesBase => (Rol!Spec => []Rol!RunningAsStored)
<1> SUFFICES ASSUME RolesBase PROVE Rol!Spec => []Rol!RunningAsStored
  OBVIOUS
<1>1. Rol!Init => RolesInv /\ Loaded
  BY RolesInit DEF Rol!Init, Loaded
<1>2. RolesInv /\ Loaded /\ [Rol!Next]_Rol!vars => RolesInv' /\ Loaded'
  BY RolesStep, LoadedStep
<1>3. RolesInv /\ Loaded => Rol!RunningAsStored
  BY RunningParts DEF RolesInv, Manned
<1>4. QED
  BY <1>1, <1>2, <1>3, PTL DEF Rol!Spec

\* What the bus has received it handles once and in order, and drops for no handler that
\* was subscribed by then, until the process goes down.
THEOREM EventsHandledOnce == RolesBase => (Rol!Spec => []Rol!HandledOnce)
<1> SUFFICES ASSUME RolesBase PROVE Rol!Spec => []Rol!HandledOnce
  OBVIOUS
<1>1. Rol!Init => RolesInv /\ Delivery
  BY RolesInit
<1>2. RolesInv /\ Delivery /\ [Rol!Next]_Rol!vars => RolesInv' /\ Delivery'
  BY RolesStep, DeliveryStep
<1>3. Delivery => Rol!HandledOnce
  BY DeliveryMeans
<1>4. QED
  BY <1>1, <1>2, <1>3, PTL DEF Rol!Spec

-----------------------------------------------------------------------------
(* Chat: what is said is kept                                              *)

CONSTANTS
    Speakers, Owner, Seats, Groups, Boards, Personas, RateMax, MessagesKept, SeatKept, MaxExchanges

VARIABLES
    history, silence, counter, expiring, cooling, talkTo, holder, group, request, extracting,
    nextId, written, remembered, again, gone, crossed, admitted, uncounted, endless, done, repeated

Cha == INSTANCE Chat WITH Employees <- Speakers, Boss <- Owner, Handlers <- Workers, Kept <- MessagesKept


ChatBase == MaxExchanges \in Nat /\ None \notin Cha!Conversations /\ MessagesKept \in Nat \ {0} /\ SeatKept \in Nat \ {0}

Opened == {"trim", "ask", "save"}
Carrying == {"expire", "load"} \cup Opened
Exchange(x, c) == x \in Seq(Cha!Exchanges) /\ Len(x) \in 0 .. Cha!Most(c)

HandlerOK(x) ==
    /\ x = [at |-> x.at, with |-> x.with, id |-> x.id, read |-> x.read] /\ x.at \in Cha!Locations
    /\ x.at \in Carrying => x.with \in Cha!Conversations /\ x.id \in Cha!Exchanges
    /\ x.at \in Opened => Exchange(x.read, x.with)
HandlersOK == request = [p \in Workers |-> request[p]] /\ \A p \in Workers : HandlerOK(request[p])
HistoryOK ==
    /\ history = [c \in Cha!Conversations |-> history[c]]
    /\ \A c \in Cha!Conversations : Exchange(history[c], c)
WrittenOK == nextId \in Nat /\ written \in [Cha!Exchanges -> Cha!Conversations \cup {None}]
TranscriptsOK == \A x \in extracting : x[1] \in Cha!Conversations /\ x[2] \in Seq(Cha!Exchanges)
ChatTypes == HandlersOK /\ HistoryOK /\ WrittenOK /\ TranscriptsOK

\* An exchange is given to one handler, which has yet to write it.
Fresh ==
    /\ \A p \in Workers : request[p].at \in Carrying =>
          /\ request[p].id < nextId /\ written[request[p].id] = None
          /\ \A q \in Workers : q # p /\ request[q].at \in Carrying => request[q].id # request[p].id
    /\ \A m \in Cha!Exchanges : written[m] # None => m < nextId

\* Nothing of a conversation is in another.
Within(x, c) == \A i \in DOMAIN x : written[x[i]] = c
Separate ==
    /\ \A c \in Cha!Conversations : Within(history[c], c)
    /\ \A p \in Workers : request[p].at \in Opened => Within(request[p].read, request[p].with)
    /\ \A x \in extracting : Within(x[2], x[1])
    /\ \A m \in remembered : m \in Cha!Exchanges /\ written[m] # None
    /\ again \subseteq remembered

\* A conversation that nothing crossed has one handler, which has read what there is.
Alone ==
    \A c \in Cha!Conversations \ crossed : \A p \in Workers :
        request[p].at \in Opened /\ request[p].with = c =>
            /\ request[p].read = history[c]
            /\ \A q \in Workers : request[q].at \in Opened /\ request[q].with = c => q = p

Witnessed(m) == m \in Cha!Exchanges /\ written[m] # None /\ written[m] \notin crossed
Under(m, x) == m \in Cha!RangeOf(x[2])
InOnePlace ==
    \A m \in Cha!Exchanges : Witnessed(m) =>
        /\ m \in Cha!RangeOf(history[written[m]]) => m \notin remembered /\ \A x \in extracting : ~Under(m, x)
        /\ \A x \in extracting : Under(m, x) => m \notin remembered
        /\ \A x, y \in extracting : Under(m, x) /\ Under(m, y) => x = y
        /\ m \notin again
        /\ \/ m \in Cha!RangeOf(history[written[m]]) \/ m \in remembered \/ m \in gone
           \/ \E x \in extracting : Under(m, x)

ChatInv == ChatTypes /\ Fresh /\ Separate /\ Alone /\ InOnePlace

LEMMA KeptMeans == ChatInv => Cha!SaidIsKept
  BY DEF ChatInv, InOnePlace, Witnessed, Under, Cha!SaidIsKept

LEMMA ChatInit == ASSUME ChatBase, Cha!Init PROVE ChatInv
<1>1. ChatTypes
  <2>1. \A c : Exchange(<<>>, c)
    BY DEF Exchange, Cha!Most, ChatBase
  <2>2. HandlerOK(Cha!NoRequest)
    BY DEF HandlerOK, Cha!NoRequest, Cha!Locations, Carrying, Opened
  <2>3. QED
    BY <2>1, <2>2 DEF Cha!Init, ChatTypes, HandlersOK, HistoryOK, WrittenOK, TranscriptsOK
<1>2. Fresh /\ Separate /\ Alone /\ InOnePlace
  BY DEF Cha!Init, Fresh, Separate, Alone, InOnePlace, Witnessed, Within, Cha!NoRequest, Carrying, Opened
<1>3. QED
  BY <1>1, <1>2 DEF ChatInv

\* What is written, read and remembered.
kept == <<history, extracting, written, remembered, again, gone, crossed>>

LEMMA ChatElsewhere == ASSUME ChatInv, nextId' \in {nextId, nextId + 1}, UNCHANGED <<request, kept>> PROVE ChatInv'
<1>1. UNCHANGED <<request, history, extracting, written, remembered, again, gone, crossed>>
  BY DEF kept
<1>2. ChatTypes'
  BY <1>1 DEF ChatInv, ChatTypes, HandlersOK, HistoryOK, WrittenOK, TranscriptsOK
<1>3. Fresh'
  BY <1>1 DEF ChatInv, ChatTypes, WrittenOK, HandlersOK, HandlerOK, Fresh, Cha!Exchanges
<1>4. Separate' /\ Alone'
  BY <1>1 DEF ChatInv, Separate, Alone, Within
<1>5. InOnePlace'
  BY <1>1 DEF ChatInv, InOnePlace, Witnessed, Under
<1>6. QED
  BY <1>2, <1>3, <1>4, <1>5 DEF ChatInv

\* A goroutine goes on, with what it has read, or begins with a new exchange.
LEMMA ChatAside ==
    ASSUME ChatInv, NEW p \in Workers, NEW x, HandlerOK(x), request' = [request EXCEPT ![p] = x], UNCHANGED kept,
           nextId' \in {nextId, nextId + 1},
           x.at \in Carrying => \/ request[p].at \in Carrying /\ x.id = request[p].id
                                \/ nextId' = nextId + 1 /\ x.id = nextId,
           x.at \in Opened => request[p].at \in Opened /\ x.with = request[p].with /\ x.read = request[p].read
    PROVE  ChatInv'
<1>1. UNCHANGED <<history, extracting, written, remembered, again, gone, crossed>>
  BY DEF kept
<1>2. request'[p] = x /\ \A q \in Workers : q # p => request'[q] = request[q]
  BY DEF ChatInv, ChatTypes, HandlersOK
<1>3. ChatTypes'
  BY <1>1 DEF ChatInv, ChatTypes, HandlersOK, HistoryOK, WrittenOK, TranscriptsOK
<1>4. Fresh'
  <2>1. \A q \in Workers : request[q].at \in Carrying => request[q].id \in Nat /\ request[q].id < nextId
    BY DEF ChatInv, ChatTypes, HandlersOK, HandlerOK, Fresh, Cha!Exchanges
  <2>2. nextId \in Nat /\ nextId' >= nextId
    BY DEF ChatInv, ChatTypes, WrittenOK
  <2>3. \A m \in Cha!Exchanges : m \in Nat /\ (written[m] # None => m < nextId)
    BY DEF ChatInv, Fresh, Cha!Exchanges
  <2>4. x.at \in Carrying => x.id < nextId' /\ written[x.id] = None /\ \A q \in Workers : q # p /\ request[q].at \in Carrying => request[q].id # x.id
    <3>1. CASE request[p].at \in Carrying /\ x.id = request[p].id
      BY <2>1, <2>2, <3>1 DEF ChatInv, Fresh
    <3>2. CASE nextId' = nextId + 1 /\ x.id = nextId
      BY <2>1, <2>2, <2>3, <3>2 DEF HandlerOK
    <3>3. QED
      BY <3>1, <3>2
  <2>5. \A m \in Cha!Exchanges : written'[m] # None => m < nextId'
    BY <1>1, <2>2, <2>3
  <2>6. ASSUME NEW q \in Workers, request'[q].at \in Carrying
        PROVE  /\ request'[q].id < nextId' /\ written'[request'[q].id] = None
               /\ \A r \in Workers : r # q /\ request'[r].at \in Carrying => request'[r].id # request'[q].id
    BY <1>1, <1>2, <2>1, <2>2, <2>4, <2>6 DEF ChatInv, Fresh
  <2>7. QED
    BY <2>5, <2>6 DEF Fresh
<1>5. Separate'
  BY <1>1, <1>2 DEF ChatInv, Separate, Within
<1>6. Alone'
  BY <1>1, <1>2 DEF ChatInv, Alone
<1>7. InOnePlace'
  BY <1>1 DEF ChatInv, InOnePlace, Witnessed, Under
<1>8. QED
  BY <1>3, <1>4, <1>5, <1>6, <1>7 DEF ChatInv

LEMMA ChatMoves ==
    ASSUME ChatTypes, NEW p \in Workers, NEW x, HandlerOK(x), request' = [request EXCEPT ![p] = x]
    PROVE  HandlersOK' /\ request'[p] = x /\ \A q \in Workers : q # p => request'[q] = request[q]
  BY DEF ChatTypes, HandlersOK

\* A handler that goes on with its exchange, or ends: the exchanges that are written stay.
LEMMA FreshStays ==
    ASSUME Fresh, NEW p \in Workers, NEW x, request'[p] = x, \A q \in Workers : q # p => request'[q] = request[q],
           UNCHANGED <<nextId, written>>,
           x.at \in Carrying => request[p].at \in Carrying /\ x.id = request[p].id
    PROVE  Fresh'
  BY DEF Fresh

LEMMA EmptyExchange == ASSUME ChatBase, NEW c PROVE Exchange(<<>>, c) /\ Within(<<>>, c) /\ Cha!RangeOf(<<>>) = {}
  BY DEF ChatBase, Exchange, Within, Cha!Most, Cha!RangeOf

LEMMA ChatLoad == ASSUME ChatBase, ChatInv, NEW p \in Workers, Cha!Load(p) PROVE ChatInv'
<1> DEFINE c == request[p].with
<1>1. PICK ok \in BOOLEAN, l \in {"trim", "ask"} :
         /\ request' = [request EXCEPT ![p] =
               [at |-> l, with |-> c, id |-> request[p].id, read |-> IF ok THEN history[c] ELSE <<>>]]
         /\ crossed' = IF Cha!Open(c) # {} \/ ~ok THEN crossed \cup {c} ELSE crossed
  <2>1. PICK ok \in BOOLEAN :
           /\ Cha!Reads(p, IF c \in Cha!Mentored /\ (IF ok THEN history[c] ELSE <<>>) # <<>> /\ silence[c] = "gap"
                           THEN "trim" ELSE "ask", IF ok THEN history[c] ELSE <<>>)
           /\ crossed' = IF Cha!Open(c) # {} \/ ~ok THEN crossed \cup {c} ELSE crossed
    BY DEF Cha!Load
  <2> DEFINE l == IF c \in Cha!Mentored /\ (IF ok THEN history[c] ELSE <<>>) # <<>> /\ silence[c] = "gap"
                  THEN "trim" ELSE "ask"
  <2>2. l \in {"trim", "ask"}
    OBVIOUS
  <2>3. Cha!Reads(p, l, IF ok THEN history[c] ELSE <<>>)
    BY <2>1
  <2> HIDE DEF l
  <2>4. QED
    BY <2>1, <2>2, <2>3 DEF Cha!Reads
<1> DEFINE x == [at |-> l, with |-> c, id |-> request[p].id, read |-> IF ok THEN history[c] ELSE <<>>]
<1>2. UNCHANGED <<history, extracting, nextId, written, remembered, again, gone>>
  BY DEF Cha!Load, Cha!redis
<1>3. /\ request[p].at = "load" /\ c \in Cha!Conversations /\ request[p].id \in Cha!Exchanges /\ request[p].at \in Carrying
  BY DEF Cha!Load, Cha!At, ChatInv, ChatTypes, HandlersOK, HandlerOK, Carrying, Opened
<1>4. /\ x.with = c /\ x.id = request[p].id /\ x.read \in {history[c], <<>>} /\ x.at = l
      /\ x.at \in Opened /\ x.at \in Carrying /\ (ok => x.read = history[c])
      /\ x = [at |-> x.at, with |-> x.with, id |-> x.id, read |-> x.read]
  BY DEF Opened, Carrying
<1> HIDE DEF x
<1>5. Exchange(x.read, c) /\ Within(x.read, c)
  BY <1>3, <1>4, EmptyExchange DEF ChatInv, ChatTypes, HistoryOK, Separate
<1>6. HandlerOK(x)
  <2>1. x.at \in Cha!Locations
    BY <1>4 DEF Cha!Locations
  <2>2. QED
    BY <1>3, <1>4, <1>5, <2>1 DEF HandlerOK
<1>7. HandlersOK' /\ request'[p] = x /\ \A q \in Workers : q # p => request'[q] = request[q]
  <2>1. request' = [request EXCEPT ![p] = x]
    BY <1>1 DEF x
  <2>2. QED
    BY <1>6, <2>1, ChatMoves DEF ChatInv
<1>8. ChatTypes'
  BY <1>2, <1>7 DEF ChatInv, ChatTypes, HistoryOK, WrittenOK, TranscriptsOK
<1>9. Fresh'
  BY <1>2, <1>3, <1>4, <1>7, FreshStays DEF ChatInv
<1>10. Separate'
  BY <1>2, <1>4, <1>5, <1>7 DEF ChatInv, Separate, Within
<1>11. Alone'
  <2>1. crossed \subseteq crossed'
    BY <1>1
  <2>2. c \notin crossed' => x.read = history[c] /\ \A q \in Workers : ~(request[q].at \in Opened /\ request[q].with = c)
    BY <1>1, <1>4 DEF Cha!Open, Cha!Busy, Opened
  <2>3. QED
    BY <1>2, <1>4, <1>7, <2>1, <2>2 DEF ChatInv, Alone
<1>12. InOnePlace'
  <2>1. \A m \in Cha!Exchanges : Witnessed(m)' => Witnessed(m)
    BY <1>1, <1>2 DEF Witnessed
  <2>2. QED
    BY <1>2, <2>1 DEF ChatInv, InOnePlace, Under
<1>13. QED
  BY <1>8, <1>9, <1>10, <1>11, <1>12 DEF ChatInv

LEMMA ChatTrim == ASSUME ChatBase, ChatInv, NEW p \in Workers, Cha!Trim(p) PROVE ChatInv'
<1> DEFINE c == request[p].with
           y == <<c, request[p].read>>
           x == [at |-> "ask", with |-> c, id |-> request[p].id, read |-> <<>>]
<1>1. PICK ok \in BOOLEAN :
         /\ history' = IF ok THEN [history EXCEPT ![c] = <<>>] ELSE history
         /\ crossed' = IF ok THEN crossed ELSE crossed \cup {c}
  BY DEF Cha!Trim
<1>2. /\ request' = [request EXCEPT ![p] = x] /\ extracting' = extracting \cup {y}
      /\ UNCHANGED <<nextId, written, remembered, again, gone>>
  BY DEF Cha!Trim, Cha!Reads
<1>3. /\ request[p].at \in Opened /\ request[p].at \in Carrying /\ c \in Cha!Conversations
      /\ request[p].id \in Cha!Exchanges /\ Exchange(request[p].read, c) /\ Within(request[p].read, c)
  BY DEF Cha!Trim, Cha!At, ChatInv, ChatTypes, HandlersOK, HandlerOK, Carrying, Opened, Separate
<1>4. HandlerOK(x) /\ x.at \in Opened /\ x.with = c /\ x.id = request[p].id /\ x.read = <<>>
  BY <1>3, EmptyExchange DEF HandlerOK, Cha!Locations, Opened, Carrying
<1>5. y[1] = c /\ y[2] = request[p].read
  OBVIOUS
<1> HIDE DEF x, y
<1>6. HandlersOK' /\ request'[p] = x /\ \A q \in Workers : q # p => request'[q] = request[q]
  BY <1>2, <1>4, ChatMoves DEF ChatInv
<1>7. /\ \A d \in Cha!Conversations : d # c => history'[d] = history[d]
      /\ history'[c] = (IF ok THEN <<>> ELSE history[c])
      /\ history' = [d \in Cha!Conversations |-> history'[d]]
  BY <1>1, <1>3 DEF ChatInv, ChatTypes, HistoryOK
<1>8. ChatTypes'
  <2>1. HistoryOK'
    BY <1>7, EmptyExchange DEF ChatInv, ChatTypes, HistoryOK
  <2>2. TranscriptsOK'
    BY <1>2, <1>3, <1>5 DEF ChatInv, ChatTypes, TranscriptsOK, Exchange
  <2>3. QED
    BY <1>2, <1>6, <2>1, <2>2 DEF ChatInv, ChatTypes, WrittenOK
<1>9. Fresh'
  BY <1>2, <1>3, <1>4, <1>6, FreshStays DEF ChatInv
<1>10. Separate'
  <2>1. \A d \in Cha!Conversations : Within(history'[d], d)
    BY <1>7, EmptyExchange DEF ChatInv, Separate
  <2>2. \A q \in Workers : request'[q].at \in Opened => Within(request'[q].read, request'[q].with)
    BY <1>4, <1>6, EmptyExchange DEF ChatInv, Separate
  <2>3. \A z \in extracting' : Within(z[2], z[1])
    BY <1>2, <1>3, <1>5 DEF ChatInv, Separate
  <2>4. QED
    BY <1>2, <2>1, <2>2, <2>3 DEF ChatInv, Separate, Within
<1>11. c \notin crossed => /\ request[p].read = history[c]
                           /\ \A q \in Workers : request[q].at \in Opened /\ request[q].with = c => q = p
  BY <1>3 DEF ChatInv, Alone
<1>12. Alone'
  <2>1. \A d \in Cha!Conversations : d \notin crossed' => d \notin crossed /\ (d = c => history'[d] = <<>>)
    BY <1>1, <1>7
  <2>2. QED
    BY <1>4, <1>6, <1>7, <1>11, <2>1 DEF ChatInv, Alone
<1>13. InOnePlace'
  <2>1. ASSUME NEW m \in Cha!Exchanges, Witnessed(m)'
        PROVE  /\ m \in Cha!RangeOf(history'[written'[m]]) => m \notin remembered' /\ \A z \in extracting' : ~Under(m, z)
               /\ \A z \in extracting' : Under(m, z) => m \notin remembered'
               /\ \A z, v \in extracting' : Under(m, z) /\ Under(m, v) => z = v
               /\ m \notin again'
               /\ \/ m \in Cha!RangeOf(history'[written'[m]]) \/ m \in remembered' \/ m \in gone'
                  \/ \E z \in extracting' : Under(m, z)
    <3>1. Witnessed(m) /\ written'[m] = written[m] /\ written[m] \in Cha!Conversations /\ (written[m] = c => c \notin crossed')
      BY <1>1, <1>2, <2>1 DEF Witnessed, ChatInv, ChatTypes, WrittenOK
    <3>2. CASE written[m] # c
      <4>1. ~Under(m, y)
        BY <1>3, <1>5, <3>2 DEF Under, Within, Cha!RangeOf
      <4>2. QED
        BY <1>2, <1>7, <3>1, <3>2, <4>1 DEF ChatInv, InOnePlace
    <3>3. CASE written[m] = c
      <4>1. c \notin crossed /\ history'[c] = <<>>
        BY <1>1, <1>7, <3>1, <3>3
      <4>2. Under(m, y) <=> m \in Cha!RangeOf(history[c])
        BY <1>5, <1>11, <4>1 DEF Under
      <4>3. m \notin Cha!RangeOf(history'[c])
        BY <4>1, EmptyExchange
      <4>4. QED
        BY <1>2, <3>1, <3>3, <4>2, <4>3 DEF ChatInv, InOnePlace
    <3>4. QED
      BY <3>2, <3>3
  <2>2. QED
    BY <2>1 DEF InOnePlace, Under
<1>14. QED
  BY <1>8, <1>9, <1>10, <1>12, <1>13 DEF ChatInv

LEMMA ChatExtract == ASSUME ChatBase, ChatInv, NEW x \in extracting, Cha!Extract(x) PROVE ChatInv'
<1>1. /\ UNCHANGED <<request, history, nextId, written, crossed>> /\ extracting' = extracting \ {x}
      /\ \/ /\ again' = again \cup (Cha!RangeOf(x[2]) \cap remembered) /\ remembered' = remembered \cup Cha!RangeOf(x[2])
            /\ gone' = gone
         \/ gone' = gone \cup Cha!RangeOf(x[2]) /\ again' = again /\ remembered' = remembered
  BY DEF Cha!Extract, Cha!redis
<1>2. ChatTypes' /\ Fresh' /\ Alone'
  BY <1>1 DEF ChatInv, ChatTypes, HandlersOK, HistoryOK, WrittenOK, TranscriptsOK, Fresh, Alone
<1>3. \A m \in Cha!RangeOf(x[2]) : m \in Cha!Exchanges /\ written[m] = x[1] /\ x[1] \in Cha!Conversations
  BY DEF ChatInv, ChatTypes, TranscriptsOK, Separate, Within, Cha!RangeOf
<1>4. Separate'
  <2>1. /\ \A c \in Cha!Conversations : Within(history[c], c)
        /\ \A p \in Workers : request[p].at \in Opened => Within(request[p].read, request[p].with)
        /\ \A z \in extracting' : Within(z[2], z[1])
    BY <1>1 DEF ChatInv, Separate
  <2>2. \A m \in Cha!RangeOf(x[2]) : written[m] # None
    BY <1>3 DEF ChatBase
  <2>3. \A m \in remembered' : m \in Cha!Exchanges /\ written[m] # None
    BY <1>1, <1>3, <2>2 DEF ChatInv, Separate
  <2>4. again' \subseteq remembered'
    BY <1>1 DEF ChatInv, Separate
  <2>5. QED
    BY <1>1, <2>1, <2>3, <2>4 DEF Separate, Within
<1>5. InOnePlace'
  <2>1. ASSUME NEW m \in Cha!Exchanges, Witnessed(m)
        PROVE  /\ m \in Cha!RangeOf(history[written[m]]) => m \notin remembered' /\ \A z \in extracting' : ~Under(m, z)
               /\ \A z \in extracting' : Under(m, z) => m \notin remembered'
               /\ \A z, v \in extracting' : Under(m, z) /\ Under(m, v) => z = v
               /\ m \notin again'
               /\ \/ m \in Cha!RangeOf(history[written[m]]) \/ m \in remembered' \/ m \in gone'
                  \/ \E z \in extracting' : Under(m, z)
    <3>1. /\ m \in Cha!RangeOf(history[written[m]]) => m \notin remembered /\ \A z \in extracting : ~Under(m, z)
          /\ \A z \in extracting : Under(m, z) => m \notin remembered
          /\ \A z, v \in extracting : Under(m, z) /\ Under(m, v) => z = v
          /\ m \notin again
          /\ \/ m \in Cha!RangeOf(history[written[m]]) \/ m \in remembered \/ m \in gone
             \/ \E z \in extracting : Under(m, z)
      BY <2>1 DEF ChatInv, InOnePlace
    <3>2. CASE Under(m, x)
      <4>1. m \in Cha!RangeOf(x[2])
        BY <3>2 DEF Under
      <4>2. \A z \in extracting' : ~Under(m, z)
        BY <1>1, <3>1, <3>2
      <4>3. m \notin again'
        BY <1>1, <3>1, <3>2
      <4>4. m \in remembered' \/ m \in gone'
        BY <1>1, <4>1
      <4>5. QED
        BY <3>1, <3>2, <4>2, <4>3, <4>4
    <3>3. CASE ~Under(m, x)
      BY <1>1, <3>1, <3>3 DEF Under
    <3>4. QED
      BY <3>2, <3>3
  <2>2. \A m \in Cha!Exchanges : Witnessed(m)' <=> Witnessed(m)
    BY <1>1 DEF Witnessed
  <2>3. QED
    BY <1>1, <2>1, <2>2 DEF InOnePlace, Under
<1>6. QED
  BY <1>2, <1>4, <1>5 DEF ChatInv

LEMMA ChatSilence == ASSUME ChatBase, ChatInv, NEW c \in Cha!Conversations, Cha!Silence(c) PROVE ChatInv'
<1>1. /\ UNCHANGED <<request, extracting, nextId, written, remembered, again, crossed>> /\ Cha!Busy(c) = {}
      /\ \/ history' = history /\ gone' = gone
         \/ history' = [history EXCEPT ![c] = <<>>] /\ gone' = gone \cup Cha!RangeOf(history[c])
  BY DEF Cha!Silence, Cha!tables
<1>2. CASE history' = history /\ gone' = gone
  <2>1. UNCHANGED <<request, kept>> /\ nextId' \in {nextId, nextId + 1}
    BY <1>1, <1>2 DEF kept
  <2>2. QED
    BY <2>1, ChatElsewhere
<1>3. CASE history' = [history EXCEPT ![c] = <<>>] /\ gone' = gone \cup Cha!RangeOf(history[c])
  <2>1. /\ \A d \in Cha!Conversations : d # c => history'[d] = history[d]
        /\ history'[c] = <<>>
        /\ history' = [d \in Cha!Conversations |-> history'[d]]
    BY <1>3 DEF ChatInv, ChatTypes, HistoryOK
  <2>2. HistoryOK'
    BY <2>1, EmptyExchange DEF ChatInv, ChatTypes, HistoryOK
  <2>3. ChatTypes' /\ Fresh'
    BY <1>1, <2>2 DEF ChatInv, ChatTypes, HandlersOK, WrittenOK, TranscriptsOK, Fresh
  <2>4. Separate'
    <3>1. \A d \in Cha!Conversations : Within(history'[d], d)
      BY <2>1, EmptyExchange DEF ChatInv, Separate
    <3>2. QED
      BY <1>1, <3>1 DEF ChatInv, Separate, Within
  <2>5. Alone'
    <3>1. \A p \in Workers : request[p].with # c
      BY <1>1 DEF Cha!Busy
    <3>2. QED
      BY <1>1, <2>1, <3>1 DEF ChatInv, Alone
  <2>6. InOnePlace'
    <3>1. \A m \in Cha!Exchanges : Witnessed(m)' => Witnessed(m) /\ written[m] \in Cha!Conversations
      BY <1>1 DEF Witnessed, ChatInv, ChatTypes, WrittenOK
    <3>2. \A m \in Cha!Exchanges : written[m] = c /\ m \in Cha!RangeOf(history[c]) => m \in gone' /\ m \notin Cha!RangeOf(history'[c])
      BY <1>3, <2>1, EmptyExchange
    <3>3. \A m \in Cha!Exchanges : written[m] = c => m \notin Cha!RangeOf(history'[c])
      BY <2>1, EmptyExchange
    <3>4. \A m \in Cha!Exchanges : m \in gone => m \in gone'
      BY <1>3
    <3>5. QED
      BY <1>1, <2>1, <3>1, <3>2, <3>3, <3>4 DEF ChatInv, InOnePlace, Under
  <2>7. QED
    BY <2>3, <2>4, <2>5, <2>6 DEF ChatInv
<1>4. QED
  BY <1>1, <1>2, <1>3

LEMMA ExtendedFacts ==
    ASSUME ChatBase, NEW c, NEW read, Exchange(read, c), NEW i \in Cha!Exchanges
    PROVE  /\ Exchange(Cha!Extended(c, read, i), c)
           /\ \A m \in Cha!RangeOf(Cha!Extended(c, read, i)) : m \in Cha!RangeOf(read) \/ m = i
           /\ i \in Cha!RangeOf(Cha!Extended(c, read, i))
           /\ \A m \in Cha!RangeOf(read) :
                 m \in Cha!RangeOf(Cha!Extended(c, read, i)) \/ (Len(read) = Cha!Most(c) /\ m = Head(read))
<1> DEFINE n == Cha!Most(c)
           long == Append(read, i)
<1>1. n \in Nat \ {0}
  BY DEF ChatBase, Cha!Most
<1>2. read \in Seq(Cha!Exchanges) /\ Len(read) \in 0 .. n
  BY DEF Exchange
<1> HIDE DEF n
<1>3. /\ long \in Seq(Cha!Exchanges) /\ Len(long) = Len(read) + 1
      /\ \A j \in 1 .. Len(read) : long[j] = read[j]
      /\ long[Len(read) + 1] = i
      /\ DOMAIN read = 1 .. Len(read) /\ Len(read) \in Nat
  BY <1>2
<1> HIDE DEF long
<1>4. Cha!Extended(c, read, i) = SubSeq(long, IF Len(long) > n THEN Len(long) - n + 1 ELSE 1, Len(long))
  BY DEF Cha!Extended, Cha!LastOf, n, long
<1>5. CASE Len(read) = n
  <2>1. Cha!Extended(c, read, i) = SubSeq(long, 2, n + 1)
    <3>1. Len(long) = n + 1 /\ Len(long) > n /\ Len(long) - n + 1 = 2
      BY <1>1, <1>3, <1>5
    <3>2. Cha!Extended(c, read, i) = SubSeq(long, Len(long) - n + 1, Len(long))
      BY <1>4, <3>1
    <3>3. QED
      BY <3>1, <3>2
  <2>2. /\ SubSeq(long, 2, n + 1) \in Seq(Cha!Exchanges) /\ Len(SubSeq(long, 2, n + 1)) = n
        /\ DOMAIN SubSeq(long, 2, n + 1) = 1 .. n
        /\ \A j \in 1 .. n : SubSeq(long, 2, n + 1)[j] = long[j + 1]
    BY <1>1, <1>3, <1>5
  <2> DEFINE now == SubSeq(long, 2, n + 1)
  <2> HIDE DEF now
  <2>3. Exchange(now, c)
    BY <1>1, <2>2 DEF Exchange, n, now
  <2>4. \A j \in DOMAIN now : (j < n /\ now[j] = read[j + 1] /\ j + 1 \in DOMAIN read) \/ now[j] = i
    BY <1>1, <1>3, <1>5, <2>2 DEF now
  <2>5. n \in DOMAIN now /\ now[n] = i
    BY <1>1, <1>3, <1>5, <2>2 DEF now
  <2>6. \A j \in DOMAIN read : j = 1 \/ (j - 1 \in DOMAIN now /\ now[j - 1] = read[j])
    BY <1>1, <1>3, <1>5, <2>2 DEF now
  <2>7. Head(read) = read[1]
    BY <1>1, <1>2, <1>5
  <2>8. Cha!Extended(c, read, i) = now
    BY <2>1 DEF now
  <2>9. \A m \in Cha!RangeOf(now) : m \in Cha!RangeOf(read) \/ m = i
    BY <2>4 DEF Cha!RangeOf
  <2>10. i \in Cha!RangeOf(now)
    BY <2>5 DEF Cha!RangeOf
  <2>11. \A m \in Cha!RangeOf(read) : m \in Cha!RangeOf(now) \/ m = Head(read)
    BY <2>6, <2>7 DEF Cha!RangeOf
  <2>12. QED
    BY <1>5, <2>3, <2>8, <2>9, <2>10, <2>11 DEF n
<1>6. CASE Len(read) < n
  <2>1. Cha!Extended(c, read, i) = SubSeq(long, 1, Len(long))
    <3>1. ~(Len(long) > n)
      BY <1>1, <1>2, <1>3, <1>6
    <3>2. QED
      BY <1>4, <3>1
  <2>2. SubSeq(long, 1, Len(long)) = long /\ DOMAIN long = 1 .. Len(read) + 1
    BY <1>3
  <2>3. Exchange(long, c)
    BY <1>1, <1>2, <1>3, <1>6 DEF Exchange, n
  <2>4. Cha!Extended(c, read, i) = long
    BY <2>1, <2>2
  <2>5. \A m \in Cha!RangeOf(long) : m \in Cha!RangeOf(read) \/ m = i
    BY <1>3, <2>2 DEF Cha!RangeOf
  <2>6. i \in Cha!RangeOf(long)
    BY <1>3, <2>2 DEF Cha!RangeOf
  <2>7. \A m \in Cha!RangeOf(read) : m \in Cha!RangeOf(long)
    BY <1>3, <2>2 DEF Cha!RangeOf
  <2>8. QED
    BY <2>3, <2>4, <2>5, <2>6, <2>7
<1>7. QED
  BY <1>1, <1>2, <1>5, <1>6

\* What was not written before is in nothing that was said.
LEMMA WithinStays ==
    ASSUME NEW c, NEW d, NEW x \in Seq(Cha!Exchanges), NEW m0 \in Cha!Exchanges, written \in [Cha!Exchanges -> Cha!Conversations \cup {None}],
           written[m0] = None, c # None, Within(x, c), written' = [written EXCEPT ![m0] = d]
    PROVE  Within(x, c)' /\ m0 \notin Cha!RangeOf(x)
<1>1. \A i \in DOMAIN x : x[i] \in Cha!Exchanges /\ x[i] # m0
  BY DEF Within
<1>2. QED
  BY <1>1 DEF Within, Cha!RangeOf

LEMMA ChatSave == ASSUME ChatBase, ChatInv, NEW p \in Workers, Cha!Save(p) PROVE ChatInv'
<1> DEFINE c == request[p].with
           m0 == request[p].id
           read == request[p].read
           now == Cha!Extended(c, read, m0)
           cut == IF Len(read) = Cha!Most(c) THEN {Head(read)} ELSE {}
<1>1. /\ request' = [request EXCEPT ![p] = Cha!NoRequest]
      /\ UNCHANGED <<extracting, nextId, remembered, again, crossed>>
      /\ \/ /\ history' = [history EXCEPT ![c] = now]
            /\ written' = [written EXCEPT ![m0] = c]
            /\ gone' = gone \cup cut
         \/ UNCHANGED <<history, written, gone>>
  BY DEF Cha!Save, Cha!Ends
<1>2. /\ request[p].at \in Opened /\ request[p].at \in Carrying /\ c \in Cha!Conversations
      /\ m0 \in Cha!Exchanges /\ Exchange(read, c) /\ Within(read, c) /\ written[m0] = None /\ m0 < nextId
  BY DEF Cha!Save, Cha!At, ChatInv, ChatTypes, HandlersOK, HandlerOK, Carrying, Opened, Separate, Fresh
<1>3. HandlerOK(Cha!NoRequest) /\ Cha!NoRequest.at \notin Carrying /\ Cha!NoRequest.at \notin Opened
  BY DEF HandlerOK, Cha!NoRequest, Cha!Locations, Carrying, Opened
<1>4. CASE UNCHANGED <<history, written, gone>>
  <2>1. UNCHANGED kept /\ nextId' \in {nextId, nextId + 1}
    BY <1>1, <1>4 DEF kept
  <2>2. QED
    BY <1>1, <1>3, <2>1, ChatAside
<1>5. CASE /\ history' = [history EXCEPT ![c] = now]
           /\ written' = [written EXCEPT ![m0] = c]
           /\ gone' = gone \cup cut
  <2>1. HandlersOK' /\ request'[p] = Cha!NoRequest /\ \A q \in Workers : q # p => request'[q] = request[q]
    BY <1>1, <1>3, ChatMoves DEF ChatInv
  <2>2. /\ Exchange(now, c) /\ m0 \in Cha!RangeOf(now)
        /\ \A m \in Cha!RangeOf(now) : m \in Cha!RangeOf(read) \/ m = m0
        /\ \A m \in Cha!RangeOf(read) : m \in Cha!RangeOf(now) \/ m \in cut
    BY <1>2, ExtendedFacts
  <2> HIDE DEF now, cut
  <2>3. /\ \A d \in Cha!Conversations : d # c => history'[d] = history[d]
        /\ history'[c] = now
        /\ history' = [d \in Cha!Conversations |-> history'[d]]
    BY <1>2, <1>5 DEF ChatInv, ChatTypes, HistoryOK
  <2>4. /\ written \in [Cha!Exchanges -> Cha!Conversations \cup {None}]
        /\ written' \in [Cha!Exchanges -> Cha!Conversations \cup {None}]
        /\ written'[m0] = c /\ c # None
        /\ \A m \in Cha!Exchanges : m # m0 => written'[m] = written[m]
    BY <1>2, <1>5 DEF ChatInv, ChatTypes, WrittenOK, ChatBase
  <2>5. ChatTypes'
    <3>1. HistoryOK'
      BY <2>2, <2>3 DEF ChatInv, ChatTypes, HistoryOK
    <3>2. QED
      BY <1>1, <2>1, <2>4, <3>1 DEF ChatInv, ChatTypes, WrittenOK, TranscriptsOK
  <2>6. Fresh'
    BY <1>1, <1>2, <1>3, <2>1, <2>4 DEF ChatInv, ChatTypes, HandlersOK, HandlerOK, Fresh
  \* What is in a conversation, a request or a transcript was written before.
  <2>7. ASSUME NEW d \in Cha!Conversations, NEW x \in Seq(Cha!Exchanges), Within(x, d)
        PROVE  m0 \notin Cha!RangeOf(x) /\ \A i \in DOMAIN x : written'[x[i]] = d
    <3>1. \A i \in DOMAIN x : x[i] \in Cha!Exchanges /\ written[x[i]] = d /\ d # None
      BY <2>7 DEF Within, ChatBase
    <3>2. \A i \in DOMAIN x : x[i] # m0
      BY <1>2, <3>1
    <3>3. QED
      BY <2>4, <3>1, <3>2 DEF Cha!RangeOf
  <2>8. \A d \in Cha!Conversations : m0 \notin Cha!RangeOf(history[d]) /\ \A i \in DOMAIN history[d] : written'[history[d][i]] = d
    BY <2>7 DEF ChatInv, ChatTypes, HistoryOK, Exchange, Separate
  <2>9. \A x \in extracting : m0 \notin Cha!RangeOf(x[2]) /\ \A i \in DOMAIN x[2] : written'[x[2][i]] = x[1]
    BY <2>7 DEF ChatInv, ChatTypes, TranscriptsOK, Separate
  <2>10. m0 \notin Cha!RangeOf(read)
    BY <1>2, <2>7 DEF Exchange
  <2>11. \A i \in DOMAIN now : written'[now[i]] = c
    <3>1. \A m \in Cha!RangeOf(read) : written'[m] = c
      BY <1>2, <2>7 DEF Exchange, Cha!RangeOf
    <3>2. \A i \in DOMAIN now : now[i] \in Cha!RangeOf(now)
      BY DEF Cha!RangeOf
    <3>3. QED
      BY <2>2, <2>4, <3>1, <3>2
  <2>12. Separate'
    <3>1. \A d \in Cha!Conversations : \A i \in DOMAIN history'[d] : written'[history'[d][i]] = d
      BY <2>3, <2>8, <2>11
    <3>2. \A q \in Workers : request'[q].at \in Opened => \A i \in DOMAIN request'[q].read : written'[request'[q].read[i]] = request'[q].with
      <4>1. ASSUME NEW q \in Workers, request[q].at \in Opened
            PROVE  \A i \in DOMAIN request[q].read : written'[request[q].read[i]] = request[q].with
        <5>1. request[q].with \in Cha!Conversations /\ request[q].read \in Seq(Cha!Exchanges) /\ Within(request[q].read, request[q].with)
          BY <4>1 DEF ChatInv, ChatTypes, HandlersOK, HandlerOK, Carrying, Exchange, Separate
        <5>2. QED
          BY <2>7, <5>1
      <4>2. QED
        BY <1>3, <2>1, <4>1
    <3>3. \A x \in extracting' : \A i \in DOMAIN x[2] : written'[x[2][i]] = x[1]
      BY <1>1, <2>9
    <3>4. \A m \in remembered' : m \in Cha!Exchanges /\ written'[m] # None
      BY <1>1, <2>4 DEF ChatInv, Separate
    <3>5. again' \subseteq remembered'
      BY <1>1 DEF ChatInv, Separate
    <3>6. QED
      BY <3>1, <3>2, <3>3, <3>4, <3>5 DEF Separate, Within
  <2>13. Alone'
    <3>1. ASSUME NEW d \in Cha!Conversations \ crossed', NEW q \in Workers, request'[q].at \in Opened, request'[q].with = d
          PROVE  request'[q].read = history'[d] /\ \A r \in Workers : request'[r].at \in Opened /\ request'[r].with = d => r = q
      <4>1. q # p /\ request'[q] = request[q]
        BY <1>3, <2>1, <3>1
      <4>2. d # c
        BY <1>1, <1>2, <3>1, <4>1 DEF ChatInv, Alone
      <4>3. QED
        BY <1>1, <1>3, <2>1, <2>3, <3>1, <4>1, <4>2 DEF ChatInv, Alone
    <3>2. QED
      BY <3>1 DEF Alone
  <2>14. c \notin crossed => read = history[c]
    BY <1>2 DEF ChatInv, Alone
  <2>15. ASSUME NEW m \in Cha!Exchanges, Witnessed(m)'
         PROVE  /\ m \in Cha!RangeOf(history'[written'[m]]) => m \notin remembered' /\ \A x \in extracting' : ~Under(m, x)
                /\ \A x \in extracting' : Under(m, x) => m \notin remembered'
                /\ \A x, y \in extracting' : Under(m, x) /\ Under(m, y) => x = y
                /\ m \notin again'
                /\ \/ m \in Cha!RangeOf(history'[written'[m]]) \/ m \in remembered' \/ m \in gone'
                   \/ \E x \in extracting' : Under(m, x)
    <3>1. CASE m = m0
      <4>1. \A x \in extracting' : ~Under(m, x)
        BY <1>1, <2>9, <3>1 DEF Under
      <4>2. m \notin remembered' /\ m \notin again'
        BY <1>1, <1>2, <3>1 DEF ChatInv, Separate
      <4>3. m \in Cha!RangeOf(history'[written'[m]])
        BY <2>2, <2>3, <2>4, <3>1
      <4>4. QED
        BY <4>1, <4>2, <4>3
    <3>2. CASE m # m0
      <4>1. Witnessed(m) /\ written'[m] = written[m] /\ written[m] \in Cha!Conversations
        BY <1>1, <2>4, <2>15, <3>2 DEF Witnessed
      <4>2. written[m] = c => /\ m \in Cha!RangeOf(history'[c]) => m \in Cha!RangeOf(history[c])
                              /\ m \in Cha!RangeOf(history[c]) => m \in Cha!RangeOf(history'[c]) \/ m \in gone'
        BY <1>5, <2>2, <2>3, <2>14, <3>2, <4>1 DEF Witnessed
      <4>3. m \in gone => m \in gone'
        BY <1>5
      <4>4. QED
        BY <1>1, <2>3, <4>1, <4>2, <4>3 DEF ChatInv, InOnePlace
    <3>3. QED
      BY <3>1, <3>2
  <2>16. InOnePlace'
    BY <2>15 DEF InOnePlace, Under
  <2>17. QED
    BY <2>5, <2>6, <2>12, <2>13, <2>16 DEF ChatInv
<1>6. QED
  BY <1>1, <1>4, <1>5

LEMMA ChatCrash == ASSUME ChatBase, ChatInv, Cha!Crash PROVE ChatInv'
<1>1. /\ request' = [p \in Workers |-> Cha!NoRequest] /\ extracting' = {}
      /\ gone' = gone \cup UNION {Cha!RangeOf(x[2]) : x \in extracting}
      /\ UNCHANGED <<history, nextId, written, remembered, again, crossed>>
  BY DEF Cha!Crash, Cha!redis
<1>2. HandlerOK(Cha!NoRequest) /\ Cha!NoRequest.at \notin Carrying /\ Cha!NoRequest.at \notin Opened
  BY DEF HandlerOK, Cha!NoRequest, Cha!Locations, Carrying, Opened
<1>3. ChatTypes'
  BY <1>1, <1>2 DEF ChatInv, ChatTypes, HandlersOK, HistoryOK, WrittenOK, TranscriptsOK
<1>4. Fresh' /\ Alone'
  BY <1>1, <1>2 DEF ChatInv, Fresh, Alone
<1>5. Separate'
  BY <1>1, <1>2 DEF ChatInv, Separate, Within
<1>6. InOnePlace'
  <2>1. \A m, x : x \in extracting /\ Under(m, x) => m \in gone'
    BY <1>1 DEF Under
  <2>2. QED
    BY <1>1, <2>1 DEF ChatInv, InOnePlace, Witnessed, Under
<1>7. QED
  BY <1>3, <1>4, <1>5, <1>6 DEF ChatInv

\* The boss talks to a seat, or to the mentor.
TalkOK == talkTo \in Seats \cup {None}

LEMMA TalkNext == ASSUME TalkOK, [Cha!Next]_Cha!vars PROVE TalkOK'
<1>1. UNCHANGED talkTo \/ \E s \in Seats \cup {None} : Cha!Talk(s)
  BY DEF Cha!Next, Cha!vars, Cha!redis, Cha!EmployeeWrites, Cha!ClientWrites, Cha!Assign, Cha!BossWrites, Cha!Expire, Cha!Load,
         Cha!Trim, Cha!Ask, Cha!Save, Cha!BoardDiscuss, Cha!GroupMentor, Cha!Begin, Cha!Discussed, Cha!Posted, Cha!Cool, Cha!Upsert,
         Cha!Extract, Cha!Silence, Cha!WindowEnds, Cha!CoolingEnds, Cha!CreateRequest, Cha!UpdateRequest, Cha!DeleteRequest,
         Cha!Seated, Cha!Join, Cha!DeleteGroup, Cha!UpdateGroup, Cha!Grouped, Cha!Crash
<1>2. QED
  BY <1>1 DEF TalkOK, Cha!Talk

LEMMA ChatNext == ASSUME ChatBase, ChatInv, TalkOK, [Cha!Next]_Cha!vars PROVE ChatInv'
<1>1. CASE UNCHANGED Cha!vars
  <2>1. UNCHANGED <<request, kept>> /\ nextId' \in {nextId, nextId + 1}
    BY <1>1 DEF Cha!vars, Cha!redis, Cha!said, kept
  <2>2. QED
    BY <2>1, ChatElsewhere
<1>2. HandlerOK(Cha!NoRequest) /\ Cha!NoRequest.at \notin Carrying /\ Cha!NoRequest.at \notin Opened
  BY DEF HandlerOK, Cha!NoRequest, Cha!Locations, Carrying, Opened
<1>3. ASSUME NEW p \in Workers, NEW c \in Cha!Conversations, NEW l \in {"expire", "load"}, Cha!Begins(p, l, c, nextId),
             Cha!Numbered, UNCHANGED kept
      PROVE  ChatInv'
  <2> DEFINE x == [at |-> l, with |-> c, id |-> nextId, read |-> <<>>]
  <2>1. HandlerOK(x) /\ x.at \notin Opened /\ x.id = nextId
    BY <1>3 DEF HandlerOK, Cha!Locations, Carrying, Opened, Cha!Numbered
  <2>2. request' = [request EXCEPT ![p] = x] /\ nextId' = nextId + 1
    BY <1>3 DEF Cha!Begins, Cha!Numbered
  <2> HIDE DEF x
  <2>3. QED
    BY <1>3, <2>1, <2>2, ChatAside
<1>4. ASSUME NEW p \in Workers, NEW x, HandlerOK(x), x.at \notin Carrying, request' = [request EXCEPT ![p] = x],
             UNCHANGED kept, nextId' = nextId
      PROVE  ChatInv'
  <2>1. x.at \notin Opened
    BY <1>4 DEF Carrying
  <2>2. QED
    BY <1>4, <2>1, ChatAside
<1>5. ASSUME NEW p \in Workers, Cha!Ends(p), UNCHANGED kept, nextId' = nextId PROVE ChatInv'
  BY <1>2, <1>4, <1>5 DEF Cha!Ends
<1>6. ASSUME NEW p \in Workers, NEW l \in {"work", "cool", "find"}, NEW c, NEW i, NEW r,
             request' = [request EXCEPT ![p] = [at |-> l, with |-> c, id |-> i, read |-> r]],
             UNCHANGED kept, nextId' = nextId
      PROVE  ChatInv'
  <2> DEFINE x == [at |-> l, with |-> c, id |-> i, read |-> r]
  <2>1. HandlerOK(x) /\ x.at \notin Carrying
    BY DEF HandlerOK, Cha!Locations, Carrying, Opened
  <2>2. request' = [request EXCEPT ![p] = x]
    BY <1>6
  <2> HIDE DEF x
  <2>3. QED
    BY <1>4, <1>6, <2>1, <2>2
<1>7. ASSUME NEW p \in Workers, NEW e \in Speakers, Cha!EmployeeWrites(p, e) PROVE ChatInv'
  <2>1. UNCHANGED kept /\ e \in Cha!Conversations /\ Cha!Numbered
    BY <1>7 DEF Cha!EmployeeWrites, Cha!said, kept, Cha!Conversations
  <2>2. CASE UNCHANGED request
    <3>1. UNCHANGED <<request, kept>> /\ nextId' \in {nextId, nextId + 1}
      BY <2>1, <2>2 DEF Cha!Numbered
    <3>2. QED
      BY <3>1, ChatElsewhere
  <2>3. CASE \E l \in {"expire", "load"} : Cha!Begins(p, l, e, nextId)
    BY <1>3, <2>1, <2>3
  <2>4. QED
    BY <1>7, <2>2, <2>3 DEF Cha!EmployeeWrites
<1>8. ASSUME NEW p \in Workers, NEW c \in Cha!Conversations,
             Cha!Numbered, UNCHANGED kept,
             UNCHANGED request \/ Cha!Begins(p, "load", c, nextId)
      PROVE  ChatInv'
  <2>1. CASE UNCHANGED request
    <3>1. UNCHANGED <<request, kept>> /\ nextId' \in {nextId, nextId + 1}
      BY <1>8, <2>1 DEF Cha!Numbered
    <3>2. QED
      BY <3>1, ChatElsewhere
  <2>2. CASE Cha!Begins(p, "load", c, nextId)
    BY <1>3, <1>8, <2>2
  <2>3. QED
    BY <1>8, <2>1, <2>2
<1>9. ASSUME NEW p \in Workers, NEW s \in Seats, Cha!ClientWrites(p, s) PROVE ChatInv'
  <2>1. UNCHANGED kept /\ s \in Cha!Conversations /\ Cha!Numbered
    BY <1>9 DEF Cha!ClientWrites, Cha!redis, Cha!said, kept, Cha!Conversations
  <2>2. UNCHANGED request \/ Cha!Begins(p, "load", s, nextId)
    BY <1>9 DEF Cha!ClientWrites
  <2>3. QED
    BY <1>8, <2>1, <2>2
<1>10. ASSUME NEW p \in Workers, Cha!BossWrites(p) PROVE ChatInv'
  <2>1. UNCHANGED kept /\ Cha!Numbered
    BY <1>10 DEF Cha!BossWrites, Cha!redis, Cha!said, kept
  <2>2. PICK c \in Cha!Conversations : UNCHANGED request \/ Cha!Begins(p, "load", c, nextId)
    BY <1>10 DEF Cha!BossWrites, TalkOK, Cha!Conversations
  <2>3. QED
    BY <1>8, <2>1, <2>2
<1>11. ASSUME NEW p \in Workers, Cha!Expire(p) PROVE ChatInv'
  <2> DEFINE x == [at |-> "load", with |-> request[p].with, id |-> request[p].id, read |-> request[p].read]
  <2>1. UNCHANGED kept /\ nextId' = nextId /\ request' = [request EXCEPT ![p] = x] /\ request[p].at = "expire"
    BY <1>11 DEF Cha!Expire, Cha!said, kept, Cha!Goes, Cha!Reads, Cha!At
  <2>2. HandlerOK(x) /\ x.at \notin Opened /\ request[p].at \in Carrying /\ x.id = request[p].id
    BY <2>1 DEF ChatInv, ChatTypes, HandlersOK, HandlerOK, Cha!Locations, Carrying, Opened
  <2> HIDE DEF x
  <2>3. QED
    BY <2>1, <2>2, ChatAside
<1>12. ASSUME NEW p \in Workers, Cha!Ask(p) PROVE ChatInv'
  <2>1. UNCHANGED kept /\ nextId' = nextId /\ request[p].at = "ask"
    BY <1>12 DEF Cha!Ask, Cha!redis, Cha!said, kept, Cha!At
  <2>2. CASE Cha!Ends(p)
    BY <1>5, <2>1, <2>2
  <2>3. CASE Cha!Goes(p, "save")
    <3> DEFINE x == [at |-> "save", with |-> request[p].with, id |-> request[p].id, read |-> request[p].read]
    <3>1. request' = [request EXCEPT ![p] = x]
      BY <2>3 DEF Cha!Goes, Cha!Reads
    <3>2. /\ HandlerOK(x) /\ request[p].at \in Carrying /\ request[p].at \in Opened
          /\ x.id = request[p].id /\ x.with = request[p].with /\ x.read = request[p].read
      BY <2>1 DEF ChatInv, ChatTypes, HandlersOK, HandlerOK, Cha!Locations, Carrying, Opened
    <3> HIDE DEF x
    <3>3. QED
      BY <2>1, <3>1, <3>2, ChatAside
  <2>4. QED
    BY <1>12, <2>2, <2>3 DEF Cha!Ask
<1>13. ASSUME NEW p \in Workers, NEW k, Cha!Begin(p, k) PROVE ChatInv'
  BY <1>6, <1>13 DEF Cha!Begin, Cha!Begins, Cha!redis, Cha!said, kept
<1>14. ASSUME NEW p \in Workers, Cha!Discussed(p) \/ Cha!Posted(p) PROVE ChatInv'
  <2>1. UNCHANGED kept /\ nextId' = nextId /\ (Cha!Goes(p, "cool") \/ Cha!Ends(p))
    BY <1>14 DEF Cha!Discussed, Cha!Posted, Cha!redis, Cha!said, kept
  <2>2. QED
    BY <1>5, <1>6, <2>1 DEF Cha!Goes, Cha!Reads
<1>15. ASSUME NEW p \in Workers, Cha!Cool(p) PROVE ChatInv'
  BY <1>5, <1>15 DEF Cha!Cool, Cha!said, kept
<1>16. ASSUME NEW p \in Workers, NEW s \in Seats, Cha!Assign(p, s) PROVE ChatInv'
  BY <1>6, <1>16 DEF Cha!Assign, Cha!redis, Cha!said, kept
<1>17. ASSUME NEW p \in Workers, NEW m \in Personas, Cha!Upsert(p, m) PROVE ChatInv'
  BY <1>5, <1>17 DEF Cha!Upsert, Cha!redis, Cha!said, kept
<1>18. ASSUME \/ \E e \in Speakers : Cha!WindowEnds(e)
              \/ \E k \in Cha!Cooled : Cha!CoolingEnds(k)
              \/ \E s \in Seats \cup {None} : Cha!Talk(s)
              \/ \E s \in Seats, m \in Personas : Cha!CreateRequest(s, m) \/ Cha!UpdateRequest(s, m)
              \/ \E s \in Seats : Cha!DeleteRequest(s)
              \/ \E g \in Groups : Cha!Join(g) \/ Cha!DeleteGroup(g)
              \/ \E g \in Groups, a \in {"active", "inactive"} : Cha!UpdateGroup(g, a)
       PROVE  ChatInv'
  <2>1. UNCHANGED <<request, kept>> /\ nextId' \in {nextId, nextId + 1}
    BY <1>18 DEF Cha!WindowEnds, Cha!CoolingEnds, Cha!Talk, Cha!CreateRequest, Cha!UpdateRequest, Cha!DeleteRequest, Cha!Seated,
                 Cha!Join, Cha!DeleteGroup, Cha!UpdateGroup, Cha!Grouped, Cha!redis, Cha!said, kept
  <2>2. QED
    BY <2>1, ChatElsewhere
<1>19. CASE Cha!Next
  <2>1. ASSUME NEW p \in Workers, NEW k, Cha!BoardDiscuss(p, k) \/ Cha!GroupMentor(p, k) PROVE ChatInv'
    BY <1>13, <2>1 DEF Cha!BoardDiscuss, Cha!GroupMentor
  <2>2. QED
    BY <1>7, <1>9, <1>10, <1>11, <1>12, <1>14, <1>15, <1>16, <1>17, <1>18, <1>19, <2>1,
       ChatLoad, ChatTrim, ChatSave, ChatExtract, ChatSilence, ChatCrash DEF Cha!Next
<1>20. QED
  BY <1>1, <1>19

\* What was said in a conversation is still there, was or is being remembered,
\* or went as the code means it to, and is remembered once, whatever the
\* handlers, the silences, the crashes and the failed calls, unless two handlers
\* had the conversation at a time or a call about it failed (chat.go:143,
\* service.go:124).
THEOREM SaidIsKept == ChatBase => (Cha!Spec => []Cha!SaidIsKept)
<1> SUFFICES ASSUME ChatBase PROVE Cha!Spec => []Cha!SaidIsKept
  OBVIOUS
<1>1. Cha!Init => ChatInv /\ TalkOK
  BY ChatInit DEF Cha!Init, TalkOK
<1>2. (ChatInv /\ TalkOK) /\ [Cha!Next]_Cha!vars => (ChatInv /\ TalkOK)'
  BY ChatNext, TalkNext
<1>3. ChatInv => Cha!SaidIsKept
  BY KeptMeans
<1>4. QED
  BY <1>1, <1>2, <1>3, PTL DEF Cha!Spec

-----------------------------------------------------------------------------
(* Chat: the ends of the windows                                           *)

\* Where a counter's end is set, or is about to be.
CountsOK ==
    /\ request = [p \in Workers |-> request[p]]
    /\ counter \in [Speakers -> Nat]
    /\ Cha!CounterExpires

LEMMA CountsNext == ASSUME CountsOK, [Cha!Next]_Cha!vars PROVE CountsOK'
<1>1. CASE UNCHANGED <<counter, expiring>> /\ endless \subseteq endless' /\ request' = [p \in Workers |-> request'[p]]
           /\ \A p \in Workers : request[p].at = "expire" => request'[p] = request[p] \/ request[p].with \in endless'
  BY <1>1 DEF CountsOK, Cha!CounterExpires, Cha!Busy, Cha!At
<1>2. ASSUME NEW p \in Workers, NEW x, request[p].at # "expire", request' = [request EXCEPT ![p] = x],
             UNCHANGED <<counter, expiring, endless>>
      PROVE  CountsOK'
  <2>1. request' = [q \in Workers |-> request'[q]] /\ \A q \in Workers : q # p => request'[q] = request[q]
    BY <1>2 DEF CountsOK
  <2>2. QED
    BY <1>1, <1>2, <2>1
<1>3. ASSUME NEW p \in Workers, NEW e \in Speakers, Cha!EmployeeWrites(p, e) PROVE CountsOK'
  <2>1. CASE UNCHANGED counter
    <3>1. PICK x : request' = [request EXCEPT ![p] = x]
      BY <1>3, <2>1 DEF Cha!EmployeeWrites, Cha!Begins, CountsOK
    <3>2. request[p].at # "expire" /\ UNCHANGED <<counter, expiring, endless>>
      BY <1>3, <2>1 DEF Cha!EmployeeWrites, Cha!At
    <3>3. QED
      BY <1>2, <3>1, <3>2
  <2>2. CASE counter' = [counter EXCEPT ![e] = @ + 1]
    <3>1. /\ counter' \in [Speakers -> Nat] /\ \A d \in Speakers : d # e => counter'[d] = counter[d]
          /\ counter[e] \in Nat /\ UNCHANGED <<expiring, endless>> /\ request[p].at # "expire"
      BY <1>3, <2>2 DEF CountsOK, Cha!EmployeeWrites, Cha!At
    <3>2. CASE counter[e] = 0
      <4> DEFINE x == [at |-> "expire", with |-> e, id |-> nextId, read |-> <<>>]
      <4>1. request' = [request EXCEPT ![p] = x]
        BY <1>3, <2>2, <3>1, <3>2 DEF Cha!EmployeeWrites, Cha!Begins
      <4>2. x.at = "expire" /\ x.with = e
        OBVIOUS
      <4> HIDE DEF x
      <4>3. request' = [q \in Workers |-> request'[q]] /\ request'[p] = x /\ \A q \in Workers : q # p => request'[q] = request[q]
        BY <4>1 DEF CountsOK
      <4>4. QED
        BY <3>1, <4>2, <4>3 DEF CountsOK, Cha!CounterExpires, Cha!Busy, Cha!At
    <3>3. CASE counter[e] > 0
      <4>1. request' = [q \in Workers |-> request'[q]] /\ \A q \in Workers : q # p => request'[q] = request[q]
        BY <1>3, <2>2, <3>1, <3>3 DEF Cha!EmployeeWrites, Cha!Begins, CountsOK
      <4>2. QED
        BY <3>1, <3>3, <4>1 DEF CountsOK, Cha!CounterExpires, Cha!Busy, Cha!At
    <3>4. QED
      BY <3>1, <3>2, <3>3
  <2>3. QED
    BY <1>3, <2>1, <2>2 DEF Cha!EmployeeWrites
<1>4. ASSUME NEW p \in Workers, Cha!Expire(p) PROVE CountsOK'
  <2> DEFINE x == [at |-> "load", with |-> request[p].with, id |-> request[p].id, read |-> request[p].read]
  <2>1. /\ request' = [request EXCEPT ![p] = x] /\ UNCHANGED counter
        /\ \/ expiring' = expiring \cup {request[p].with} /\ endless' = endless
           \/ expiring' = expiring /\ endless' = endless \cup {request[p].with}
    BY <1>4 DEF Cha!Expire, Cha!Goes, Cha!Reads
  <2> HIDE DEF x
  <2>2. request' = [q \in Workers |-> request'[q]] /\ \A q \in Workers : q # p => request'[q] = request[q]
    BY <2>1 DEF CountsOK
  <2>3. QED
    BY <2>1, <2>2 DEF CountsOK, Cha!CounterExpires, Cha!Busy, Cha!At
<1>5. ASSUME NEW p \in Workers,
             \/ \E s \in Seats : Cha!ClientWrites(p, s) \/ Cha!Assign(p, s)
             \/ Cha!BossWrites(p) \/ Cha!Load(p) \/ Cha!Trim(p) \/ Cha!Ask(p) \/ Cha!Save(p)
             \/ \E b \in Boards : Cha!BoardDiscuss(p, b)
             \/ \E g \in Groups : Cha!GroupMentor(p, g)
             \/ Cha!Discussed(p) \/ Cha!Posted(p) \/ Cha!Cool(p)
             \/ \E m \in Personas : Cha!Upsert(p, m)
      PROVE  CountsOK'
  <2>1. request[p].at # "expire"
    BY <1>5 DEF Cha!At, Cha!ClientWrites, Cha!Assign, Cha!BossWrites, Cha!Load, Cha!Trim, Cha!Ask, Cha!Save, Cha!BoardDiscuss,
                Cha!GroupMentor, Cha!Begin, Cha!Discussed, Cha!Posted, Cha!Cool, Cha!Upsert
  <2>2. UNCHANGED <<counter, expiring, endless>>
    BY <1>5 DEF Cha!ClientWrites, Cha!Assign, Cha!BossWrites, Cha!Load, Cha!Trim, Cha!Ask, Cha!Save, Cha!BoardDiscuss,
                Cha!GroupMentor, Cha!Begin, Cha!Discussed, Cha!Posted, Cha!Cool, Cha!Upsert, Cha!redis, Cha!limits
  <2>3. CASE UNCHANGED request
    BY <1>1, <2>2, <2>3 DEF CountsOK
  <2>4. CASE \E x : request' = [request EXCEPT ![p] = x]
    BY <1>2, <2>1, <2>2, <2>4
  <2>5. UNCHANGED request \/ \E x : request' = [request EXCEPT ![p] = x]
    <3>1. CASE \/ \E s \in Seats : Cha!ClientWrites(p, s) \/ Cha!Assign(p, s)
               \/ Cha!BossWrites(p) \/ Cha!Trim(p) \/ Cha!Ask(p) \/ Cha!Save(p)
               \/ Cha!Discussed(p) \/ Cha!Posted(p) \/ Cha!Cool(p)
      BY <3>1 DEF Cha!ClientWrites, Cha!Assign, Cha!BossWrites, Cha!Trim, Cha!Ask, Cha!Save,
                  Cha!Discussed, Cha!Posted, Cha!Cool, Cha!Begins, Cha!Ends, Cha!Goes, Cha!Reads
    <3>2. CASE \/ \E b \in Boards : Cha!BoardDiscuss(p, b)
               \/ \E g \in Groups : Cha!GroupMentor(p, g)
               \/ \E m \in Personas : Cha!Upsert(p, m)
      BY <3>2 DEF Cha!BoardDiscuss, Cha!GroupMentor, Cha!Begin, Cha!Upsert, Cha!Begins, Cha!Ends
    <3>3. CASE Cha!Load(p)
      BY <3>3 DEF Cha!Load, Cha!Reads
    <3>4. QED
      BY <1>5, <3>1, <3>2, <3>3
  <2>6. QED
    BY <2>3, <2>4, <2>5
<1>6. ASSUME \/ UNCHANGED Cha!vars
             \/ \E x \in extracting : Cha!Extract(x)
             \/ \E c \in Cha!Conversations : Cha!Silence(c)
             \/ \E k \in Cha!Cooled : Cha!CoolingEnds(k)
             \/ \E s \in Seats \cup {None} : Cha!Talk(s)
             \/ \E s \in Seats, m \in Personas : Cha!CreateRequest(s, m) \/ Cha!UpdateRequest(s, m)
             \/ \E s \in Seats : Cha!DeleteRequest(s)
             \/ \E g \in Groups : Cha!Join(g) \/ Cha!DeleteGroup(g)
             \/ \E g \in Groups, a \in {"active", "inactive"} : Cha!UpdateGroup(g, a)
      PROVE  CountsOK'
  <2>1. UNCHANGED <<counter, expiring, endless, request>>
    BY <1>6 DEF Cha!vars, Cha!Extract, Cha!Silence, Cha!CoolingEnds, Cha!Talk, Cha!CreateRequest, Cha!UpdateRequest, Cha!DeleteRequest,
                Cha!Seated, Cha!Join, Cha!DeleteGroup, Cha!UpdateGroup, Cha!Grouped, Cha!redis, Cha!limits
  <2>2. QED
    BY <1>1, <2>1 DEF CountsOK
<1>7. ASSUME NEW e \in Speakers, Cha!WindowEnds(e) PROVE CountsOK'
  <2>1. /\ counter' = [counter EXCEPT ![e] = 0] /\ expiring' = expiring \ {e} /\ UNCHANGED <<request, endless>>
    BY <1>7 DEF Cha!WindowEnds, Cha!limits
  <2>2. counter' \in [Speakers -> Nat] /\ counter'[e] = 0 /\ \A d \in Speakers : d # e => counter'[d] = counter[d]
    BY <2>1 DEF CountsOK
  <2>3. QED
    BY <2>1, <2>2 DEF CountsOK, Cha!CounterExpires, Cha!Busy, Cha!At
<1>8. ASSUME Cha!Crash PROVE CountsOK'
  <2>1. /\ UNCHANGED <<counter, expiring>> /\ request' = [p \in Workers |-> request'[p]]
        /\ endless' = endless \cup {request[p].with : p \in {q \in Workers : Cha!At(q, "expire")}}
    BY <1>8 DEF Cha!Crash, Cha!redis
  <2>2. QED
    BY <1>1, <2>1 DEF Cha!At
<1>9. QED
  BY <1>3, <1>4, <1>5, <1>6, <1>7, <1>8 DEF Cha!Next

\* A counter of the rate limit has an end or is about to get one, unless the
\* call that sets it failed or the process ended first (chat.go:301).
THEOREM CounterExpires == Cha!Spec => []Cha!CounterExpires
<1>1. Cha!Init => CountsOK
  BY DEF Cha!Init, CountsOK, Cha!CounterExpires
<1>2. CountsOK /\ [Cha!Next]_Cha!vars => CountsOK'
  BY CountsNext
<1>3. CountsOK => Cha!CounterExpires
  BY DEF CountsOK
<1>4. QED
  BY <1>1, <1>2, <1>3, PTL DEF Cha!Spec

\* Work that is done holds back the next, as long as nothing failed.
HeldBack == faults \in Nat /\ (faults = 0 => done \subseteq cooling /\ repeated = {})

\* No second discussion of the board, and no second post to a group, begins
\* within the window of one that ended, unless a call failed or the process
\* ended (service.go:159, scheduler_jobs.go:258).
THEOREM WorkedOncePerWindow == Cha!Spec => []Cha!WorkedOncePerWindow
<1>1. Cha!Init => HeldBack
  BY DEF Cha!Init, HeldBack
<1>2. HeldBack /\ [Cha!Next]_Cha!vars => HeldBack'
  <2> SUFFICES ASSUME HeldBack, [Cha!Next]_Cha!vars PROVE HeldBack'
    OBVIOUS
  <2>1. faults' \in Nat /\ (faults' = 0 => faults = 0 /\ ~Cha!Fault)
    <3>1. faults' = faults \/ faults' = faults + 1
      BY DEF Cha!Fault, Cha!Written, Cha!NotCooling, Cha!Next, Cha!vars, Cha!EmployeeWrites, Cha!ClientWrites, Cha!Assign,
             Cha!BossWrites, Cha!Expire, Cha!Load, Cha!Trim, Cha!Ask, Cha!Save, Cha!BoardDiscuss, Cha!GroupMentor, Cha!Begin,
             Cha!Discussed, Cha!Posted, Cha!Cool, Cha!Upsert, Cha!Extract, Cha!Silence, Cha!WindowEnds, Cha!CoolingEnds, Cha!Talk,
             Cha!CreateRequest, Cha!UpdateRequest, Cha!DeleteRequest, Cha!Seated, Cha!Join, Cha!DeleteGroup, Cha!UpdateGroup,
             Cha!Grouped, Cha!Crash
    <3>2. QED
      BY <3>1 DEF HeldBack, Cha!Fault
  <2>2. CASE UNCHANGED <<cooling, done, repeated>>
    BY <2>1, <2>2 DEF HeldBack
  <2>3. ASSUME NEW p \in Workers, NEW k, Cha!Begin(p, k) PROVE HeldBack'
    BY <2>1, <2>3 DEF HeldBack, Cha!Begin, Cha!NotCooling, Cha!redis
  <2>4. ASSUME NEW p \in Workers, Cha!Cool(p) PROVE HeldBack'
    BY <2>1, <2>4 DEF HeldBack, Cha!Cool, Cha!Written
  <2>5. ASSUME NEW k, Cha!CoolingEnds(k) PROVE HeldBack'
    BY <2>1, <2>5 DEF HeldBack, Cha!CoolingEnds
  <2>6. CASE Cha!Crash
    BY <2>1, <2>6 DEF HeldBack, Cha!Crash
  <2>7. CASE \/ UNCHANGED Cha!vars
             \/ \E p \in Workers :
                   \/ \E e \in Speakers : Cha!EmployeeWrites(p, e)
                   \/ \E s \in Seats : Cha!ClientWrites(p, s) \/ Cha!Assign(p, s)
                   \/ Cha!BossWrites(p) \/ Cha!Expire(p) \/ Cha!Load(p) \/ Cha!Trim(p) \/ Cha!Ask(p) \/ Cha!Save(p)
                   \/ Cha!Discussed(p) \/ Cha!Posted(p)
                   \/ \E m \in Personas : Cha!Upsert(p, m)
             \/ \E x \in extracting : Cha!Extract(x)
             \/ \E c \in Cha!Conversations : Cha!Silence(c)
             \/ \E e \in Speakers : Cha!WindowEnds(e)
             \/ \E s \in Seats \cup {None} : Cha!Talk(s)
             \/ \E s \in Seats, m \in Personas : Cha!CreateRequest(s, m) \/ Cha!UpdateRequest(s, m)
             \/ \E s \in Seats : Cha!DeleteRequest(s)
             \/ \E g \in Groups : Cha!Join(g) \/ Cha!DeleteGroup(g)
             \/ \E g \in Groups, a \in {"active", "inactive"} : Cha!UpdateGroup(g, a)
    <3>1. UNCHANGED <<cooling, done, repeated>>
      BY <2>7 DEF Cha!vars, Cha!redis, Cha!posts, Cha!EmployeeWrites, Cha!ClientWrites, Cha!Assign, Cha!BossWrites, Cha!Expire, Cha!Load,
             Cha!Trim, Cha!Ask, Cha!Save, Cha!Discussed, Cha!Posted, Cha!Upsert, Cha!Extract, Cha!Silence, Cha!WindowEnds, Cha!Talk,
             Cha!CreateRequest, Cha!UpdateRequest, Cha!DeleteRequest, Cha!Seated, Cha!Join, Cha!DeleteGroup, Cha!UpdateGroup,
             Cha!Grouped
    <3>2. QED
      BY <2>2, <3>1
  <2>8. QED
    BY <2>3, <2>4, <2>5, <2>6, <2>7 DEF Cha!Next, Cha!BoardDiscuss, Cha!GroupMentor
<1>3. HeldBack => Cha!WorkedOncePerWindow
  BY DEF HeldBack, Cha!WorkedOncePerWindow
<1>4. QED
  BY <1>1, <1>2, <1>3, PTL DEF Cha!Spec

=============================================================================
