-------------------------- MODULE MCBusiness_proofs --------------------------
(***************************************************************************)
(* The properties that the runs of MCBusiness check, for every behaviour   *)
(* of the sum: a behaviour of the sum in which an instance runs is one of  *)
(* its component, and the theorem about the component gives the property.  *)
(***************************************************************************)
EXTENDS MCBusiness, TLAPS

-----------------------------------------------------------------------------
(* Behaviours of the instances                                             *)

\* The instances of each component.
OfRecords == FirstDesks \cup SecondDesks \cup {"lines"}
OfProgress == {"nightly", "mean", "metric", "monthly", "twice"}
OfSignals == {"numbered", "unknown", "partial", "engine"}
OfSync == {"storage"}
OfAccounts == {"profile", "company", "joining"}
OfWatch == {"evenings", "evening", "advice", "week"}
OfOnboarding == {"onboarding"}
OfChat == {"mentor", "board", "group"}
OfMemory == {"faulty", "longer"}
OfModel == {"blockers", "nights", "team"}
OfRoles == {"events", "plans"}

\* An instance that is chosen begins as its component does, and moves as it does.
LEMMA Begins ==
    Init => /\ which \in OfRecords => InitRecords
            /\ which \in OfProgress => InitProgress
            /\ which \in OfSignals => InitSignals
            /\ which \in OfSync => InitSync
            /\ which \in OfAccounts => InitAccounts
            /\ which \in OfWatch => InitWatch
            /\ which \in OfOnboarding => InitOnboarding
            /\ which \in OfChat => InitChat
            /\ which \in OfMemory => InitMemory
            /\ which \in OfModel => InitModel
            /\ which \in OfRoles => InitRoles
  BY DEF
     Init, FirstDesks, SecondDesks, InitRecords, InitProgress, InitSignals, InitSync,
     InitAccounts, InitWatch, InitOnboarding, InitChat, InitMemory, InitModel, InitRoles,
     OfRecords, OfProgress, OfSignals, OfSync, OfAccounts, OfWatch, OfOnboarding, OfChat,
     OfMemory, OfModel, OfRoles

LEMMA Moves ==
    /\ UNCHANGED vars =>
          UNCHANGED <<which,
                      recordVars, progressVars, signalVars, syncVars, accountVars, watchVars,
                      onboardingVars, chatVars, memoryVars, modelVars, roleVars, work, faults>>
    /\ Next => /\ which' = which
               /\ which \in OfRecords => NextRecords
               /\ which \in OfProgress => NextProgress
               /\ which \in OfSignals => NextSignals
               /\ which \in OfSync => NextSync
               /\ which \in OfAccounts => NextAccounts
               /\ which \in OfWatch => NextWatch
               /\ which \in OfOnboarding => NextOnboarding
               /\ which \in OfChat => NextChat
               /\ which \in OfMemory => NextMemory
               /\ which \in OfModel => NextModel
               /\ which \in OfRoles => NextRoles
<1>1. UNCHANGED vars =>
          UNCHANGED <<which,
                      recordVars, progressVars, signalVars, syncVars, accountVars, watchVars,
                      onboardingVars, chatVars, memoryVars, modelVars, roleVars, work, faults>>
  BY DEF vars, companyVars, knowledgeVars
<1>2. QED
  BY <1>1 DEF
     Next, FirstRecords, SecondRecords, ThirdRecords, FirstDesks, SecondDesks, NextRecords,
     NextProgress, NextSignals, NextSync, NextAccounts, NextWatch, NextOnboarding, NextChat,
     NextMemory, NextModel, NextRoles, OfRecords, OfProgress, OfSignals, OfSync, OfAccounts,
     OfWatch, OfOnboarding, OfChat, OfMemory, OfModel, OfRoles

\* A behaviour of the sum in which an instance of Accounts runs is one of Accounts.
LEMMA AccountsRun ==
    Spec => /\ []~(which = "profile") \/ First!Acc!Spec
            /\ []~(which = "company") \/ Second!Acc!Spec
            /\ []~(which = "joining") \/ Third!Acc!Spec
<1>1. Init => /\ ~(which = "profile") \/ First!Acc!Init
              /\ ~(which = "company") \/ Second!Acc!Init
              /\ ~(which = "joining") \/ Third!Acc!Init
  BY Begins DEF OfAccounts, InitAccounts
<1>2. [Next]_vars =>
              /\ which = "profile" => (which = "profile")' /\ [First!Acc!Next]_First!Acc!vars
              /\ ~(which = "profile") => (~(which = "profile"))'
              /\ which = "company" => (which = "company")' /\ [Second!Acc!Next]_Second!Acc!vars
              /\ ~(which = "company") => (~(which = "company"))'
              /\ which = "joining" => (which = "joining")' /\ [Third!Acc!Next]_Third!Acc!vars
              /\ ~(which = "joining") => (~(which = "joining"))'
  BY Moves DEF OfAccounts, NextAccounts, accountVars,
     First!Acc!vars, First!Acc!settings, First!Acc!people, First!Acc!companies, First!Acc!bounds,
     Second!Acc!vars, Second!Acc!settings, Second!Acc!people, Second!Acc!companies,
     Second!Acc!bounds, Third!Acc!vars, Third!Acc!settings, Third!Acc!people,
     Third!Acc!companies, Third!Acc!bounds
<1>3. QED
  BY <1>1, <1>2, PTL DEF Spec, First!Acc!Spec, Second!Acc!Spec, Third!Acc!Spec

\* And so for Signals,
LEMMA SignalsRun ==
    Spec => /\ []~(which = "numbered") \/ First!Sig!Spec
            /\ []~(which = "unknown") \/ Second!Sig!Spec
            /\ []~(which = "partial") \/ Third!Sig!Spec
            /\ []~(which = "engine") \/ Fourth!Sig!Spec
<1>1. Init => /\ ~(which = "numbered") \/ First!Sig!Init
              /\ ~(which = "unknown") \/ Second!Sig!Init
              /\ ~(which = "partial") \/ Third!Sig!Init
              /\ ~(which = "engine") \/ Fourth!Sig!Init
  BY Begins DEF OfSignals, InitSignals
<1>2. [Next]_vars =>
              /\ which = "numbered" => (which = "numbered")' /\ [First!Sig!Next]_First!Sig!vars
              /\ ~(which = "numbered") => (~(which = "numbered"))'
              /\ which = "unknown" => (which = "unknown")' /\ [Second!Sig!Next]_Second!Sig!vars
              /\ ~(which = "unknown") => (~(which = "unknown"))'
              /\ which = "partial" => (which = "partial")' /\ [Third!Sig!Next]_Third!Sig!vars
              /\ ~(which = "partial") => (~(which = "partial"))'
              /\ which = "engine" => (which = "engine")' /\ [Fourth!Sig!Next]_Fourth!Sig!vars
              /\ ~(which = "engine") => (~(which = "engine"))'
  BY Moves DEF OfSignals, NextSignals, signalVars,
     First!Sig!vars, First!Sig!tables, First!Sig!ghosts, Second!Sig!vars, Second!Sig!tables,
     Second!Sig!ghosts, Third!Sig!vars, Third!Sig!tables, Third!Sig!ghosts, Fourth!Sig!vars,
     Fourth!Sig!tables, Fourth!Sig!ghosts
<1>3. QED
  BY <1>1, <1>2, PTL DEF Spec, First!Sig!Spec, Second!Sig!Spec, Third!Sig!Spec, Fourth!Sig!Spec

\* for Sync
LEMMA SyncRuns ==
    Spec => /\ []~(which = "storage") \/ First!Syn!Spec
<1>1. Init => /\ ~(which = "storage") \/ First!Syn!Init
  BY Begins DEF OfSync, InitSync
<1>2. [Next]_vars =>
              /\ which = "storage" => (which = "storage")' /\ [First!Syn!Next]_First!Syn!vars
              /\ ~(which = "storage") => (~(which = "storage"))'
  BY Moves DEF OfSync, NextSync, syncVars,
     First!Syn!vars, First!Syn!bounds, First!Syn!history
<1>3. QED
  BY <1>1, <1>2, PTL DEF Spec, First!Syn!Spec

\* for Records
LEMMA RecordsRun ==
    Spec => /\ []~(which \in FirstDesks) \/ One!Rec!Spec
            /\ []~(which \in SecondDesks) \/ Two!Rec!Spec
            /\ []~(which = "lines") \/ Three!Rec!Spec
<1>1. Init => /\ ~(which \in FirstDesks) \/ One!Rec!Init
              /\ ~(which \in SecondDesks) \/ Two!Rec!Init
              /\ ~(which = "lines") \/ Three!Rec!Init
  BY Begins DEF OfRecords, InitRecords, FirstDesks, SecondDesks
<1>2. [Next]_vars =>
              /\ which \in FirstDesks => (which \in FirstDesks)' /\ [One!Rec!Next]_One!Rec!vars
              /\ ~(which \in FirstDesks) => (~(which \in FirstDesks))'
              /\ which \in SecondDesks => (which \in SecondDesks)' /\ [Two!Rec!Next]_Two!Rec!vars
              /\ ~(which \in SecondDesks) => (~(which \in SecondDesks))'
              /\ which = "lines" => (which = "lines")' /\ [Three!Rec!Next]_Three!Rec!vars
              /\ ~(which = "lines") => (~(which = "lines"))'
  BY Moves DEF OfRecords, NextRecords, FirstRecords, SecondRecords, ThirdRecords, FirstDesks, SecondDesks, Clients, recordVars,
     One!Rec!vars, One!Rec!ghosts, One!Rec!Next, Two!Rec!vars, Two!Rec!ghosts, Two!Rec!Next,
     Three!Rec!vars, Three!Rec!ghosts, Three!Rec!Next
<1>3. QED
  BY <1>1, <1>2, PTL DEF Spec, One!Rec!Spec, Two!Rec!Spec, Three!Rec!Spec

\* for Progress
LEMMA ProgressRuns ==
    Spec => /\ []~(which = "nightly") \/ One!Pro!Spec
            /\ []~(which = "mean") \/ Two!Pro!Spec
            /\ []~(which = "metric") \/ Two!Pro!Spec
            /\ []~(which = "monthly") \/ Three!Pro!Spec
            /\ []~(which = "twice") \/ Four!Pro!Spec
<1>1. Init => /\ ~(which = "nightly") \/ One!Pro!Init
              /\ ~(which = "mean") \/ Two!Pro!Init
              /\ ~(which = "metric") \/ Two!Pro!Init
              /\ ~(which = "monthly") \/ Three!Pro!Init
              /\ ~(which = "twice") \/ Four!Pro!Init
  BY Begins DEF OfProgress, InitProgress
<1>2. [Next]_vars =>
              /\ which = "nightly" => (which = "nightly")' /\ [One!Pro!Next]_One!Pro!vars
              /\ ~(which = "nightly") => (~(which = "nightly"))'
              /\ which = "mean" => (which = "mean")' /\ [Two!Pro!Next]_Two!Pro!vars
              /\ ~(which = "mean") => (~(which = "mean"))'
              /\ which = "metric" => (which = "metric")' /\ [Two!Pro!Next]_Two!Pro!vars
              /\ ~(which = "metric") => (~(which = "metric"))'
              /\ which = "monthly" => (which = "monthly")' /\ [Three!Pro!Next]_Three!Pro!vars
              /\ ~(which = "monthly") => (~(which = "monthly"))'
              /\ which = "twice" => (which = "twice")' /\ [Four!Pro!Next]_Four!Pro!vars
              /\ ~(which = "twice") => (~(which = "twice"))'
  BY Moves DEF OfProgress, NextProgress, progressVars,
     One!Pro!vars, One!Pro!recordVars, Two!Pro!vars, Two!Pro!recordVars, Two!Pro!Next,
     Three!Pro!vars, Three!Pro!recordVars, Four!Pro!vars, Four!Pro!recordVars
<1>3. QED
  BY <1>1, <1>2, PTL DEF Spec, One!Pro!Spec, Two!Pro!Spec, Three!Pro!Spec, Four!Pro!Spec

\* for Watch
LEMMA WatchRuns ==
    Spec => /\ []~(which = "evenings") \/ One!Wat!Spec
            /\ []~(which = "evening") \/ Two!Wat!Spec
            /\ []~(which = "week") \/ Four!Wat!Spec
<1>1. Init => /\ ~(which = "evenings") \/ One!Wat!Init
              /\ ~(which = "evening") \/ Two!Wat!Init
              /\ ~(which = "week") \/ Four!Wat!Init
  BY Begins DEF OfWatch, InitWatch
<1>2. [Next]_vars =>
              /\ which = "evenings" => (which = "evenings")' /\ [One!Wat!Next]_One!Wat!vars
              /\ ~(which = "evenings") => (~(which = "evenings"))'
              /\ which = "evening" => (which = "evening")' /\ [Two!Wat!Next]_Two!Wat!vars
              /\ ~(which = "evening") => (~(which = "evening"))'
              /\ which = "week" => (which = "week")' /\ [Four!Wat!Next]_Four!Wat!vars
              /\ ~(which = "week") => (~(which = "week"))'
  BY Moves DEF OfWatch, NextWatch, watchVars,
     One!Wat!vars, One!Wat!rows, One!Wat!bounds, One!Wat!history, Two!Wat!vars, Two!Wat!rows,
     Two!Wat!bounds, Two!Wat!history, Four!Wat!vars, Four!Wat!rows, Four!Wat!bounds,
     Four!Wat!history
<1>3. QED
  BY <1>1, <1>2, PTL DEF Spec, One!Wat!Spec, Two!Wat!Spec, Four!Wat!Spec

\* for Onboarding,
LEMMA OnboardingRuns ==
    Spec => /\ []~(which = "onboarding") \/ One!Onb!Spec
<1>1. Init => /\ ~(which = "onboarding") \/ One!Onb!Init
  BY Begins DEF OfOnboarding, InitOnboarding
<1>2. [Next]_vars =>
              /\ which = "onboarding" => (which = "onboarding")' /\ [One!Onb!Next]_One!Onb!vars
              /\ ~(which = "onboarding") => (~(which = "onboarding"))'
  BY Moves DEF OfOnboarding, NextOnboarding, onboardingVars,
     One!Onb!vars, One!Onb!history, One!Onb!tables
<1>3. QED
  BY <1>1, <1>2, PTL DEF Spec, One!Onb!Spec

\* for Chat
LEMMA ChatRuns ==
    Spec => /\ []~(which = "mentor") \/ First!Cha!Spec
            /\ []~(which = "board") \/ Second!Cha!Spec
            /\ []~(which = "group") \/ Third!Cha!Spec
<1>1. Init => /\ ~(which = "mentor") \/ First!Cha!Init
              /\ ~(which = "board") \/ Second!Cha!Init
              /\ ~(which = "group") \/ Third!Cha!Init
  BY Begins DEF OfChat, InitChat
<1>2. [Next]_vars =>
              /\ which = "mentor" => (which = "mentor")' /\ [First!Cha!Next]_First!Cha!vars
              /\ ~(which = "mentor") => (~(which = "mentor"))'
              /\ which = "board" => (which = "board")' /\ [Second!Cha!Next]_Second!Cha!vars
              /\ ~(which = "board") => (~(which = "board"))'
              /\ which = "group" => (which = "group")' /\ [Third!Cha!Next]_Third!Cha!vars
              /\ ~(which = "group") => (~(which = "group"))'
  BY Moves DEF OfChat, NextChat, chatVars,
     First!Cha!vars, First!Cha!redis, First!Cha!tables, First!Cha!said, First!Cha!limits,
     First!Cha!posts, Second!Cha!vars, Second!Cha!redis, Second!Cha!tables, Second!Cha!said,
     Second!Cha!limits, Second!Cha!posts, Third!Cha!vars, Third!Cha!redis, Third!Cha!tables,
     Third!Cha!said, Third!Cha!limits, Third!Cha!posts
<1>3. QED
  BY <1>1, <1>2, PTL DEF Spec, First!Cha!Spec, Second!Cha!Spec, Third!Cha!Spec

\* for Memory
LEMMA MemoryRuns ==
    Spec => /\ []~(which = "faulty") \/ First!Mem!Spec
            /\ []~(which = "longer") \/ Second!Mem!Spec
<1>1. Init => /\ ~(which = "faulty") \/ First!Mem!Init
              /\ ~(which = "longer") \/ Second!Mem!Init
  BY Begins DEF OfMemory, InitMemory
<1>2. [Next]_vars =>
              /\ which = "faulty" => (which = "faulty")' /\ [First!Mem!Next]_First!Mem!vars
              /\ ~(which = "faulty") => (~(which = "faulty"))'
              /\ which = "longer" => (which = "longer")' /\ [Second!Mem!Next]_Second!Mem!vars
              /\ ~(which = "longer") => (~(which = "longer"))'
  BY Moves DEF OfMemory, NextMemory, memoryVars,
     First!Mem!vars, Second!Mem!vars
<1>3. QED
  BY <1>1, <1>2, PTL DEF Spec, First!Mem!Spec, Second!Mem!Spec

\* for WorldModel
LEMMA ModelRuns ==
    Spec => /\ []~(which = "blockers") \/ First!Wor!Spec
            /\ []~(which = "nights") \/ Second!Wor!Spec
            /\ []~(which = "team") \/ Fourth!Wor!Spec
<1>1. Init => /\ ~(which = "blockers") \/ First!Wor!Init
              /\ ~(which = "nights") \/ Second!Wor!Init
              /\ ~(which = "team") \/ Fourth!Wor!Init
  BY Begins DEF OfModel, InitModel
<1>2. [Next]_vars =>
              /\ which = "blockers" => (which = "blockers")' /\ [First!Wor!Next]_First!Wor!vars
              /\ ~(which = "blockers") => (~(which = "blockers"))'
              /\ which = "nights" => (which = "nights")' /\ [Second!Wor!Next]_Second!Wor!vars
              /\ ~(which = "nights") => (~(which = "nights"))'
              /\ which = "team" => (which = "team")' /\ [Fourth!Wor!Next]_Fourth!Wor!vars
              /\ ~(which = "team") => (~(which = "team"))'
  BY Moves DEF OfModel, NextModel, modelVars,
     First!Wor!vars, Second!Wor!vars, Fourth!Wor!vars
<1>3. QED
  BY <1>1, <1>2, PTL DEF Spec, First!Wor!Spec, Second!Wor!Spec, Fourth!Wor!Spec

\* and for Roles.
LEMMA RolesRun ==
    Spec => /\ []~(which = "events") \/ First!Rol!Spec
            /\ []~(which = "plans") \/ Second!Rol!Spec
<1>1. Init => /\ ~(which = "events") \/ First!Rol!Init
              /\ ~(which = "plans") \/ Second!Rol!Init
  BY Begins DEF OfRoles, InitRoles
<1>2. [Next]_vars =>
              /\ which = "events" => (which = "events")' /\ [First!Rol!Next]_First!Rol!vars
              /\ ~(which = "events") => (~(which = "events"))'
              /\ which = "plans" => (which = "plans")' /\ [Second!Rol!Next]_Second!Rol!vars
              /\ ~(which = "plans") => (~(which = "plans"))'
  BY Moves DEF OfRoles, NextRoles, roleVars,
     First!Rol!vars, Second!Rol!vars
<1>3. QED
  BY <1>1, <1>2, PTL DEF Spec, First!Rol!Spec, Second!Rol!Spec

-----------------------------------------------------------------------------
(* Accounts                                                                *)

\* In an instance that changes settings, a setting is lost only to a request that
\* had read the row before: its write-back is the only way.
THEOREM SettingsAreKept == Spec => []SettingsKept
<1>1. /\ First!Acc!Spec => []First!Acc!SettingsKept
      /\ Second!Acc!Spec => []Second!Acc!SettingsKept
  BY First!SettingsStay, Second!SettingsStay
<1>2. QED
  BY <1>1, AccountsRun, PTL DEF SettingsKept

\* While people join, a Telegram user who was welcomed stays linked, unless two send
\* a code at the same time.
THEOREM WelcomedStay == Spec => []WelcomedStays
<1>1. Third!Acc!Spec => []Third!Acc!WelcomedStays
  BY Third!WelcomeHolds, NoChat
<1>2. QED
  BY <1>1, AccountsRun, PTL DEF WelcomedStays

\* While people join and sign up, no tenant is without its boss, unless its sign-up
\* overlapped another or broke off.
THEOREM TenantsAreOwned == Spec => []TenantsHaveBosses
<1>1. Third!Acc!Spec => []Third!Acc!TenantsHaveBosses
  BY Third!TenantsOwned, NoEmail
<1>2. QED
  BY <1>1, AccountsRun, PTL DEF TenantsHaveBosses

-----------------------------------------------------------------------------
(* Signals and Sync                                                        *)

Persons == [id : Nat, no : Nat]

\* The webhooks of the instances are of the kind the theorems are about.
LEMMA Deliverable ==
    /\ <<Person(0, 7)>> \in Seq(Persons) /\ <<>> \in Seq(Persons)
    /\ \A h \in {h1, h2} : /\ BothGiven[h].of \in Seq(Persons) \ {<<>>}
                           /\ OneGiven[h].of \in Seq(Persons) \ {<<>>}
                           /\ Risk[h].of \in Seq(Persons) \ {<<>>}
<1>1. \A i, n \in Nat : Person(i, n) \in Persons
  BY DEF Person, Persons
<1>2. /\ \A p \in Persons : <<p>> \in Seq(Persons) \ {<<>>}
      /\ \A p, q \in Persons : <<p, q>> \in Seq(Persons) \ {<<>>}
  OBVIOUS
<1>3. /\ <<Person(5, 7)>> \in Seq(Persons) \ {<<>>} /\ <<Person(5, 7), Person(6, 8)>> \in Seq(Persons) \ {<<>>}
      /\ <<Person(5, 0)>> \in Seq(Persons) \ {<<>>} /\ <<Person(0, 7), Person(5, 7)>> \in Seq(Persons) \ {<<>>}
      /\ <<Person(0, 7)>> \in Seq(Persons)
  BY <1>1, <1>2
<1>4. \A h \in {h1, h2} :
         /\ BothGiven[h].of \in {<<Person(5, 7)>>, <<Person(5, 7), Person(6, 8)>>}
         /\ OneGiven[h].of \in {<<Person(5, 0)>>, <<Person(0, 7), Person(5, 7)>>}
         /\ Risk[h].of = <<Person(5, 7)>>
  BY DEF BothGiven, OneGiven, Risk, Bodies
<1>5. <<>> \in Seq(Persons)
  OBVIOUS
<1>6. QED
  BY <1>3, <1>4, <1>5, Zenon

\* A webhook that is recorded has become its rows, but for those that failed.
THEOREM RecordedAreApplied == Spec => []RecordedWasApplied
<1>1. First!Bodies /\ Second!Bodies /\ Third!Bodies /\ Fourth!Bodies
  BY Deliverable DEF Persons, First!Bodies, Second!Bodies, Third!Bodies, Fourth!Bodies,
     First!Sig!Identity, Second!Sig!Identity, Third!Sig!Identity, Fourth!Sig!Identity
<1>2. /\ First!Sig!Spec => []First!Sig!RecordedWasApplied
      /\ Second!Sig!Spec => []Second!Sig!RecordedWasApplied
      /\ Third!Sig!Spec => []Third!Sig!RecordedWasApplied
      /\ Fourth!Sig!Spec => []Fourth!Sig!RecordedWasApplied
  BY <1>1, First!RecordedIsMade, Second!RecordedIsMade, Third!RecordedIsMade, Fourth!RecordedIsMade
<1>3. QED
  BY <1>2, SignalsRun, PTL DEF RecordedWasApplied

\* A webhook becomes its rows once, however often it is delivered, unless two
\* deliveries overlapped or one was cut off.
THEOREM AppliedAreOnce == Spec => []AppliedOnce
<1>1. First!Bodies /\ Second!Bodies /\ Third!Bodies /\ Fourth!Bodies
  BY Deliverable DEF Persons, First!Bodies, Second!Bodies, Third!Bodies, Fourth!Bodies,
     First!Sig!Identity, Second!Sig!Identity, Third!Sig!Identity, Fourth!Sig!Identity
<1>2. /\ First!Sig!Spec => []First!Sig!AppliedOnce
      /\ Second!Sig!Spec => []Second!Sig!AppliedOnce
      /\ Third!Sig!Spec => []Third!Sig!AppliedOnce
      /\ Fourth!Sig!Spec => []Fourth!Sig!AppliedOnce
  BY <1>1, First!MadeOnce, Second!MadeOnce, Third!MadeOnce, Fourth!MadeOnce
<1>3. QED
  BY <1>2, SignalsRun, PTL DEF AppliedOnce

\* Two employees never stand for one person, in the instances whose webhooks give both
\* id and number.
THEOREM EmployeesStandForOnePerson == Spec => []OneEmployeePerPerson
<1>1. First!Bodies /\ Second!Bodies
  BY Deliverable DEF Persons, First!Bodies, Second!Bodies, First!Sig!Identity, Second!Sig!Identity
<1>2. PICK p, q : p = Person(5, 7) /\ q = Person(6, 8)
  OBVIOUS
<1>3. p.id = 5 /\ p.no = 7 /\ q.id = 6 /\ q.no = 8
  BY <1>2 DEF Person
<1>4. \A k \in {h1, h2} : \A i \in DOMAIN BothGiven[k].of : BothGiven[k].of[i] \in {p, q}
  <2>1. \A i : (i \in DOMAIN <<p>> => <<p>>[i] \in {p, q}) /\ (i \in DOMAIN <<p, q>> => <<p, q>>[i] \in {p, q})
    OBVIOUS
  <2>2. \A k \in {h1, h2} : BothGiven[k].of \in {<<p>>, <<p, q>>}
    BY <1>2 DEF BothGiven, Bodies
  <2>3. QED
    BY <2>1, <2>2
<1>5. First!BothKnown /\ Second!BothKnown
  BY <1>3, <1>4 DEF First!BothKnown, Second!BothKnown, First!Named, Second!Named, First!Distinct, Second!Distinct
<1>6. /\ First!Sig!Spec => []First!Sig!OneEmployeePerPerson
      /\ Second!Sig!Spec => []Second!Sig!OneEmployeePerPerson
  BY <1>1, <1>5, First!EmployeesStandForOne, Second!EmployeesStandForOne
<1>7. QED
  BY <1>6, SignalsRun, PTL DEF OneEmployeePerPerson

\* A change is missed by the manifests only if it came between a manifest and its
\* result, or its query failed.
THEOREM MissedAreExcused == Spec => []OnlyTheseAreMissed
<1>1. First!Syn!Spec => []First!Syn!OnlyTheseAreMissed
  BY First!MissedOnly DEF Tables
<1>2. QED
  BY <1>1, SyncRuns, PTL DEF OnlyTheseAreMissed

-----------------------------------------------------------------------------
(* Records and Onboarding                                                  *)

\* In an instance that runs at a desk, what was last given to a field is what the row
\* holds, until a form is saved that was older than the row.
THEOREM EditsStay == Spec => []EditsKept
<1>1. /\ One!Rec!Spec => []One!Rec!EditsKept
      /\ Two!Rec!Spec => []Two!Rec!EditsKept
      /\ Three!Rec!Spec => []Three!Rec!EditsKept
  BY One!EditsAreKept, Two!EditsAreKept, Three!EditsAreKept
<1>2. QED
  BY <1>1, RecordsRun, PTL DEF EditsKept

\* In an instance that runs at a desk, a row refers to rows that exist, or to NULL
\* after its row was deleted, and no two rows have one key.
THEOREM ReferencesStay == Spec => []ReferencesHold
<1>1. /\ One!Rec!Spec => []One!Rec!ReferencesHold
      /\ Two!Rec!Spec => []Two!Rec!ReferencesHold
      /\ Three!Rec!Spec => []Three!Rec!ReferencesHold
  BY One!ReferencesAlwaysHold, Two!ReferencesAlwaysHold, Three!ReferencesAlwaysHold
<1>2. QED
  BY <1>1, RecordsRun, PTL DEF ReferencesHold

Root == ""    \* the parent of the company

\* The plans and the lists of units of the instance are of the kind the theorems are about.
LEMMA Planned == One!Onb!PlansAssumption /\ One!Onb!UnitsAssumption
<1>1. One!Onb!PlansAssumption
  BY DEF One!Onb!PlansAssumption, One!Onb!Steps, Plans, Versions
<1>2. One!Onb!UnitsAssumption
  <2>1. \A r \in {"sales", "company", "field"} : r # NoRef
    BY DEF NoRef
  <2>2. \A r, q : Unit(r, q) = [ref |-> Unit(r, q).ref, parent |-> Unit(r, q).parent] /\ Unit(r, q).ref = r
    BY DEF Unit
  <2>3. \A v \in Versions :
           Units[v] \in {<<Unit("sales", "company"), Unit("company", Root), Unit("field", "sales")>>,
                         <<Unit("field", "sales"), Unit("sales", "company"), Unit("company", Root)>>}
    BY DEF Units, Versions, Root
  <2>4. \A v \in Versions :
           /\ Units[v] = <<Units[v][1], Units[v][2], Units[v][3]>>
           /\ \A i \in 1 .. 3 : Units[v][i] \in {Unit("sales", "company"), Unit("company", Root), Unit("field", "sales")}
    BY <2>3
  <2>5. \A v \in Versions : \A i \in 1 .. 3 :
           /\ Units[v][i] = [ref |-> Units[v][i].ref, parent |-> Units[v][i].parent]
           /\ Units[v][i].ref # NoRef
    BY <2>1, <2>2, <2>4
  <2>6. QED
    BY <2>4, <2>5, One!ThreeUnits
<1>3. QED
  BY <1>1, <1>2

\* In an onboarding, the units behind step 2 are those the boss confirmed, unless two
\* handlers were inside at once.
THEOREM UnitsStayAsConfirmed == Spec => []UnitsAsConfirmed
<1>1. One!Onb!Spec => []One!Onb!UnitsAsConfirmed
  BY Planned, NoSession, One!UnitsAreAsConfirmed
<1>2. QED
  BY <1>1, OnboardingRuns, PTL DEF UnitsAsConfirmed

\* In an onboarding, what is closed counts as completed with its profile and plan.
THEOREM ClosesAsPlanned == Spec => []ClosedAsPlanned
<1>1. One!Onb!Spec => []One!Onb!ClosedAsPlanned
  BY Planned, NoSession, One!OnboardingCloses
<1>2. QED
  BY <1>1, OnboardingRuns, PTL DEF ClosedAsPlanned

\* In an onboarding no step goes back, unless two handlers were inside at once.
THEOREM SessionsGoForward == Spec => SessionGoesForward
<1>1. One!Onb!Spec => [][One!Onb!GoesForward]_One!Onb!vars
  BY Planned, NoSession, One!OnboardingGoesForward
<1>2. which = "onboarding" /\ [Next]_vars /\ [One!Onb!GoesForward]_One!Onb!vars
         => [which = "onboarding" => One!Onb!GoesForward]_vars
  BY Moves DEF OfOnboarding, NextOnboarding, vars, companyVars, onboardingVars, One!Onb!vars
<1>3. ~(which = "onboarding") => [which = "onboarding" => One!Onb!GoesForward]_vars
  OBVIOUS
<1>4. which = "onboarding" /\ [Next]_vars => (which = "onboarding")'
  BY Moves
<1>5. ~(which = "onboarding") /\ [Next]_vars => (~(which = "onboarding"))'
  BY Moves
<1>6. QED
  BY <1>1, <1>2, <1>3, <1>4, <1>5, OnboardingRuns, PTL DEF SessionGoesForward, Spec

-----------------------------------------------------------------------------
(* Progress                                                                *)

\* The theorems about Progress are about the instances.
LEMMA Measured ==
    /\ One!Pro!Spec => []One!Pro!SnapshotWasTrue /\ []One!Pro!OneFailureOneLoss
    /\ Two!Pro!Spec => []Two!Pro!SnapshotWasTrue /\ []Two!Pro!OneFailureOneLoss
    /\ Three!Pro!Spec => []Three!Pro!OneFailureOneLoss
    /\ Four!Pro!Spec => []Four!Pro!OneFailureOneLoss
<1>1. 2 \in Nat \ {0} /\ 1 \in Nat \ {0} /\ {2} \subseteq Nat /\ {0, 2} \subseteq Nat
  OBVIOUS
<1>2. QED
  BY <1>1, Measurable, One!SnapshotsAreTrue, One!FailuresTakeNoOthers, Two!SnapshotsAreTrue,
     Two!FailuresTakeNoOthers, Three!FailuresTakeNoOthers, Four!FailuresTakeNoOthers

\* In an instance that runs the nightly job, the snapshot of a date is a progress the
\* goal had during a run of that date.
THEOREM SnapshotsStayTrue == Spec => []SnapshotWasTrue
  BY Measured, ProgressRuns, PTL DEF SnapshotWasTrue

\* In an instance that runs a job, a run that has ended has measured every member but
\* those that failed or were not there all the time.
THEOREM OneFailureTakesOne == Spec => []OneFailureOneLoss
  BY Measured, ProgressRuns, PTL DEF OneFailureOneLoss

\* In the instance of the metric, the latest value is never replaced by one observed
\* before it.
THEOREM LatestStays == Spec => LatestNeverBackwards
<1>1. Two!Pro!Spec => /\ Two!Pro!LatestNeverBackwards
                      /\ [](value # <<>> => Two!Pro!GetLatestMetricValue(value).observed \in Nat)
  BY Two!LatestIsKept, Two!LatestIsNumber
<1>2. DEFINE Forward == value # <<>> =>
        Two!Pro!GetLatestMetricValue(value').observed >= Two!Pro!GetLatestMetricValue(value).observed
<1>3. (value # <<>> => Two!Pro!GetLatestMetricValue(value).observed \in Nat) /\ [Forward]_Two!Pro!vars
         => [which = "metric" => Forward]_vars
  BY DEF Two!Pro!vars
<1>4. ~(which = "metric") => [which = "metric" => Forward]_vars
  OBVIOUS
<1>5. [which = "metric" => Forward]_vars =>
        [which = "metric" /\ value # <<>> =>
          Two!Pro!GetLatestMetricValue(value').observed >= Two!Pro!GetLatestMetricValue(value).observed]_vars
  OBVIOUS
<1>6. QED
  BY <1>1, <1>3, <1>4, <1>5, ProgressRuns, PTL DEF LatestNeverBackwards, Two!Pro!LatestNeverBackwards

-----------------------------------------------------------------------------
(* Watch                                                                   *)

\* In an instance of the evenings, the summary the boss is first sent of a date is the
\* one that is kept, unless two overlapped, or one failed or was cut off.
THEOREM SummariesStay == Spec => []StoredIsTold
<1>1. One!Wat!Spec => []One!Wat!StoredIsTold
  <2>1. 2 \in Nat \ {0}
    OBVIOUS
  <2>2. QED
    BY <2>1, One!StoredWasTold
<1>2. Two!Wat!Spec => []Two!Wat!StoredIsTold
  <2>1. 1 \in Nat \ {0}
    OBVIOUS
  <2>2. QED
    BY <2>1, Two!StoredWasTold
<1>3. QED
  BY <1>1, <1>2, WatchRuns, PTL DEF StoredIsTold

\* In the instance of the week, what is found of an employee's reports is so when it is
\* read: the days missed in a row, and whether there were negative reports in a row.
THEOREM AlertsStayTrue == Spec => AlertsAreTrue
<1>1. Four!Wat!Spec => [][Four!Wat!AlertsAreTrue]_Four!Wat!vars
  <2>1. 5 \in Nat \ {0} /\ 3 \in Nat /\ 2 \in Nat \ {0} /\ {"negative", "other"} \subseteq {"negative", "other"}
    OBVIOUS
  <2>2. QED
    BY <2>1, Four!AlertsAreRight
<1>2. which = "week" /\ [Next]_vars /\ [Four!Wat!AlertsAreTrue]_Four!Wat!vars
         => [which = "week" => Four!Wat!AlertsAreTrue]_vars
  BY Moves DEF OfWatch, NextWatch, vars, companyVars, watchVars, Four!Wat!vars, Four!Wat!rows,
     Four!Wat!bounds, Four!Wat!history
<1>3. ~(which = "week") => [which = "week" => Four!Wat!AlertsAreTrue]_vars
  OBVIOUS
<1>4. which = "week" /\ [Next]_vars => (which = "week")'
  BY Moves
<1>5. ~(which = "week") /\ [Next]_vars => (~(which = "week"))'
  BY Moves
<1>6. QED
  BY <1>1, <1>2, <1>3, <1>4, <1>5, WatchRuns, PTL DEF AlertsAreTrue, Spec

\* What the boss is told is so: the summaries, and what is found of the reports.
THEOREM ToldTheTruth == Spec => BossIsToldTheTruth
<1>1. QED
  BY SummariesStay, AlertsStayTrue, PTL DEF BossIsToldTheTruth

-----------------------------------------------------------------------------
(* Chat                                                                    *)

\* In an instance of conversations, what was said is kept, remembered once, or goes as
\* the code means it to, unless two handlers or a failed call come between.
THEOREM SaidStays == Spec => []SaidIsKept
<1>1. 3 \in Nat /\ 2 \in Nat \ {0} /\ 1 \in Nat \ {0} /\ 2 \in Nat
  OBVIOUS
<1>2. First!ChatBase
  BY <1>1, NoTalk DEF First!ChatBase, First!Cha!Conversations, Owner, MessagesKept
<1>3. Second!ChatBase
  BY <1>1, NoTalk DEF Second!ChatBase, Second!Cha!Conversations, Owner, MessagesKept
<1>4. /\ First!Cha!Spec => []First!Cha!SaidIsKept
      /\ Second!Cha!Spec => []Second!Cha!SaidIsKept
  BY <1>2, <1>3, First!SaidIsKept, Second!SaidIsKept
<1>5. QED
  BY <1>4, ChatRuns, PTL DEF SaidIsKept

\* In the instance of an employee, a counter of the rate limit has an end, or is about
\* to get one, unless the call that sets it failed or the process ended first.
THEOREM CountersExpire == Spec => []CounterExpires
  BY First!CounterExpires, ChatRuns, PTL DEF CounterExpires

\* In the instances of the board and of a group, no second discussion and no second post
\* begins within the window of one that ended, unless a call failed.
THEOREM WorkedOnce == Spec => []WorkedOncePerWindow
  BY Second!WorkedOncePerWindow, Third!WorkedOncePerWindow, ChatRuns, PTL DEF WorkedOncePerWindow

-----------------------------------------------------------------------------
(* Memory and WorldModel                                                   *)

\* In an instance of the memories, one that was merged is covered by the row it refers
\* to, which is recalled in its place.
THEOREM MergedAreRecalled == Spec => []StillRecalled
<1>1. 4 \in Nat /\ 5 \in Nat
  OBVIOUS
<1>2. /\ First!Mem!Spec => []First!Mem!StillRecalled
      /\ Second!Mem!Spec => []Second!Mem!StillRecalled
  BY <1>1, First!StillRecalled, Second!StillRecalled DEF First!MemoryBase, Second!MemoryBase
<1>3. QED
  BY <1>2, MemoryRuns, PTL DEF StillRecalled

\* In an instance of blockers, every mention of a blocker is counted once, on its way, or
\* dropped by a failed write or a crash, and each second open row comes from a search that
\* failed or overlapped another mention's write.
THEOREM MentionsAreCounted == Spec => []CountedInOneRow
  BY First!CountedInOneRow, Fourth!CountedInOneRow, ModelRuns, PTL DEF CountedInOneRow

\* In the instance of the nights, a skill mentioned five times, and within the week, is
\* shown as long as the decay ran at most thirteen times since.
THEOREM OftenMentionedAreShown == Spec => []OftenMentionedShown
<1>1. 7 \in 0 .. 7
  OBVIOUS
<1>2. Second!Wor!Spec => []Second!Wor!OftenMentionedShown
  BY <1>1, Second!OftenMentionedShown DEF Second!SkillsBase
<1>3. QED
  BY <1>2, ModelRuns, PTL DEF OftenMentionedShown

-----------------------------------------------------------------------------
(* Roles                                                                   *)

\* The plans of the instances are of the kind the theorems are about.
LEMMA Plannable == First!RolesBase /\ Second!RolesBase
<1>1. \A p \in TwoPlans : DOMAIN p = RoleIds /\ \A r \in RoleIds :
         p[r] \in {<<"cron", "report">>, <<"report">>, <<"alert">>, <<>>}
  BY DEF TwoPlans, RoleIds
<1>2. {"cron", "report", "alert"} \subseteq First!Rol!Triggers
  BY DEF First!Rol!Triggers, EventTypes, Cron
<1>3. \A S : {"cron", "report", "alert"} \subseteq S =>
         {<<"cron", "report">>, <<"report">>, <<"alert">>, <<>>} \subseteq Seq(S)
  OBVIOUS
<1>4. {<<"cron", "report">>, <<"report">>, <<"alert">>, <<>>} \subseteq First!Rol!Configs
  BY <1>2, <1>3 DEF First!Rol!Configs
<1>5. "ours" \in Tenants
  BY DEF Tenants
<1>6. First!Rol!PlansAssumption /\ First!Rol!BossAssumption
  BY <1>1, <1>4, <1>5, NoConfig DEF First!Rol!PlansAssumption, First!Rol!BossAssumption, RolePlans, Boss
<1>7. Second!Rol!Configs = First!Rol!Configs
  BY DEF First!Rol!Configs, Second!Rol!Configs, First!Rol!Triggers, Second!Rol!Triggers
<1>8. Second!Rol!PlansAssumption /\ Second!Rol!BossAssumption
  BY <1>6, <1>7 DEF First!Rol!PlansAssumption, First!Rol!BossAssumption,
     Second!Rol!PlansAssumption, Second!Rol!BossAssumption
<1>9. QED
  BY <1>6, <1>8, NoConfig DEF First!RolesBase, Second!RolesBase

\* In each instance of the roles what runs and what is stored agree: what runs has an active
\* row, every active row runs with all its triggers, and an agent works with the configuration
\* of its row, with the excuses of RunsAsStored.
THEOREM RolesRunAsStored == Spec => []RunningAsStored
<1>1. /\ First!Rol!Spec => []First!Rol!RunningAsStored
      /\ Second!Rol!Spec => []Second!Rol!RunningAsStored
  BY Plannable, First!RunsAsStored, Second!RunsAsStored
<1>2. QED
  BY <1>1, RolesRun, PTL DEF RunningAsStored

\* In each instance the bus handles what it has received once and in order, and drops it for
\* no handler that was subscribed by then.
THEOREM EventsAreHandledOnce == Spec => []HandledOnce
<1>1. First!Rol!Spec => []First!Rol!HandledOnce
  BY Plannable, First!EventsHandledOnce
<1>2. QED
  BY <1>1, RolesRun, PTL DEF HandledOnce

=============================================================================
