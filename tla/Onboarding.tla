----------------------------- MODULE Onboarding -----------------------------
(***************************************************************************)
(* The chat-native onboarding of one tenant, internal/onboarding: each     *)
(* message of the boss is handled in a goroutine of its own, which takes a *)
(* lock in Redis, loads the session, and leads the dialogue, generates the *)
(* plan, changes it or applies the part of it the boss confirms.           *)
(*                                                                         *)
(* Every call to Redis and PostgreSQL is a step, so handlers interleave    *)
(* between them, and may fail or be cut off there; an LLM call belongs to  *)
(* the step that stores what it returns.                                   *)
(***************************************************************************)
EXTENDS Naturals, Sequences

CONSTANTS
    Handlers,    \* goroutines handling messages of the boss
    Fields,      \* required fields of CollectedData
    Versions,    \* the versions a part of the plan may have
    Plans,       \* the plans the LLM may return: a version of each part
    Units,       \* the units the part shown in step 2 lists: [ref, parent]
    NoRef,       \* the empty ref_id: no parent
    Nil,
    SlowCalls,   \* whether a handler may take longer than the lock's TTL
    RedisFaults, CallFaults, Crashes,
    MaxMessages  \* bound on the messages of the boss

VARIABLES
    session,    \* onboarding_sessions: the tenant's row, or Nil
    lock,       \* whether onboarding:lock:{tenant} exists in Redis
    completed,  \* tenants.onboarding_completed_at is set
    org,        \* the row of organizations, or Nil
    units,      \* the rows of org_units
    hnd,        \* the local state of each handler
    confirmed,  \* history: the version the boss confirmed of each part, or Nil
    raced,      \* history: whether two handlers have ever been inside at once
    messages    \* history: the number of messages so far

vars == <<session, lock, completed, org, units, hnd, confirmed, raced, messages>>
history == <<confirmed, raced, messages>>
tables == <<completed, org, units>>

Steps == 1..4   \* mentor and board, structure, policies, schedule

PlansAssumption == Plans \subseteq [Steps -> Versions]
UnitsAssumption ==
    \A v \in Versions :
        /\ Len(Units[v]) \in Nat \ {0} /\ DOMAIN Units[v] = 1 .. Len(Units[v])
        /\ \A i \in DOMAIN Units[v] :
             /\ Units[v][i] = [ref |-> Units[v][i].ref, parent |-> Units[v][i].parent]
             /\ Units[v][i].ref # NoRef
NilAssumption == Nil \notin Versions
FlagAssumption ==
    {SlowCalls, RedisFaults, CallFaults, Crashes} \subseteq BOOLEAN
MessagesAssumption == MaxMessages \in Nat

-----------------------------------------------------------------------------
(* Rows                                                                    *)

Row(status, step, collected, plan) ==
    [status |-> status, step |-> step, collected |-> collected, plan |-> plan]

\* UpdateOrganizationFromOnboarding sets every column: those a caller does not
\* name become NULL.  Without a row it changes nothing.
OrgRow(profile, board, framework, culture) ==
    [profile |-> profile, board |-> board, framework |-> framework, culture |-> culture]

SetOrg(row) == org' = IF org = Nil THEN Nil ELSE row

Idle == [pc |-> "idle", ok |-> FALSE, got |-> Nil, todo |-> {}, made |-> {}]

\* A handler at loc with the session it loaded.
At(h, loc, got) ==
    hnd' = [hnd EXCEPT ![h].pc = loc, ![h].got = got]
Goto(h, loc) == hnd' = [hnd EXCEPT ![h].pc = loc]
Leave(h) == hnd' = [hnd EXCEPT ![h] = [Idle EXCEPT !.pc = "unlock"]]

Got(h) == hnd[h].got

\* Between taking the lock and giving it back.
Inside(h) == hnd[h].pc \notin {"idle", "lock"}

-----------------------------------------------------------------------------
(* HandleMessage                                                           *)

\* Messages reach the service as long as the tenant's onboarding is open.
Receive(h, ok) ==
    /\ hnd[h].pc = "idle"
    /\ ~ completed
    /\ messages < MaxMessages
    /\ messages' = messages + 1
    /\ hnd' = [hnd EXCEPT ![h] = [Idle EXCEPT !.pc = "lock", !.ok = ok]]
    /\ UNCHANGED <<session, lock, tables, confirmed, raced>>

Enter(h) ==
    /\ Goto(h, "load")
    /\ raced' = (raced \/ \E g \in Handlers \ {h} : Inside(g))

\* SetNX: a failing Redis lets the handler go on without the lock.
Lock(h) ==
    /\ hnd[h].pc = "lock"
    /\ \/ /\ ~ lock
          /\ lock' = TRUE
          /\ Enter(h)
       \/ /\ lock    \* "I'm still thinking about your last message"
          /\ hnd' = [hnd EXCEPT ![h] = Idle]
          /\ UNCHANGED <<lock, raced>>
       \/ /\ RedisFaults
          /\ Enter(h)
          /\ UNCHANGED lock
    /\ UNCHANGED <<session, tables, confirmed, messages>>

Route(s) ==
    CASE s.status = "onboarding"  -> "dialogue"
      [] s.status = "configuring" -> "plan"
      [] s.status = "confirming"  -> "confirm"
      [] OTHER -> "unlock"

Load(h) ==
    /\ hnd[h].pc = "load"
    /\ IF session = Nil THEN Goto(h, "create")
                        ELSE At(h, Route(session), session)
    /\ UNCHANGED <<session, lock, tables, history>>

\* tenant_id is unique: with a row in the table the insert fails.
Create(h) ==
    /\ hnd[h].pc = "create"
    /\ \/ /\ session = Nil
          /\ session' = Row("onboarding", 0, {}, Nil)
          /\ At(h, "dialogue", session')
       \/ /\ session # Nil
          /\ Leave(h)
          /\ UNCHANGED session
    /\ UNCHANGED <<lock, tables, history>>

\* UpdateOnboardingSession writes every column, from the handler's copy.
Save(row) == session' = row

\* ExtractInfo learns some fields; a failing extraction learns none.
Dialogue(h) ==
    /\ hnd[h].pc = "dialogue"
    /\ \E learned \in SUBSET Fields :
         LET all == Got(h).collected \cup learned
         IN  IF all = Fields
             THEN /\ Save(Row("configuring", 0, all, Got(h).plan))
                  /\ At(h, "plan", session')
             ELSE /\ Save(Row("onboarding", Got(h).step, all, Got(h).plan))
                  /\ Leave(h)
    /\ UNCHANGED <<lock, tables, history>>

\* GeneratePlan: a plan passes Validate or the handler fails.
Plan(h) ==
    /\ hnd[h].pc = "plan"
    /\ \E p \in Plans : Save(Row("confirming", 1, Got(h).collected, p))
    /\ Leave(h)
    /\ UNCHANGED <<lock, tables, history>>

\* Faulty variant: a changed plan is configured again.
ModifyRestarts(h) ==
    /\ hnd[h].pc = "confirm" /\ ~ hnd[h].ok
    /\ \E p \in Plans : Save(Row("configuring", 0, Got(h).collected, p))
    /\ Leave(h)
    /\ UNCHANGED <<lock, tables, history>>

\* Text that is no confirmation is a request to change the part shown.  The LLM
\* is told to keep the others and nothing compares them: any plan may come back.
Modify(h) ==
    /\ hnd[h].pc = "confirm" /\ ~ hnd[h].ok
    /\ \E p \in Plans : Save(Row("confirming", Got(h).step, Got(h).collected, p))
    /\ Leave(h)
    /\ UNCHANGED <<lock, tables, history>>

-----------------------------------------------------------------------------
(* Applying the part of the plan the boss confirms                         *)

Confirming(h, step) ==
    hnd[h].pc = "confirm" /\ hnd[h].ok /\ Got(h).step = step

\* Faulty variant: the last part is followed by another.
ApplyColumnNeverLast(h) ==
    LET plan == Got(h).plan
    IN  /\ \/ /\ Confirming(h, 1)
              /\ SetOrg(OrgRow({}, plan[1], Nil, Nil))
           \/ /\ Confirming(h, 3)
              /\ SetOrg(OrgRow({}, Nil, plan[3], Nil))
           \/ /\ Confirming(h, 4)
              /\ SetOrg(OrgRow({}, Nil, Nil, plan[4]))
        /\ Goto(h, "advance")
        /\ UNCHANGED <<session, lock, completed, units, history>>

\* Steps 1, 3 and 4 each write one column, and NULL into the others.
ApplyColumn(h) ==
    LET plan == Got(h).plan
    IN  /\ \/ /\ Confirming(h, 1)
              /\ SetOrg(OrgRow({}, plan[1], Nil, Nil))
              /\ Goto(h, "advance")
           \/ /\ Confirming(h, 3)
              /\ SetOrg(OrgRow({}, Nil, plan[3], Nil))
              /\ Goto(h, "advance")
           \/ /\ Confirming(h, 4)
              /\ SetOrg(OrgRow({}, Nil, Nil, plan[4]))
              /\ Goto(h, "complete")
        /\ UNCHANGED <<session, lock, completed, units, history>>

\* The units without a parent come first, then the others, each in the plan's order.
Before(list, i, k) ==
    LET root(n) == list[n].parent = NoRef
    IN  \/ root(i) /\ ~ root(k)
        \/ (root(i) <=> root(k)) /\ i < k

\* Faulty variant: the units of an earlier attempt stay.
ApplyOrgStructureAdds(h) ==
    /\ Confirming(h, 2)
    /\ hnd' = [hnd EXCEPT ![h].pc = "units", ![h].made = {},
                          ![h].todo = DOMAIN Units[Got(h).plan[2]]]
    /\ UNCHANGED <<session, lock, tables, history>>

ApplyOrgStructure(h) ==
    /\ Confirming(h, 2)
    /\ units' = {}
    /\ hnd' = [hnd EXCEPT ![h].pc = "units", ![h].made = {},
                          ![h].todo = DOMAIN Units[Got(h).plan[2]]]
    /\ UNCHANGED <<session, lock, completed, org, history>>

\* A unit whose parent has not been created yet becomes a root; a parent whose
\* row is gone makes the insert fail.
Parent(h, u) == IF u.parent \in hnd[h].made THEN u.parent ELSE NoRef
Creates(h, i) ==
    LET u == Units[Got(h).plan[2]][i]
        p == Parent(h, u)
        rest == hnd[h].todo \ {i}
    IN  \/ /\ p # NoRef => \E row \in units : row.ref = p /\ row.by = h
           /\ units' = units \cup {[ref |-> u.ref, parent |-> p, by |-> h]}
           /\ hnd' = [hnd EXCEPT ![h].todo = rest,
                                 ![h].made = @ \cup {u.ref},
                                 ![h].pc = IF rest = {} THEN "advance" ELSE "units"]
        \/ /\ p # NoRef /\ ~ \E row \in units : row.ref = p /\ row.by = h
           /\ Leave(h)
           /\ UNCHANGED units
CreateUnit(h) ==
    /\ hnd[h].pc = "units"
    /\ \E i \in hnd[h].todo :
          /\ \A k \in hnd[h].todo \ {i} : Before(Units[Got(h).plan[2]], i, k)
          /\ Creates(h, i)
    /\ UNCHANGED <<session, lock, completed, org, history>>

Confirmed(h) ==
    confirmed' = [confirmed EXCEPT ![Got(h).step] = Got(h).plan[Got(h).step]]

Advance(h) ==
    /\ hnd[h].pc = "advance"
    /\ Save(Row("confirming", Got(h).step + 1, Got(h).collected, Got(h).plan))
    /\ Leave(h)
    /\ Confirmed(h)
    /\ UNCHANGED <<lock, tables, raced, messages>>

\* Faulty variant: the session is closed without the tenant.
CompleteOrgClosesFirst(h) ==
    LET plan == Got(h).plan
    IN  /\ hnd[h].pc = "complete"
        /\ SetOrg(OrgRow(Got(h).collected, plan[1], plan[3], plan[4]))
        /\ Goto(h, "close")
        /\ Confirmed(h)
        /\ UNCHANGED <<session, lock, completed, units, raced, messages>>

\* completeOnboarding: three writes, one after the other.
CompleteOrg(h) ==
    LET plan == Got(h).plan
    IN  /\ hnd[h].pc = "complete"
        /\ SetOrg(OrgRow(Got(h).collected, plan[1], plan[3], plan[4]))
        /\ Goto(h, "finish")
        /\ Confirmed(h)
        /\ UNCHANGED <<session, lock, completed, units, raced, messages>>

CompleteTenant(h) ==
    /\ hnd[h].pc = "finish"
    /\ completed' = TRUE
    /\ Goto(h, "close")
    /\ UNCHANGED <<session, lock, org, units, history>>

CompleteSession(h) ==
    /\ hnd[h].pc = "close"
    /\ Save(Row("active", 4, Got(h).collected, Got(h).plan))
    /\ Leave(h)
    /\ UNCHANGED <<lock, tables, history>>

-----------------------------------------------------------------------------
(* The end of a handler, failures, time                                    *)

\* The deferred Del, whoever holds the lock now.
Unlock(h) ==
    /\ hnd[h].pc = "unlock"
    /\ hnd' = [hnd EXCEPT ![h] = Idle]
    /\ lock' = FALSE \/ (RedisFaults /\ UNCHANGED lock)
    /\ UNCHANGED <<session, tables, history>>

\* A failing call ends the handler; what it did before stays.
Fail(h) ==
    /\ CallFaults
    /\ Inside(h) /\ hnd[h].pc # "unlock"
    /\ Leave(h)
    /\ UNCHANGED <<session, lock, tables, history>>

\* The lock lives for sixty seconds.
Expire ==
    /\ lock
    /\ SlowCalls \/ ~ \E h \in Handlers : Inside(h)
    /\ lock' = FALSE
    /\ UNCHANGED <<session, tables, hnd, history>>

Crash ==
    /\ Crashes
    /\ hnd' = [h \in Handlers |-> Idle]
    /\ UNCHANGED <<session, lock, tables, history>>

Init ==
    /\ session = Nil /\ lock = FALSE /\ completed = FALSE
    /\ org \in {Nil, OrgRow({}, Nil, Nil, Nil)}
    /\ units = {}
    /\ hnd = [h \in Handlers |-> Idle]
    /\ confirmed = [s \in Steps |-> Nil]
    /\ raced = FALSE /\ messages = 0

HandlerStep(h) ==
    \/ Lock(h) \/ Load(h) \/ Create(h) \/ Dialogue(h) \/ Plan(h) \/ Modify(h)
    \/ ApplyColumn(h) \/ ApplyOrgStructure(h) \/ CreateUnit(h) \/ Advance(h)
    \/ CompleteOrg(h) \/ CompleteTenant(h) \/ CompleteSession(h)
    \/ Unlock(h) \/ Fail(h)

Next ==
    \/ \E h \in Handlers : HandlerStep(h)
    \/ \E h \in Handlers, ok \in BOOLEAN : Receive(h, ok)
    \/ Expire \/ Crash

Spec == Init /\ [][Next]_vars

-----------------------------------------------------------------------------
(* Properties                                                              *)

Sessions ==
    [status : {"onboarding", "configuring", "confirming", "active"},
     step : 0..4, collected : SUBSET Fields, plan : Plans \cup {Nil}]

OrgRows ==
    [profile : SUBSET Fields, board : Versions \cup {Nil},
     framework : Versions \cup {Nil}, culture : Versions \cup {Nil}]

\* Every variable holds a value of the program's types.
TypeOK ==
    /\ session \in Sessions \cup {Nil}
    /\ {lock, completed, raced} \subseteq BOOLEAN
    /\ org \in OrgRows \cup {Nil}
    /\ \A h \in Handlers : hnd[h].ok \in BOOLEAN /\ hnd[h].got \in Sessions \cup {Nil}
    /\ confirmed \in [Steps -> Versions \cup {Nil}]
    /\ messages \in 0..MaxMessages

\* How far a session has come.
Rank(s) ==
    IF s = Nil THEN 0
    ELSE CASE s.status = "onboarding"  -> 1
           [] s.status = "configuring" -> 2
           [] s.status = "confirming"  -> 2 + s.step
           [] OTHER -> 7

\* Unless two handlers were inside at once, the onboarding never goes back,
\* although every handler writes the whole row from a copy it loaded earlier,
\* and whatever fails in between (service.go:145, 192, 230, 272, 299); nor is an
\* answer of the boss forgotten (extractor.go:41-72).
GoesForward ==
    ~ raced' =>
        /\ Rank(session') >= Rank(session)
        /\ session # Nil => session.collected \subseteq session'.collected

PlannedTree(v) == {Units[v][i] : i \in DOMAIN Units[v]}

\* Every unit comes after the unit it belongs to, or that one is a root.
ParentsFirst(v) ==
    \A i \in DOMAIN Units[v] :
        Units[v][i].parent # NoRef =>
            \E j \in DOMAIN Units[v] :
                /\ Units[v][j].ref = Units[v][i].parent
                /\ j < i \/ Units[v][j].parent = NoRef

ActualTree == {[ref |-> row.ref, parent |-> row.parent] : row \in units}

\* The plan gives no two units one name.
Distinct(v) == \A i, j \in DOMAIN Units[v] : Units[v][i].ref = Units[v][j].ref => i = j

\* Behind step 2 the table holds exactly the units the boss confirmed, once
\* each if the plan names them so and under their parents if those are listed
\* first, although deleting and creating them takes many calls, each of which may
\* fail or be the last before a crash (service.go:359-411).
UnitsAsConfirmed ==
    ~ raced /\ Rank(session) > 4 =>
        /\ {row.ref : row \in units} = {u.ref : u \in PlannedTree(confirmed[2])}
        /\ Distinct(confirmed[2]) => \A r, s \in units : r.ref = s.ref => r = s
        /\ ParentsFirst(confirmed[2]) => ActualTree = PlannedTree(confirmed[2])

\* A tenant whose onboarding session is closed counts as completed and has the
\* profile it gave and the plan of its session, as far as it has a row for them,
\* although each confirmed part set the columns of the others to NULL
\* (service.go:458-518).
ClosedAsPlanned ==
    Rank(session) = 7 /\ ~ raced =>
        /\ completed
        /\ org # Nil => org = OrgRow(Fields, session.plan[1], session.plan[3], session.plan[4])

-----------------------------------------------------------------------------
(* What the documentation says and the code does not do                    *)

\* service.go:458: "completeOnboarding writes all collected data to the
\* organization".
CollectedWritten == completed => org # Nil /\ org.profile = session.collected

\* 2026-03-25-chat-native-onboarding-design.md:90: the lock "prevents
\* concurrent LLM calls from racing".
LockExclusive == ~ raced

\* The design, line 13: "boss reviews and adjusts each part before activation".
ActivatedAsReviewed ==
    completed /\ org # Nil => org.board = confirmed[1] /\ org.framework = confirmed[3]

\* service.go:434: "At step 4, we write everything that hasn't been written yet".
WrittenStaysWritten ==
    session # Nil /\ org # Nil /\ (\A h \in Handlers : ~ Inside(h)) =>
        /\ confirmed[1] # Nil => org.board # Nil
        /\ confirmed[3] # Nil => org.framework # Nil

\* service.go:368: "Create units in order (parents first, then children)".
UnitsUnderParents ==
    ~ raced /\ Rank(session) > 4 => ActualTree = PlannedTree(confirmed[2])

\* The design, line 265: "All writes within a step use a single database
\* transaction".
UnitsAllOrNothing ==
    (\A h \in Handlers : ~ Inside(h)) =>
        units = {} \/ \E v \in Versions : ActualTree = PlannedTree(v)

=============================================================================
