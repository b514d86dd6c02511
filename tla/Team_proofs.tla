------------------------------ MODULE Team_proofs ------------------------------
(***************************************************************************)
(* Onboarding, Records, Progress and Watch, side by side, and the theorems *)
(* about each, for every value of its constants.                           *)
(***************************************************************************)
EXTENDS Integers, Sequences, FiniteSets, FiniteSetTheorems, WellFoundedInduction, TLAPS

CONSTANTS
    None, Workers, MaxFaults,
    \* of Records
    People, Clients, MaxRecords, MaxEdits,
    \* of Progress
    Goals, KeyResults, Targets, Scored, Rules, Runs, MaxDates, MaxValues, MaxMoves, MaxStarts,
    \* of Watch
    Staff, Newcomers, Askers, Checkers, Moods, Window, Long, Critical, Often, Looked, InARow,
    MaxDays, MaxRuns, MaxSuggestions,
    \* of Onboarding
    Handlers, Fields, Versions, Plans, Units, NoRef, SlowCalls, RedisFaults, CallFaults, Crashes,
    MaxMessages

VARIABLES
    work, faults,
    row, nextRow, client, edits, given, clashed,
    today, goal, kr, snapshot, rule, staff, score, value, run, changes, started, had,
    day, local, active, report, summary, suggestion, runs, told, upset,
    session, lock, completed, org, units, hnd, confirmed, raced, messages

Onb == INSTANCE Onboarding WITH Nil <- None

-----------------------------------------------------------------------------
(* Onboarding: what is loaded stays as it was while nobody else is inside  *)

\* A session that has left the dialogue has every field, and the plan it confirms.
Loadable ==
    {s \in Onb!Sessions :
        /\ s.status # "onboarding" => s.collected = Fields
        /\ s.status \in {"confirming", "active"} => s.step \in 1 .. 4 /\ s.plan \in Plans}

Names == UNION {{Units[v][i].ref : i \in DOMAIN Units[v]} : v \in Versions}
Confirms == {"confirm", "advance", "units", "complete", "finish", "close"}
Places == {"idle", "lock", "load", "create", "dialogue", "plan", "unlock"} \cup Confirms
Handling ==
    [pc : Places, ok : BOOLEAN,
     got : Loadable \cup {None}, todo : SUBSET Nat, made : SUBSET Names]

\* Where a handler is tells what it has loaded.
AsRouted(l) ==
    /\ l.pc = "dialogue" => l.got \in Loadable /\ l.got.status = "onboarding"
    /\ l.pc = "plan" => l.got \in Loadable /\ l.got.status = "configuring"
    /\ l.pc \in Confirms => l.got \in Loadable /\ l.got.status = "confirming"
    /\ l.pc = "advance" => l.got.step \in 1 .. 3
    /\ l.pc = "units" => l.got.step = 2 /\ l.todo \subseteq DOMAIN Units[l.got.plan[2]]
    /\ l.pc \in {"complete", "finish", "close"} => l.got.step = 4

HandlersOK ==
    /\ hnd \in [Handlers -> Handling]
    /\ \A h \in Handlers : AsRouted(hnd[h])
OnbOK ==
    /\ session \in Loadable \cup {None} /\ raced \in BOOLEAN
    /\ confirmed \in [Onb!Steps -> Versions \cup {None}]
    /\ HandlersOK

Alone == ~raced => \A g, h \in Handlers : Onb!Inside(g) /\ Onb!Inside(h) => g = h

\* The session is as the handler that is inside loaded it, or not there.
Fresh ==
    ~raced => \A h \in Handlers :
        /\ hnd[h].pc \in {"dialogue", "plan"} \cup Confirms => hnd[h].got = session
        /\ hnd[h].pc = "create" => session = None

\* The last writes of a plan follow each other.
Ending ==
    ~raced => \A h \in Handlers :
        /\ hnd[h].pc \in {"finish", "close"} /\ org # None =>
              org = Onb!OrgRow(Fields, hnd[h].got.plan[1], hnd[h].got.plan[3], hnd[h].got.plan[4])
        /\ hnd[h].pc = "close" => completed

OnbInv == OnbOK /\ Alone /\ Fresh /\ Ending /\ Onb!ClosedAsPlanned

LEMMA HandlersMove ==
    ASSUME OnbOK, NEW h \in Handlers, NEW l \in Handling, AsRouted(l), hnd' = [hnd EXCEPT ![h] = l]
    PROVE  HandlersOK'
  BY DEF OnbOK, HandlersOK

LEMMA LocalMoves ==
    /\ \A l \in Handling, p \in Places : [l EXCEPT !.pc = p] \in Handling
    /\ \A l \in Handling, p \in Places, s \in Loadable : [l EXCEPT !.pc = p, !.got = s] \in Handling
    /\ Onb!Idle \in Handling /\ [Onb!Idle EXCEPT !.pc = "unlock"] \in Handling
  BY DEF Handling, Places, Onb!Idle

LEMMA OutsideRouted ==
    /\ AsRouted(Onb!Idle) /\ AsRouted([Onb!Idle EXCEPT !.pc = "unlock"])
    /\ [Onb!Idle EXCEPT !.pc = "unlock"].pc = "unlock"
  BY DEF AsRouted, Onb!Idle, Confirms

LEMMA LockKeeps ==
    ASSUME Onb!PlansAssumption, Onb!UnitsAssumption, None \notin Onb!Sessions,
           OnbInv, NEW h \in Handlers, Onb!Lock(h)
    PROVE  OnbInv'
<1> USE DEF Onb!Lock, Onb!Leave, Onb!Goto, Onb!At, Onb!Got, Onb!Save, Onb!Row, Onb!SetOrg, Onb!OrgRow,
            Onb!Confirmed, Onb!Confirming, Onb!Enter, Onb!history, Onb!tables
<1>1. /\ hnd \in [Handlers -> Handling] /\ hnd[h] \in Handling /\ AsRouted(hnd[h])
      /\ session \in Loadable \cup {None} /\ None \notin Loadable
  BY DEF OnbInv, OnbOK, HandlersOK, Loadable
<1>2. session' \in Loadable \cup {None} /\ raced' \in BOOLEAN
  BY <1>1 DEF OnbInv, OnbOK, Handling, AsRouted, Confirms, Loadable, Onb!Sessions
<1>3. confirmed' \in [Onb!Steps -> Versions \cup {None}]
  BY <1>1 DEF OnbInv, OnbOK, Handling, AsRouted, Confirms, Loadable, Onb!Sessions, Onb!Steps, Onb!PlansAssumption
<1>4. PICK l : /\ l \in Handling /\ AsRouted(l) /\ hnd' = [hnd EXCEPT ![h] = l]
  <2>1. AsRouted(Onb!Idle) /\ AsRouted([hnd[h] EXCEPT !.pc = "load"])
    BY <1>1 DEF AsRouted, Onb!Idle, Handling, Confirms
  <2>2. \/ hnd' = [hnd EXCEPT ![h] = [hnd[h] EXCEPT !.pc = "load"]]
        \/ hnd' = [hnd EXCEPT ![h] = Onb!Idle]
    BY <1>1
  <2>3. QED
    BY <1>1, <2>1, <2>2, LocalMoves DEF Places
<1>5. OnbOK'
  BY <1>2, <1>3, <1>4, HandlersMove DEF OnbInv, OnbOK
<1>6. Alone'
  <2>1. CASE Onb!Enter(h)
    BY <1>1, <2>1 DEF OnbInv, Alone, OnbOK, Onb!Inside
  <2>2. CASE hnd' = [hnd EXCEPT ![h] = Onb!Idle] /\ raced' = raced
    BY <1>1, <2>2 DEF OnbInv, Alone, Onb!Inside, Onb!Idle
  <2>3. QED
    BY <2>1, <2>2
<1>7. Fresh'
  BY <1>1 DEF OnbInv, Alone, Fresh, OnbOK, HandlersOK, Handling, AsRouted, Onb!Inside, Confirms, Onb!Idle, Onb!Route, Onb!Creates
<1>8. Ending'
  BY <1>1 DEF OnbInv, Alone, Fresh, Ending, OnbOK, HandlersOK, Handling, AsRouted, Onb!Inside, Confirms, Loadable, Onb!Idle, Onb!Route, Onb!Creates
<1>9. Onb!ClosedAsPlanned'
  BY <1>1 DEF OnbInv, Alone, Fresh, Ending, OnbOK, HandlersOK, Handling, AsRouted, Onb!Inside, Confirms, Loadable, Onb!ClosedAsPlanned, Onb!Rank, Onb!Idle, Onb!Route, Onb!Creates
<1>10. QED
  BY <1>5, <1>6, <1>7, <1>8, <1>9 DEF OnbInv

LEMMA LoadKeeps ==
    ASSUME Onb!PlansAssumption, Onb!UnitsAssumption, None \notin Onb!Sessions,
           OnbInv, NEW h \in Handlers, Onb!Load(h)
    PROVE  OnbInv'
<1> USE DEF Onb!Load, Onb!Leave, Onb!Goto, Onb!At, Onb!Got, Onb!Save, Onb!Row, Onb!SetOrg, Onb!OrgRow,
            Onb!Confirmed, Onb!Confirming, Onb!Enter, Onb!history, Onb!tables
<1>1. /\ hnd \in [Handlers -> Handling] /\ hnd[h] \in Handling /\ AsRouted(hnd[h])
      /\ session \in Loadable \cup {None} /\ None \notin Loadable
  BY DEF OnbInv, OnbOK, HandlersOK, Loadable
<1>2. session' \in Loadable \cup {None} /\ raced' \in BOOLEAN
  BY <1>1 DEF OnbInv, OnbOK, Handling, AsRouted, Confirms, Loadable, Onb!Sessions
<1>3. confirmed' \in [Onb!Steps -> Versions \cup {None}]
  BY <1>1 DEF OnbInv, OnbOK, Handling, AsRouted, Confirms, Loadable, Onb!Sessions, Onb!Steps, Onb!PlansAssumption
<1>4. PICK l : /\ l \in Handling /\ AsRouted(l) /\ hnd' = [hnd EXCEPT ![h] = l]
  <2>1. CASE session = None
    <3>1. hnd' = [hnd EXCEPT ![h] = [hnd[h] EXCEPT !.pc = "create"]]
      BY <1>1, <2>1
    <3>2. AsRouted([hnd[h] EXCEPT !.pc = "create"])
      BY <1>1 DEF AsRouted, Handling, Confirms
    <3>3. QED
      BY <1>1, <3>1, <3>2, LocalMoves DEF Places
  <2>2. CASE session # None
    <3>1. hnd' = [hnd EXCEPT ![h] = [hnd[h] EXCEPT !.pc = Onb!Route(session), !.got = session]]
      BY <1>1, <2>2
    <3>2. Onb!Route(session) \in {"dialogue", "plan", "confirm", "unlock"}
      BY DEF Onb!Route
    <3>3. AsRouted([hnd[h] EXCEPT !.pc = Onb!Route(session), !.got = session])
      BY <1>1, <2>2, <3>2 DEF AsRouted, Handling, Confirms, Onb!Route
    <3>4. QED
      BY <1>1, <2>2, <3>1, <3>2, <3>3, LocalMoves DEF Places, Confirms
  <2>3. QED
    BY <2>1, <2>2
<1>5. OnbOK'
  BY <1>2, <1>3, <1>4, HandlersMove DEF OnbInv, OnbOK
<1>6. Alone'
  BY <1>1 DEF OnbInv, Alone, OnbOK, HandlersOK, Handling, AsRouted, Onb!Inside, Confirms, Onb!Idle, Onb!Route, Onb!Creates
<1>7. Fresh'
  BY <1>1 DEF OnbInv, Alone, Fresh, OnbOK, HandlersOK, Handling, AsRouted, Onb!Inside, Confirms, Onb!Idle, Onb!Route, Onb!Creates
<1>8. Ending'
  BY <1>1 DEF OnbInv, Alone, Fresh, Ending, OnbOK, HandlersOK, Handling, AsRouted, Onb!Inside, Confirms, Loadable, Onb!Idle, Onb!Route, Onb!Creates
<1>9. Onb!ClosedAsPlanned'
  BY <1>1 DEF OnbInv, Alone, Fresh, Ending, OnbOK, HandlersOK, Handling, AsRouted, Onb!Inside, Confirms, Loadable, Onb!ClosedAsPlanned, Onb!Rank, Onb!Idle, Onb!Route, Onb!Creates
<1>10. QED
  BY <1>5, <1>6, <1>7, <1>8, <1>9 DEF OnbInv

LEMMA CreateKeeps ==
    ASSUME Onb!PlansAssumption, Onb!UnitsAssumption, None \notin Onb!Sessions,
           OnbInv, NEW h \in Handlers, Onb!Create(h)
    PROVE  OnbInv'
<1> USE DEF Onb!Create, Onb!Leave, Onb!Goto, Onb!At, Onb!Got, Onb!Save, Onb!Row, Onb!SetOrg, Onb!OrgRow,
            Onb!Confirmed, Onb!Confirming, Onb!Enter, Onb!history, Onb!tables
<1>1. /\ hnd \in [Handlers -> Handling] /\ hnd[h] \in Handling /\ AsRouted(hnd[h])
      /\ session \in Loadable \cup {None} /\ None \notin Loadable
  BY DEF OnbInv, OnbOK, HandlersOK, Loadable
<1>2. session' \in Loadable \cup {None} /\ raced' \in BOOLEAN
  BY <1>1 DEF OnbInv, OnbOK, Handling, AsRouted, Confirms, Loadable, Onb!Sessions
<1>3. confirmed' \in [Onb!Steps -> Versions \cup {None}]
  BY <1>1 DEF OnbInv, OnbOK, Handling, AsRouted, Confirms, Loadable, Onb!Sessions, Onb!Steps, Onb!PlansAssumption
<1>4. PICK l : /\ l \in Handling /\ AsRouted(l) /\ hnd' = [hnd EXCEPT ![h] = l]
  <2>1. CASE session = None
    <3>1. PICK s : s = session'
      OBVIOUS
    <3>5. s \in Loadable /\ s.status = "onboarding"
      BY <3>1, <2>1 DEF Loadable, Onb!Sessions
    <3>2. hnd' = [hnd EXCEPT ![h] = [hnd[h] EXCEPT !.pc = "dialogue", !.got = s]]
      BY <1>1, <2>1, <3>1
    <3>3. AsRouted([hnd[h] EXCEPT !.pc = "dialogue", !.got = s])
      BY <1>1, <3>5 DEF AsRouted, Handling, Confirms
    <3>4. QED
      BY <1>1, <3>2, <3>3, <3>5, LocalMoves DEF Places
  <2>2. CASE session # None
    BY <1>1, <2>2, LocalMoves, OutsideRouted
  <2>3. QED
    BY <2>1, <2>2
<1>5. OnbOK'
  BY <1>2, <1>3, <1>4, HandlersMove DEF OnbInv, OnbOK
<1>6. Alone'
  BY <1>1 DEF OnbInv, Alone, OnbOK, HandlersOK, Handling, AsRouted, Onb!Inside, Confirms, Onb!Idle, Onb!Route, Onb!Creates
<1>7. Fresh'
  BY <1>1 DEF OnbInv, Alone, Fresh, OnbOK, HandlersOK, Handling, AsRouted, Onb!Inside, Confirms, Onb!Idle, Onb!Route, Onb!Creates
<1>8. Ending'
  BY <1>1 DEF OnbInv, Alone, Fresh, Ending, OnbOK, HandlersOK, Handling, AsRouted, Onb!Inside, Confirms, Loadable, Onb!Idle, Onb!Route, Onb!Creates
<1>9. Onb!ClosedAsPlanned'
  BY <1>1 DEF OnbInv, Alone, Fresh, Ending, OnbOK, HandlersOK, Handling, AsRouted, Onb!Inside, Confirms, Loadable, Onb!ClosedAsPlanned, Onb!Rank, Onb!Idle, Onb!Route, Onb!Creates
<1>10. QED
  BY <1>5, <1>6, <1>7, <1>8, <1>9 DEF OnbInv

LEMMA DialogueKeeps ==
    ASSUME Onb!PlansAssumption, Onb!UnitsAssumption, None \notin Onb!Sessions,
           OnbInv, NEW h \in Handlers, Onb!Dialogue(h)
    PROVE  OnbInv'
<1> USE DEF Onb!Dialogue, Onb!Leave, Onb!Goto, Onb!At, Onb!Got, Onb!Save, Onb!Row, Onb!SetOrg, Onb!OrgRow,
            Onb!Confirmed, Onb!Confirming, Onb!Enter, Onb!history, Onb!tables
<1>1. /\ hnd \in [Handlers -> Handling] /\ hnd[h] \in Handling /\ AsRouted(hnd[h])
      /\ session \in Loadable \cup {None} /\ None \notin Loadable
  BY DEF OnbInv, OnbOK, HandlersOK, Loadable
<1>2. session' \in Loadable \cup {None} /\ raced' \in BOOLEAN
  BY <1>1 DEF OnbInv, OnbOK, Handling, AsRouted, Confirms, Loadable, Onb!Sessions
<1>3. confirmed' \in [Onb!Steps -> Versions \cup {None}]
  BY <1>1 DEF OnbInv, OnbOK, Handling, AsRouted, Confirms, Loadable, Onb!Sessions, Onb!Steps, Onb!PlansAssumption
<1>4. PICK l : /\ l \in Handling /\ AsRouted(l) /\ hnd' = [hnd EXCEPT ![h] = l]
  <2>1. PICK s : s = session'
    OBVIOUS
  <2>2. \/ hnd' = [hnd EXCEPT ![h] = [Onb!Idle EXCEPT !.pc = "unlock"]]
        \/ s.status = "configuring" /\ hnd' = [hnd EXCEPT ![h] = [hnd[h] EXCEPT !.pc = "plan", !.got = s]]
    <3>1. CASE hnd' = [hnd EXCEPT ![h] = [Onb!Idle EXCEPT !.pc = "unlock"]]
      BY <3>1
    <3>2. CASE s.status = "configuring" /\ hnd' = [hnd EXCEPT ![h].pc = "plan", ![h].got = s]
      BY <1>1, <3>2
    <3>3. QED
      BY <2>1, <3>1, <3>2
  <2>3. s \in Loadable
    BY <1>1, <2>1 DEF Handling, AsRouted, Loadable, Onb!Sessions
  <2>4. s.status = "configuring" => AsRouted([hnd[h] EXCEPT !.pc = "plan", !.got = s])
    BY <1>1, <2>3 DEF AsRouted, Handling, Confirms
  <2>5. QED
    BY <1>1, <2>2, <2>3, <2>4, LocalMoves, OutsideRouted DEF Places
<1>5. OnbOK'
  BY <1>2, <1>3, <1>4, HandlersMove DEF OnbInv, OnbOK
<1>6. Alone'
  BY <1>1 DEF OnbInv, Alone, OnbOK, HandlersOK, Handling, AsRouted, Onb!Inside, Confirms, Onb!Idle, Onb!Route, Onb!Creates
<1>7. Fresh'
  BY <1>1 DEF OnbInv, Alone, Fresh, OnbOK, HandlersOK, Handling, AsRouted, Onb!Inside, Confirms, Onb!Idle, Onb!Route, Onb!Creates
<1>8. Ending'
  BY <1>1 DEF OnbInv, Alone, Fresh, Ending, OnbOK, HandlersOK, Handling, AsRouted, Onb!Inside, Confirms, Loadable, Onb!Idle, Onb!Route, Onb!Creates
<1>9. Onb!ClosedAsPlanned'
  BY <1>1 DEF OnbInv, Alone, Fresh, Ending, OnbOK, HandlersOK, Handling, AsRouted, Onb!Inside, Confirms, Loadable, Onb!ClosedAsPlanned, Onb!Rank, Onb!Idle, Onb!Route, Onb!Creates
<1>10. QED
  BY <1>5, <1>6, <1>7, <1>8, <1>9 DEF OnbInv

LEMMA PlanKeeps ==
    ASSUME Onb!PlansAssumption, Onb!UnitsAssumption, None \notin Onb!Sessions,
           OnbInv, NEW h \in Handlers, Onb!Plan(h)
    PROVE  OnbInv'
<1> USE DEF Onb!Plan, Onb!Leave, Onb!Goto, Onb!At, Onb!Got, Onb!Save, Onb!Row, Onb!SetOrg, Onb!OrgRow,
            Onb!Confirmed, Onb!Confirming, Onb!Enter, Onb!history, Onb!tables
<1>1. /\ hnd \in [Handlers -> Handling] /\ hnd[h] \in Handling /\ AsRouted(hnd[h])
      /\ session \in Loadable \cup {None} /\ None \notin Loadable
  BY DEF OnbInv, OnbOK, HandlersOK, Loadable
<1>2. session' \in Loadable \cup {None} /\ raced' \in BOOLEAN
  BY <1>1 DEF OnbInv, OnbOK, Handling, AsRouted, Confirms, Loadable, Onb!Sessions
<1>3. confirmed' \in [Onb!Steps -> Versions \cup {None}]
  BY <1>1 DEF OnbInv, OnbOK, Handling, AsRouted, Confirms, Loadable, Onb!Sessions, Onb!Steps, Onb!PlansAssumption
<1>4. PICK l : /\ l \in Handling /\ AsRouted(l) /\ hnd' = [hnd EXCEPT ![h] = l]
  BY <1>1, LocalMoves, OutsideRouted
<1>5. OnbOK'
  BY <1>2, <1>3, <1>4, HandlersMove DEF OnbInv, OnbOK
<1>6. Alone'
  BY <1>1 DEF OnbInv, Alone, OnbOK, HandlersOK, Handling, AsRouted, Onb!Inside, Confirms, Onb!Idle, Onb!Route, Onb!Creates
<1>7. Fresh'
  BY <1>1 DEF OnbInv, Alone, Fresh, OnbOK, HandlersOK, Handling, AsRouted, Onb!Inside, Confirms, Onb!Idle, Onb!Route, Onb!Creates
<1>8. Ending'
  BY <1>1 DEF OnbInv, Alone, Fresh, Ending, OnbOK, HandlersOK, Handling, AsRouted, Onb!Inside, Confirms, Loadable, Onb!Idle, Onb!Route, Onb!Creates
<1>9. Onb!ClosedAsPlanned'
  BY <1>1 DEF OnbInv, Alone, Fresh, Ending, OnbOK, HandlersOK, Handling, AsRouted, Onb!Inside, Confirms, Loadable, Onb!ClosedAsPlanned, Onb!Rank, Onb!Idle, Onb!Route, Onb!Creates
<1>10. QED
  BY <1>5, <1>6, <1>7, <1>8, <1>9 DEF OnbInv

LEMMA ModifyKeeps ==
    ASSUME Onb!PlansAssumption, Onb!UnitsAssumption, None \notin Onb!Sessions,
           OnbInv, NEW h \in Handlers, Onb!Modify(h)
    PROVE  OnbInv'
<1> USE DEF Onb!Modify, Onb!Leave, Onb!Goto, Onb!At, Onb!Got, Onb!Save, Onb!Row, Onb!SetOrg, Onb!OrgRow,
            Onb!Confirmed, Onb!Confirming, Onb!Enter, Onb!history, Onb!tables
<1>1. /\ hnd \in [Handlers -> Handling] /\ hnd[h] \in Handling /\ AsRouted(hnd[h])
      /\ session \in Loadable \cup {None} /\ None \notin Loadable
  BY DEF OnbInv, OnbOK, HandlersOK, Loadable
<1>2. session' \in Loadable \cup {None} /\ raced' \in BOOLEAN
  BY <1>1 DEF OnbInv, OnbOK, Handling, AsRouted, Confirms, Loadable, Onb!Sessions
<1>3. confirmed' \in [Onb!Steps -> Versions \cup {None}]
  BY <1>1 DEF OnbInv, OnbOK, Handling, AsRouted, Confirms, Loadable, Onb!Sessions, Onb!Steps, Onb!PlansAssumption
<1>4. PICK l : /\ l \in Handling /\ AsRouted(l) /\ hnd' = [hnd EXCEPT ![h] = l]
  BY <1>1, LocalMoves, OutsideRouted
<1>5. OnbOK'
  BY <1>2, <1>3, <1>4, HandlersMove DEF OnbInv, OnbOK
<1>6. Alone'
  BY <1>1 DEF OnbInv, Alone, OnbOK, HandlersOK, Handling, AsRouted, Onb!Inside, Confirms, Onb!Idle, Onb!Route, Onb!Creates
<1>7. Fresh'
  BY <1>1 DEF OnbInv, Alone, Fresh, OnbOK, HandlersOK, Handling, AsRouted, Onb!Inside, Confirms, Onb!Idle, Onb!Route, Onb!Creates
<1>8. Ending'
  BY <1>1 DEF OnbInv, Alone, Fresh, Ending, OnbOK, HandlersOK, Handling, AsRouted, Onb!Inside, Confirms, Loadable, Onb!Idle, Onb!Route, Onb!Creates
<1>9. Onb!ClosedAsPlanned'
  BY <1>1 DEF OnbInv, Alone, Fresh, Ending, OnbOK, HandlersOK, Handling, AsRouted, Onb!Inside, Confirms, Loadable, Onb!ClosedAsPlanned, Onb!Rank, Onb!Idle, Onb!Route, Onb!Creates
<1>10. QED
  BY <1>5, <1>6, <1>7, <1>8, <1>9 DEF OnbInv

LEMMA ApplyColumnKeeps ==
    ASSUME Onb!PlansAssumption, Onb!UnitsAssumption, None \notin Onb!Sessions,
           OnbInv, NEW h \in Handlers, Onb!ApplyColumn(h)
    PROVE  OnbInv'
<1> USE DEF Onb!ApplyColumn, Onb!Leave, Onb!Goto, Onb!At, Onb!Got, Onb!Save, Onb!Row, Onb!SetOrg, Onb!OrgRow,
            Onb!Confirmed, Onb!Confirming, Onb!Enter, Onb!history, Onb!tables
<1>1. /\ hnd \in [Handlers -> Handling] /\ hnd[h] \in Handling /\ AsRouted(hnd[h])
      /\ session \in Loadable \cup {None} /\ None \notin Loadable
  BY DEF OnbInv, OnbOK, HandlersOK, Loadable
<1>2. session' \in Loadable \cup {None} /\ raced' \in BOOLEAN
  BY <1>1 DEF OnbInv, OnbOK, Handling, AsRouted, Confirms, Loadable, Onb!Sessions
<1>3. confirmed' \in [Onb!Steps -> Versions \cup {None}]
  BY <1>1 DEF OnbInv, OnbOK, Handling, AsRouted, Confirms, Loadable, Onb!Sessions, Onb!Steps, Onb!PlansAssumption
<1>4. PICK l : /\ l \in Handling /\ AsRouted(l) /\ hnd' = [hnd EXCEPT ![h] = l]
  <2>1. CASE Onb!Confirming(h, 1) \/ Onb!Confirming(h, 3)
    <3>1. AsRouted([hnd[h] EXCEPT !.pc = "advance"])
      BY <1>1, <2>1 DEF AsRouted, Handling, Confirms
    <3>2. hnd' = [hnd EXCEPT ![h] = [hnd[h] EXCEPT !.pc = "advance"]]
      BY <1>1, <2>1
    <3>3. QED
      BY <1>1, <3>1, <3>2, LocalMoves DEF Places, Confirms
  <2>2. CASE Onb!Confirming(h, 4)
    <3>1. AsRouted([hnd[h] EXCEPT !.pc = "complete"])
      BY <1>1, <2>2 DEF AsRouted, Handling, Confirms
    <3>2. hnd' = [hnd EXCEPT ![h] = [hnd[h] EXCEPT !.pc = "complete"]]
      BY <1>1, <2>2
    <3>3. QED
      BY <1>1, <3>1, <3>2, LocalMoves DEF Places, Confirms
  <2>3. QED
    BY <2>1, <2>2
<1>5. OnbOK'
  BY <1>2, <1>3, <1>4, HandlersMove DEF OnbInv, OnbOK
<1>6. Alone'
  BY <1>1 DEF OnbInv, Alone, OnbOK, HandlersOK, Handling, AsRouted, Onb!Inside, Confirms, Onb!Idle, Onb!Route, Onb!Creates
<1>7. Fresh'
  BY <1>1 DEF OnbInv, Alone, Fresh, OnbOK, HandlersOK, Handling, AsRouted, Onb!Inside, Confirms, Onb!Idle, Onb!Route, Onb!Creates
<1>8. Ending'
  BY <1>1 DEF OnbInv, Alone, Fresh, Ending, OnbOK, HandlersOK, Handling, AsRouted, Onb!Inside, Confirms, Loadable, Onb!Idle, Onb!Route, Onb!Creates
<1>9. Onb!ClosedAsPlanned'
  BY <1>1 DEF OnbInv, Alone, Fresh, Ending, OnbOK, HandlersOK, Handling, AsRouted, Onb!Inside, Confirms, Loadable, Onb!ClosedAsPlanned, Onb!Rank, Onb!Idle, Onb!Route, Onb!Creates
<1>10. QED
  BY <1>5, <1>6, <1>7, <1>8, <1>9 DEF OnbInv

LEMMA ApplyOrgStructureKeeps ==
    ASSUME Onb!PlansAssumption, Onb!UnitsAssumption, None \notin Onb!Sessions,
           OnbInv, NEW h \in Handlers, Onb!ApplyOrgStructure(h)
    PROVE  OnbInv'
<1> USE DEF Onb!ApplyOrgStructure, Onb!Leave, Onb!Goto, Onb!At, Onb!Got, Onb!Save, Onb!Row, Onb!SetOrg, Onb!OrgRow,
            Onb!Confirmed, Onb!Confirming, Onb!Enter, Onb!history, Onb!tables
<1>1. /\ hnd \in [Handlers -> Handling] /\ hnd[h] \in Handling /\ AsRouted(hnd[h])
      /\ session \in Loadable \cup {None} /\ None \notin Loadable
  BY DEF OnbInv, OnbOK, HandlersOK, Loadable
<1>2. session' \in Loadable \cup {None} /\ raced' \in BOOLEAN
  BY <1>1 DEF OnbInv, OnbOK, Handling, AsRouted, Confirms, Loadable, Onb!Sessions
<1>3. confirmed' \in [Onb!Steps -> Versions \cup {None}]
  BY <1>1 DEF OnbInv, OnbOK, Handling, AsRouted, Confirms, Loadable, Onb!Sessions, Onb!Steps, Onb!PlansAssumption
<1>4. PICK l : /\ l \in Handling /\ AsRouted(l) /\ hnd' = [hnd EXCEPT ![h] = l]
  <2>1. DOMAIN Units[hnd[h].got.plan[2]] \subseteq Nat
    BY <1>1 DEF AsRouted, Confirms, Loadable, Onb!PlansAssumption, Onb!UnitsAssumption, Onb!Steps
  <2>2. PICK d \in SUBSET Nat : d = DOMAIN Units[hnd[h].got.plan[2]]
    BY <2>1
  <2>3. [hnd[h] EXCEPT !.pc = "units", !.made = {}, !.todo = d] \in Handling
    BY <1>1 DEF Handling, Places, Confirms
  <2>4. AsRouted([hnd[h] EXCEPT !.pc = "units", !.made = {}, !.todo = d])
    BY <1>1, <2>1, <2>2 DEF AsRouted, Handling, Confirms
  <2>5. hnd' = [hnd EXCEPT ![h] = [hnd[h] EXCEPT !.pc = "units", !.made = {}, !.todo = d]]
    BY <1>1, <2>2
  <2>6. QED
    BY <2>3, <2>4, <2>5
<1>5. OnbOK'
  BY <1>2, <1>3, <1>4, HandlersMove DEF OnbInv, OnbOK
<1>6. Alone'
  BY <1>1 DEF OnbInv, Alone, OnbOK, HandlersOK, Handling, AsRouted, Onb!Inside, Confirms, Onb!Idle, Onb!Route, Onb!Creates
<1>7. Fresh'
  BY <1>1 DEF OnbInv, Alone, Fresh, OnbOK, HandlersOK, Handling, AsRouted, Onb!Inside, Confirms, Onb!Idle, Onb!Route, Onb!Creates
<1>8. Ending'
  BY <1>1 DEF OnbInv, Alone, Fresh, Ending, OnbOK, HandlersOK, Handling, AsRouted, Onb!Inside, Confirms, Loadable, Onb!Idle, Onb!Route, Onb!Creates
<1>9. Onb!ClosedAsPlanned'
  BY <1>1 DEF OnbInv, Alone, Fresh, Ending, OnbOK, HandlersOK, Handling, AsRouted, Onb!Inside, Confirms, Loadable, Onb!ClosedAsPlanned, Onb!Rank, Onb!Idle, Onb!Route, Onb!Creates
<1>10. QED
  BY <1>5, <1>6, <1>7, <1>8, <1>9 DEF OnbInv

LEMMA CreateUnitKeeps ==
    ASSUME Onb!PlansAssumption, Onb!UnitsAssumption, None \notin Onb!Sessions,
           OnbInv, NEW h \in Handlers, Onb!CreateUnit(h)
    PROVE  OnbInv'
<1> USE DEF Onb!CreateUnit, Onb!Leave, Onb!Goto, Onb!At, Onb!Got, Onb!Save, Onb!Row, Onb!SetOrg, Onb!OrgRow,
            Onb!Confirmed, Onb!Confirming, Onb!Enter, Onb!history, Onb!tables
<1>1. /\ hnd \in [Handlers -> Handling] /\ hnd[h] \in Handling /\ AsRouted(hnd[h])
      /\ session \in Loadable \cup {None} /\ None \notin Loadable
  BY DEF OnbInv, OnbOK, HandlersOK, Loadable
<1>2. session' \in Loadable \cup {None} /\ raced' \in BOOLEAN
  BY <1>1 DEF OnbInv, OnbOK, Handling, AsRouted, Confirms, Loadable, Onb!Sessions
<1>3. confirmed' \in [Onb!Steps -> Versions \cup {None}]
  BY <1>1 DEF OnbInv, OnbOK, Handling, AsRouted, Confirms, Loadable, Onb!Sessions, Onb!Steps, Onb!PlansAssumption
<1>0. PICK i \in hnd[h].todo : Onb!Creates(h, i)
  OBVIOUS
<1>4. PICK l : /\ l \in Handling /\ AsRouted(l) /\ hnd' = [hnd EXCEPT ![h] = l]
               /\ l.pc = "unlock" \/ (l.pc \in {"units", "advance"} /\ l.got = hnd[h].got)
  <2>1. CASE Onb!Leave(h)
    <3>1. hnd' = [hnd EXCEPT ![h] = [Onb!Idle EXCEPT !.pc = "unlock"]]
      BY <2>1
    <3>2. PICK m : m = [Onb!Idle EXCEPT !.pc = "unlock"]
      OBVIOUS
    <3>3. m \in Handling /\ AsRouted(m) /\ m.pc = "unlock"
      BY <3>2, LocalMoves, OutsideRouted
    <3>4. QED
      BY <3>1, <3>2, <3>3
  <2>2. CASE ~Onb!Leave(h)
    <3> DEFINE v == hnd[h].got.plan[2]
               rest == hnd[h].todo \ {i}
               next == IF rest = {} THEN "advance" ELSE "units"
    <3>1. hnd' = [hnd EXCEPT ![h] = [hnd[h] EXCEPT !.todo = rest, !.made = @ \cup {Units[v][i].ref}, !.pc = next]]
      BY <1>0, <1>1, <2>2 DEF Onb!Creates
    <3>2. v \in Versions
      BY <1>1 DEF AsRouted, Confirms, Loadable, Onb!PlansAssumption, Onb!Steps
    <3>3. Units[v][i].ref \in Names /\ next \in {"advance", "units"} /\ rest \in SUBSET Nat
      BY <1>0, <1>1, <3>2 DEF Handling, AsRouted, Names
    <3> HIDE DEF v, rest, next
    <3>4. [hnd[h] EXCEPT !.todo = rest, !.made = @ \cup {Units[v][i].ref}, !.pc = next] \in Handling
      BY <1>1, <3>3 DEF Handling, Places, Confirms
    <3>5. AsRouted([hnd[h] EXCEPT !.todo = rest, !.made = @ \cup {Units[v][i].ref}, !.pc = next])
      BY <1>1, <3>3 DEF AsRouted, Handling, Confirms, rest, next
    <3>6. QED
      BY <1>1, <3>1, <3>3, <3>4, <3>5 DEF Handling
  <2>3. QED
    BY <2>1, <2>2
<1>5. OnbOK'
  BY <1>2, <1>3, <1>4, HandlersMove DEF OnbInv, OnbOK
<1>6. Alone'
  BY <1>1 DEF OnbInv, Alone, OnbOK, HandlersOK, Handling, AsRouted, Onb!Inside, Confirms, Onb!Idle, Onb!Route, Onb!Creates
<1>7. Fresh'
  BY <1>1, <1>4 DEF OnbInv, Alone, Fresh, OnbOK, HandlersOK, Onb!Inside, Confirms
<1>8. Ending'
  BY <1>1, <1>4 DEF OnbInv, Alone, Ending, OnbOK, HandlersOK, Onb!Inside
<1>9. Onb!ClosedAsPlanned'
  BY <1>1 DEF OnbInv, Alone, Fresh, Ending, OnbOK, HandlersOK, Handling, AsRouted, Onb!Inside, Confirms, Loadable, Onb!ClosedAsPlanned, Onb!Rank, Onb!Idle, Onb!Route, Onb!Creates
<1>10. QED
  BY <1>5, <1>6, <1>7, <1>8, <1>9 DEF OnbInv

LEMMA AdvanceKeeps ==
    ASSUME Onb!PlansAssumption, Onb!UnitsAssumption, None \notin Onb!Sessions,
           OnbInv, NEW h \in Handlers, Onb!Advance(h)
    PROVE  OnbInv'
<1> USE DEF Onb!Advance, Onb!Leave, Onb!Goto, Onb!At, Onb!Got, Onb!Save, Onb!Row, Onb!SetOrg, Onb!OrgRow,
            Onb!Confirmed, Onb!Confirming, Onb!Enter, Onb!history, Onb!tables
<1>1. /\ hnd \in [Handlers -> Handling] /\ hnd[h] \in Handling /\ AsRouted(hnd[h])
      /\ session \in Loadable \cup {None} /\ None \notin Loadable
  BY DEF OnbInv, OnbOK, HandlersOK, Loadable
<1>2. session' \in Loadable \cup {None} /\ raced' \in BOOLEAN
  BY <1>1 DEF OnbInv, OnbOK, Handling, AsRouted, Confirms, Loadable, Onb!Sessions
<1>3. confirmed' \in [Onb!Steps -> Versions \cup {None}]
  BY <1>1 DEF OnbInv, OnbOK, Handling, AsRouted, Confirms, Loadable, Onb!Sessions, Onb!Steps, Onb!PlansAssumption
<1>4. PICK l : /\ l \in Handling /\ AsRouted(l) /\ hnd' = [hnd EXCEPT ![h] = l]
  BY <1>1, LocalMoves, OutsideRouted
<1>5. OnbOK'
  BY <1>2, <1>3, <1>4, HandlersMove DEF OnbInv, OnbOK
<1>6. Alone'
  BY <1>1 DEF OnbInv, Alone, OnbOK, HandlersOK, Handling, AsRouted, Onb!Inside, Confirms, Onb!Idle, Onb!Route, Onb!Creates
<1>7. Fresh'
  BY <1>1 DEF OnbInv, Alone, Fresh, OnbOK, HandlersOK, Handling, AsRouted, Onb!Inside, Confirms, Onb!Idle, Onb!Route, Onb!Creates
<1>8. Ending'
  BY <1>1 DEF OnbInv, Alone, Fresh, Ending, OnbOK, HandlersOK, Handling, AsRouted, Onb!Inside, Confirms, Loadable, Onb!Idle, Onb!Route, Onb!Creates
<1>9. Onb!ClosedAsPlanned'
  BY <1>1 DEF OnbInv, Alone, Fresh, Ending, OnbOK, HandlersOK, Handling, AsRouted, Onb!Inside, Confirms, Loadable, Onb!ClosedAsPlanned, Onb!Rank, Onb!Idle, Onb!Route, Onb!Creates
<1>10. QED
  BY <1>5, <1>6, <1>7, <1>8, <1>9 DEF OnbInv

LEMMA CompleteOrgKeeps ==
    ASSUME Onb!PlansAssumption, Onb!UnitsAssumption, None \notin Onb!Sessions,
           OnbInv, NEW h \in Handlers, Onb!CompleteOrg(h)
    PROVE  OnbInv'
<1> USE DEF Onb!CompleteOrg, Onb!Leave, Onb!Goto, Onb!At, Onb!Got, Onb!Save, Onb!Row, Onb!SetOrg, Onb!OrgRow,
            Onb!Confirmed, Onb!Confirming, Onb!Enter, Onb!history, Onb!tables
<1>1. /\ hnd \in [Handlers -> Handling] /\ hnd[h] \in Handling /\ AsRouted(hnd[h])
      /\ session \in Loadable \cup {None} /\ None \notin Loadable
  BY DEF OnbInv, OnbOK, HandlersOK, Loadable
<1>2. session' \in Loadable \cup {None} /\ raced' \in BOOLEAN
  BY <1>1 DEF OnbInv, OnbOK, Handling, AsRouted, Confirms, Loadable, Onb!Sessions
<1>3. confirmed' \in [Onb!Steps -> Versions \cup {None}]
  BY <1>1 DEF OnbInv, OnbOK, Handling, AsRouted, Confirms, Loadable, Onb!Sessions, Onb!Steps, Onb!PlansAssumption
<1>4. PICK l : /\ l \in Handling /\ AsRouted(l) /\ hnd' = [hnd EXCEPT ![h] = l]
  <2>1. AsRouted([hnd[h] EXCEPT !.pc = "finish"])
    BY <1>1 DEF AsRouted, Handling, Confirms
  <2>2. hnd' = [hnd EXCEPT ![h] = [hnd[h] EXCEPT !.pc = "finish"]]
    BY <1>1
  <2>3. QED
    BY <1>1, <2>1, <2>2, LocalMoves DEF Places, Confirms
<1>5. OnbOK'
  BY <1>2, <1>3, <1>4, HandlersMove DEF OnbInv, OnbOK
<1>6. Alone'
  BY <1>1 DEF OnbInv, Alone, OnbOK, HandlersOK, Handling, AsRouted, Onb!Inside, Confirms, Onb!Idle, Onb!Route, Onb!Creates
<1>7. Fresh'
  BY <1>1 DEF OnbInv, Alone, Fresh, OnbOK, HandlersOK, Handling, AsRouted, Onb!Inside, Confirms, Onb!Idle, Onb!Route, Onb!Creates
<1>8. Ending'
  BY <1>1 DEF OnbInv, Alone, Fresh, Ending, OnbOK, HandlersOK, Handling, AsRouted, Onb!Inside, Confirms, Loadable, Onb!Idle, Onb!Route, Onb!Creates
<1>9. Onb!ClosedAsPlanned'
  BY <1>1 DEF OnbInv, Alone, Fresh, Ending, OnbOK, HandlersOK, Handling, AsRouted, Onb!Inside, Confirms, Loadable, Onb!ClosedAsPlanned, Onb!Rank, Onb!Idle, Onb!Route, Onb!Creates
<1>10. QED
  BY <1>5, <1>6, <1>7, <1>8, <1>9 DEF OnbInv

LEMMA CompleteTenantKeeps ==
    ASSUME Onb!PlansAssumption, Onb!UnitsAssumption, None \notin Onb!Sessions,
           OnbInv, NEW h \in Handlers, Onb!CompleteTenant(h)
    PROVE  OnbInv'
<1> USE DEF Onb!CompleteTenant, Onb!Leave, Onb!Goto, Onb!At, Onb!Got, Onb!Save, Onb!Row, Onb!SetOrg, Onb!OrgRow,
            Onb!Confirmed, Onb!Confirming, Onb!Enter, Onb!history, Onb!tables
<1>1. /\ hnd \in [Handlers -> Handling] /\ hnd[h] \in Handling /\ AsRouted(hnd[h])
      /\ session \in Loadable \cup {None} /\ None \notin Loadable
  BY DEF OnbInv, OnbOK, HandlersOK, Loadable
<1>2. session' \in Loadable \cup {None} /\ raced' \in BOOLEAN
  BY <1>1 DEF OnbInv, OnbOK, Handling, AsRouted, Confirms, Loadable, Onb!Sessions
<1>3. confirmed' \in [Onb!Steps -> Versions \cup {None}]
  BY <1>1 DEF OnbInv, OnbOK, Handling, AsRouted, Confirms, Loadable, Onb!Sessions, Onb!Steps, Onb!PlansAssumption
<1>4. PICK l : /\ l \in Handling /\ AsRouted(l) /\ hnd' = [hnd EXCEPT ![h] = l]
  <2>1. AsRouted([hnd[h] EXCEPT !.pc = "close"])
    BY <1>1 DEF AsRouted, Handling, Confirms
  <2>2. hnd' = [hnd EXCEPT ![h] = [hnd[h] EXCEPT !.pc = "close"]]
    BY <1>1
  <2>3. QED
    BY <1>1, <2>1, <2>2, LocalMoves DEF Places, Confirms
<1>5. OnbOK'
  BY <1>2, <1>3, <1>4, HandlersMove DEF OnbInv, OnbOK
<1>6. Alone'
  BY <1>1 DEF OnbInv, Alone, OnbOK, HandlersOK, Handling, AsRouted, Onb!Inside, Confirms, Onb!Idle, Onb!Route, Onb!Creates
<1>7. Fresh'
  BY <1>1 DEF OnbInv, Alone, Fresh, OnbOK, HandlersOK, Handling, AsRouted, Onb!Inside, Confirms, Onb!Idle, Onb!Route, Onb!Creates
<1>8. Ending'
  BY <1>1 DEF OnbInv, Alone, Fresh, Ending, OnbOK, HandlersOK, Handling, AsRouted, Onb!Inside, Confirms, Loadable, Onb!Idle, Onb!Route, Onb!Creates
<1>9. Onb!ClosedAsPlanned'
  BY <1>1 DEF OnbInv, Alone, Fresh, Ending, OnbOK, HandlersOK, Handling, AsRouted, Onb!Inside, Confirms, Loadable, Onb!ClosedAsPlanned, Onb!Rank, Onb!Idle, Onb!Route, Onb!Creates
<1>10. QED
  BY <1>5, <1>6, <1>7, <1>8, <1>9 DEF OnbInv

LEMMA CompleteSessionKeeps ==
    ASSUME Onb!PlansAssumption, Onb!UnitsAssumption, None \notin Onb!Sessions,
           OnbInv, NEW h \in Handlers, Onb!CompleteSession(h)
    PROVE  OnbInv'
<1> USE DEF Onb!CompleteSession, Onb!Leave, Onb!Goto, Onb!At, Onb!Got, Onb!Save, Onb!Row, Onb!SetOrg, Onb!OrgRow,
            Onb!Confirmed, Onb!Confirming, Onb!Enter, Onb!history, Onb!tables
<1>1. /\ hnd \in [Handlers -> Handling] /\ hnd[h] \in Handling /\ AsRouted(hnd[h])
      /\ session \in Loadable \cup {None} /\ None \notin Loadable
  BY DEF OnbInv, OnbOK, HandlersOK, Loadable
<1>2. session' \in Loadable \cup {None} /\ raced' \in BOOLEAN
  BY <1>1 DEF OnbInv, OnbOK, Handling, AsRouted, Confirms, Loadable, Onb!Sessions
<1>3. confirmed' \in [Onb!Steps -> Versions \cup {None}]
  BY <1>1 DEF OnbInv, OnbOK, Handling, AsRouted, Confirms, Loadable, Onb!Sessions, Onb!Steps, Onb!PlansAssumption
<1>4. PICK l : /\ l \in Handling /\ AsRouted(l) /\ hnd' = [hnd EXCEPT ![h] = l]
  BY <1>1, LocalMoves, OutsideRouted
<1>5. OnbOK'
  BY <1>2, <1>3, <1>4, HandlersMove DEF OnbInv, OnbOK
<1>6. Alone'
  BY <1>1 DEF OnbInv, Alone, OnbOK, HandlersOK, Handling, AsRouted, Onb!Inside, Confirms, Onb!Idle, Onb!Route, Onb!Creates
<1>7. Fresh'
  BY <1>1 DEF OnbInv, Alone, Fresh, OnbOK, HandlersOK, Handling, AsRouted, Onb!Inside, Confirms, Onb!Idle, Onb!Route, Onb!Creates
<1>8. Ending'
  BY <1>1 DEF OnbInv, Alone, Fresh, Ending, OnbOK, HandlersOK, Handling, AsRouted, Onb!Inside, Confirms, Loadable, Onb!Idle, Onb!Route, Onb!Creates
<1>9. Onb!ClosedAsPlanned'
  BY <1>1 DEF OnbInv, Alone, Fresh, Ending, OnbOK, HandlersOK, Handling, AsRouted, Onb!Inside, Confirms, Loadable, Onb!ClosedAsPlanned, Onb!Rank, Onb!Idle, Onb!Route, Onb!Creates
<1>10. QED
  BY <1>5, <1>6, <1>7, <1>8, <1>9 DEF OnbInv

LEMMA UnlockKeeps ==
    ASSUME Onb!PlansAssumption, Onb!UnitsAssumption, None \notin Onb!Sessions,
           OnbInv, NEW h \in Handlers, Onb!Unlock(h)
    PROVE  OnbInv'
<1> USE DEF Onb!Unlock, Onb!Leave, Onb!Goto, Onb!At, Onb!Got, Onb!Save, Onb!Row, Onb!SetOrg, Onb!OrgRow,
            Onb!Confirmed, Onb!Confirming, Onb!Enter, Onb!history, Onb!tables
<1>1. /\ hnd \in [Handlers -> Handling] /\ hnd[h] \in Handling /\ AsRouted(hnd[h])
      /\ session \in Loadable \cup {None} /\ None \notin Loadable
  BY DEF OnbInv, OnbOK, HandlersOK, Loadable
<1>2. session' \in Loadable \cup {None} /\ raced' \in BOOLEAN
  BY <1>1 DEF OnbInv, OnbOK, Handling, AsRouted, Confirms, Loadable, Onb!Sessions
<1>3. confirmed' \in [Onb!Steps -> Versions \cup {None}]
  BY <1>1 DEF OnbInv, OnbOK, Handling, AsRouted, Confirms, Loadable, Onb!Sessions, Onb!Steps, Onb!PlansAssumption
<1>4. PICK l : /\ l \in Handling /\ AsRouted(l) /\ hnd' = [hnd EXCEPT ![h] = l]
  BY <1>1, LocalMoves, OutsideRouted
<1>5. OnbOK'
  BY <1>2, <1>3, <1>4, HandlersMove DEF OnbInv, OnbOK
<1>6. Alone'
  BY <1>1 DEF OnbInv, Alone, OnbOK, HandlersOK, Handling, AsRouted, Onb!Inside, Confirms, Onb!Idle, Onb!Route, Onb!Creates
<1>7. Fresh'
  BY <1>1 DEF OnbInv, Alone, Fresh, OnbOK, HandlersOK, Handling, AsRouted, Onb!Inside, Confirms, Onb!Idle, Onb!Route, Onb!Creates
<1>8. Ending'
  BY <1>1 DEF OnbInv, Alone, Fresh, Ending, OnbOK, HandlersOK, Handling, AsRouted, Onb!Inside, Confirms, Loadable, Onb!Idle, Onb!Route, Onb!Creates
<1>9. Onb!ClosedAsPlanned'
  BY <1>1 DEF OnbInv, Alone, Fresh, Ending, OnbOK, HandlersOK, Handling, AsRouted, Onb!Inside, Confirms, Loadable, Onb!ClosedAsPlanned, Onb!Rank, Onb!Idle, Onb!Route, Onb!Creates
<1>10. QED
  BY <1>5, <1>6, <1>7, <1>8, <1>9 DEF OnbInv

LEMMA FailKeeps ==
    ASSUME Onb!PlansAssumption, Onb!UnitsAssumption, None \notin Onb!Sessions,
           OnbInv, NEW h \in Handlers, Onb!Fail(h)
    PROVE  OnbInv'
<1> USE DEF Onb!Fail, Onb!Leave, Onb!Goto, Onb!At, Onb!Got, Onb!Save, Onb!Row, Onb!SetOrg, Onb!OrgRow,
            Onb!Confirmed, Onb!Confirming, Onb!Enter, Onb!history, Onb!tables
<1>1. /\ hnd \in [Handlers -> Handling] /\ hnd[h] \in Handling /\ AsRouted(hnd[h])
      /\ session \in Loadable \cup {None} /\ None \notin Loadable
  BY DEF OnbInv, OnbOK, HandlersOK, Loadable
<1>2. session' \in Loadable \cup {None} /\ raced' \in BOOLEAN
  BY <1>1 DEF OnbInv, OnbOK, Handling, AsRouted, Confirms, Loadable, Onb!Sessions
<1>3. confirmed' \in [Onb!Steps -> Versions \cup {None}]
  BY <1>1 DEF OnbInv, OnbOK, Handling, AsRouted, Confirms, Loadable, Onb!Sessions, Onb!Steps, Onb!PlansAssumption
<1>4. PICK l : /\ l \in Handling /\ AsRouted(l) /\ hnd' = [hnd EXCEPT ![h] = l]
  BY <1>1, LocalMoves, OutsideRouted
<1>5. OnbOK'
  BY <1>2, <1>3, <1>4, HandlersMove DEF OnbInv, OnbOK
<1>6. Alone'
  BY <1>1 DEF OnbInv, Alone, OnbOK, HandlersOK, Handling, AsRouted, Onb!Inside, Confirms, Onb!Idle, Onb!Route, Onb!Creates
<1>7. Fresh'
  BY <1>1 DEF OnbInv, Alone, Fresh, OnbOK, HandlersOK, Handling, AsRouted, Onb!Inside, Confirms, Onb!Idle, Onb!Route, Onb!Creates
<1>8. Ending'
  BY <1>1 DEF OnbInv, Alone, Fresh, Ending, OnbOK, HandlersOK, Handling, AsRouted, Onb!Inside, Confirms, Loadable, Onb!Idle, Onb!Route, Onb!Creates
<1>9. Onb!ClosedAsPlanned'
  BY <1>1 DEF OnbInv, Alone, Fresh, Ending, OnbOK, HandlersOK, Handling, AsRouted, Onb!Inside, Confirms, Loadable, Onb!ClosedAsPlanned, Onb!Rank, Onb!Idle, Onb!Route, Onb!Creates
<1>10. QED
  BY <1>5, <1>6, <1>7, <1>8, <1>9 DEF OnbInv

LEMMA ReceiveKeeps ==
    ASSUME OnbInv, NEW h \in Handlers, NEW ok \in BOOLEAN, Onb!Receive(h, ok)
    PROVE  OnbInv'
<1> USE DEF Onb!Receive, Onb!tables
<1>1. /\ hnd \in [Handlers -> Handling] /\ hnd[h] \in Handling
      /\ UNCHANGED <<session, org, completed, confirmed, raced>>
  BY DEF OnbInv, OnbOK, HandlersOK
<1>2. PICK l : /\ l \in Handling /\ AsRouted(l) /\ l.pc = "lock" /\ hnd' = [hnd EXCEPT ![h] = l]
  BY <1>1 DEF Handling, Places, AsRouted, Confirms, Onb!Idle
<1>3. OnbOK'
  BY <1>1, <1>2, HandlersMove DEF OnbInv, OnbOK
<1>4. Alone' /\ Fresh' /\ Ending'
  BY <1>1, <1>2 DEF OnbInv, Alone, Fresh, Ending, Onb!Inside, Confirms
<1>5. Onb!ClosedAsPlanned'
  BY <1>1 DEF OnbInv, Onb!ClosedAsPlanned
<1>6. QED
  BY <1>3, <1>4, <1>5 DEF OnbInv

LEMMA OnbStarts == Onb!Init => OnbInv
<1> SUFFICES ASSUME Onb!Init PROVE OnbInv
  OBVIOUS
<1>1. hnd = [h \in Handlers |-> Onb!Idle] /\ session = None /\ raced = FALSE
  BY DEF Onb!Init
<1>2. OnbOK
  BY <1>1, LocalMoves, OutsideRouted DEF Onb!Init, OnbOK, HandlersOK
<1>3. Alone /\ Fresh /\ Ending
  BY <1>1 DEF Alone, Fresh, Ending, Onb!Inside, Onb!Idle, Confirms
<1>4. Onb!ClosedAsPlanned
  BY <1>1 DEF Onb!ClosedAsPlanned, Onb!Rank
<1>5. QED
  BY <1>2, <1>3, <1>4 DEF OnbInv

LEMMA OnbStays ==
    ASSUME Onb!PlansAssumption, Onb!UnitsAssumption, None \notin Onb!Sessions,
           OnbInv, [Onb!Next]_Onb!vars
    PROVE  OnbInv'
<1>1. ASSUME NEW h \in Handlers, Onb!HandlerStep(h)
      PROVE  OnbInv'
  BY <1>1, LockKeeps, LoadKeeps, CreateKeeps, DialogueKeeps, PlanKeeps, ModifyKeeps, ApplyColumnKeeps,
     ApplyOrgStructureKeeps, CreateUnitKeeps, AdvanceKeeps, CompleteOrgKeeps, CompleteTenantKeeps,
     CompleteSessionKeeps, UnlockKeeps, FailKeeps DEF Onb!HandlerStep
<1>2. CASE Onb!Expire \/ UNCHANGED Onb!vars
  BY <1>2 DEF Onb!Expire, Onb!vars, Onb!tables, Onb!history, OnbInv, OnbOK, HandlersOK, Alone, Fresh, Ending,
     Onb!Inside, Onb!ClosedAsPlanned
<1>3. CASE Onb!Crash
  <2> USE <1>3 DEF Onb!Crash, Onb!tables, Onb!history
  <2>1. OnbOK'
    BY LocalMoves, OutsideRouted DEF OnbInv, OnbOK, HandlersOK
  <2>2. Alone' /\ Fresh' /\ Ending' /\ Onb!ClosedAsPlanned'
    BY DEF OnbInv, Alone, Fresh, Ending, Onb!Inside, Onb!Idle, Confirms, Onb!ClosedAsPlanned
  <2>3. QED
    BY <2>1, <2>2 DEF OnbInv
<1>4. QED
  BY <1>1, <1>2, <1>3, ReceiveKeeps DEF Onb!Next

\* A tenant whose onboarding session is closed counts as completed and has the
\* profile it gave and the plan of its session, unless two handlers were inside at
\* once: the three writes that end the onboarding follow each other in one handler,
\* whose copy of the session is the row's.
THEOREM OnboardingCloses ==
    ASSUME Onb!PlansAssumption, Onb!UnitsAssumption, None \notin Onb!Sessions
    PROVE  Onb!Spec => []Onb!ClosedAsPlanned
<1>1. OnbInv /\ [Onb!Next]_Onb!vars => OnbInv'
  BY OnbStays
<1>2. OnbInv => Onb!ClosedAsPlanned
  BY DEF OnbInv
<1>3. QED
  BY <1>1, <1>2, OnbStarts, PTL DEF Onb!Spec

-----------------------------------------------------------------------------
(* Onboarding: never back                                                  *)

LEMMA Ranks ==
    ASSUME None \notin Onb!Sessions
    PROVE  Onb!Rank(None) = 0 /\ \A s \in Loadable : Onb!Rank(s) \in 1 .. 7
  BY DEF Loadable, Onb!Sessions, Onb!Rank

LEMMA DialogueForward ==
    ASSUME None \notin Onb!Sessions, OnbInv, NEW h \in Handlers, Onb!Dialogue(h), ~raced
    PROVE  /\ Onb!Rank(session') >= Onb!Rank(session)
           /\ session # None => session.collected \subseteq session'.collected
<1>1. session = hnd[h].got /\ session \in Loadable /\ session.status = "onboarding"
  BY DEF Onb!Dialogue, OnbInv, OnbOK, HandlersOK, Handling, AsRouted, Fresh
<1>2. Onb!Rank(session) = 1
  BY <1>1 DEF Onb!Rank, Loadable
<1>3. /\ session'.status \in {"onboarding", "configuring"} /\ session' # None
      /\ session.collected \subseteq session'.collected
  BY <1>1 DEF Onb!Dialogue, Onb!Got, Onb!Save, Onb!Row, Loadable, Onb!Sessions
<1>4. QED
  BY <1>2, <1>3 DEF Onb!Rank

LEMMA WritesForward ==
    ASSUME None \notin Onb!Sessions, OnbInv, NEW h \in Handlers, ~raced,
           Onb!Plan(h) \/ Onb!Modify(h) \/ Onb!Advance(h) \/ Onb!CompleteSession(h)
    PROVE  /\ Onb!Rank(session') >= Onb!Rank(session)
           /\ session # None => session.collected \subseteq session'.collected
<1> USE DEF Onb!Plan, Onb!Modify, Onb!Advance, Onb!CompleteSession, Onb!Got, Onb!Save, Onb!Row
<1>1. session = hnd[h].got /\ session \in Loadable /\ AsRouted(hnd[h])
  BY DEF OnbInv, OnbOK, HandlersOK, Handling, AsRouted, Fresh, Confirms
<1>2. session'.collected = session.collected
  BY <1>1
<1>3. session' \in Onb!Sessions
  <2>1. CASE Onb!Plan(h) \/ Onb!Modify(h)
    BY <1>1, <2>1 DEF Loadable, Onb!Sessions
  <2>2. CASE Onb!Advance(h) \/ Onb!CompleteSession(h)
    BY <1>1, <2>2 DEF Loadable, Onb!Sessions, AsRouted, Confirms
  <2>3. QED
    BY <2>1, <2>2
<1>4. CASE Onb!Plan(h)
  BY <1>1, <1>3, <1>4 DEF Onb!Rank, AsRouted, Loadable, Onb!Sessions
<1>5. CASE Onb!Modify(h) \/ Onb!Advance(h) \/ Onb!CompleteSession(h)
  BY <1>1, <1>3, <1>5 DEF Onb!Rank, AsRouted, Loadable, Onb!Sessions, Confirms
<1>6. QED
  BY <1>2, <1>4, <1>5

LEMMA StepsForward ==
    ASSUME Onb!PlansAssumption, Onb!UnitsAssumption, None \notin Onb!Sessions, OnbInv, [Onb!Next]_Onb!vars
    PROVE  Onb!GoesForward
<1> SUFFICES ASSUME ~raced' PROVE /\ Onb!Rank(session') >= Onb!Rank(session)
                                  /\ session # None => session.collected \subseteq session'.collected
  BY DEF Onb!GoesForward
<1>1. Onb!Rank(session) \in Nat
  BY Ranks DEF OnbInv, OnbOK
<1>2. CASE session' = session
  BY <1>1, <1>2
<1>3. ASSUME NEW h \in Handlers, Onb!Create(h), session' # session
      PROVE  Onb!Rank(session') >= Onb!Rank(session) /\ session = None
  <2>1. session = None /\ session' \in Loadable \cup {None}
    BY <1>3, OnbStays DEF Onb!Create, OnbInv, OnbOK
  <2>2. QED
    BY <2>1, Ranks
<1>4. ASSUME NEW h \in Handlers,
             Onb!Dialogue(h) \/ Onb!Plan(h) \/ Onb!Modify(h) \/ Onb!Advance(h) \/ Onb!CompleteSession(h)
      PROVE  ~raced
  BY <1>4 DEF Onb!Dialogue, Onb!Plan, Onb!Modify, Onb!Advance, Onb!CompleteSession, Onb!history
<1>5. ASSUME session' # session
      PROVE  \E h \in Handlers : \/ Onb!Create(h) \/ Onb!Dialogue(h) \/ Onb!Plan(h) \/ Onb!Modify(h)
                                 \/ Onb!Advance(h) \/ Onb!CompleteSession(h)
  BY <1>5 DEF Onb!Next, Onb!HandlerStep, Onb!vars, Onb!Lock, Onb!Load, Onb!ApplyColumn, Onb!ApplyOrgStructure, Onb!CreateUnit,
     Onb!CompleteOrg, Onb!CompleteTenant, Onb!Unlock, Onb!Fail, Onb!Receive, Onb!Expire, Onb!Crash
<1>6. QED
  BY <1>2, <1>3, <1>4, <1>5, DialogueForward, WritesForward

\* Unless two handlers were inside at once, no step takes the onboarding back and no
\* answer of the boss is forgotten: a handler writes back the row it loaded, as it
\* is while nobody else is inside.
THEOREM OnboardingGoesForward ==
    ASSUME Onb!PlansAssumption, Onb!UnitsAssumption, None \notin Onb!Sessions
    PROVE  Onb!Spec => [][Onb!GoesForward]_Onb!vars
<1>1. OnbInv /\ [Onb!Next]_Onb!vars => OnbInv' /\ Onb!GoesForward
  BY OnbStays, StepsForward
<1>2. QED
  BY <1>1, OnbStarts, PTL DEF Onb!Spec

-----------------------------------------------------------------------------
(* Onboarding: the units                                                   *)

\* These rows are the listed units at these positions.
Refs(v, made) == {Units[v][i].ref : i \in made}
Built(rows, v, made) ==
    /\ {r.ref : r \in rows} = Refs(v, made)
    /\ Onb!Distinct(v) => \A r, s \in rows : r.ref = s.ref => r = s
    /\ Onb!ParentsFirst(v) =>
          {[ref |-> r.ref, parent |-> r.parent] : r \in rows} = {Units[v][i] : i \in made}
All(v) == DOMAIN Units[v]

\* A handler that creates the units, or has: what it has made is in the table, and
\* nothing else.  Behind step 2 it is what was confirmed.
Building(l, rows) ==
    /\ l.pc = "units" =>
          LET made == All(l.got.plan[2]) \ l.todo
          IN  l.made = Refs(l.got.plan[2], made) /\ Built(rows, l.got.plan[2], made)
    /\ l.pc = "advance" /\ l.got.step = 2 => Built(rows, l.got.plan[2], All(l.got.plan[2]))
TreeInv ==
    ~raced =>
        /\ \A h \in Handlers : Building(hnd[h], units)
        /\ Onb!Rank(session) > 4 => Built(units, confirmed[2], All(confirmed[2]))

LEMMA Elsewhere ==
    ASSUME OnbInv, TreeInv, UNCHANGED units, ~raced' => ~raced,
           NEW h \in Handlers, NEW l, hnd' = [hnd EXCEPT ![h] = l],
           l.pc # "units", ~(l.pc = "advance" /\ l.got.step = 2),
           ~raced' /\ Onb!Rank(session') > 4 => Onb!Rank(session) > 4 /\ confirmed'[2] = confirmed[2]
    PROVE  TreeInv'
<1> SUFFICES ASSUME ~raced' PROVE /\ \A g \in Handlers : Building(hnd'[g], units)
                                  /\ Onb!Rank(session') > 4 => Built(units, confirmed'[2], All(confirmed'[2]))
  BY DEF TreeInv
<1>1. hnd \in [Handlers -> Handling]
  BY DEF OnbInv, OnbOK, HandlersOK
<1>2. Building(l, units)
  BY DEF Building
<1>3. QED
  BY <1>1, <1>2 DEF TreeInv

\* Most steps of a handler are elsewhere.
LEMMA OthersBuild ==
    ASSUME None \notin Onb!Sessions, OnbInv, TreeInv, NEW h \in Handlers,
           \/ Onb!Lock(h) \/ Onb!Load(h) \/ Onb!Create(h) \/ Onb!Dialogue(h) \/ Onb!Plan(h) \/ Onb!Modify(h)
           \/ Onb!ApplyColumn(h) \/ Onb!CompleteOrg(h) \/ Onb!CompleteTenant(h) \/ Onb!CompleteSession(h)
           \/ Onb!Unlock(h) \/ Onb!Fail(h)
    PROVE  TreeInv'
<1> USE DEF Onb!Leave, Onb!Goto, Onb!At, Onb!Got, Onb!Save, Onb!Row, Onb!Confirmed, Onb!Confirming, Onb!Enter,
            Onb!history, Onb!tables
<1>1. hnd \in [Handlers -> Handling] /\ hnd[h] \in Handling /\ AsRouted(hnd[h])
  BY DEF OnbInv, OnbOK, HandlersOK
<1>2. UNCHANGED units /\ (~raced' => ~raced)
  BY <1>1 DEF Onb!Lock, Onb!Load, Onb!Create, Onb!Dialogue, Onb!Plan, Onb!Modify, Onb!ApplyColumn, Onb!CompleteOrg,
     Onb!CompleteTenant, Onb!CompleteSession, Onb!Unlock, Onb!Fail, OnbInv, OnbOK
<1>3. /\ hnd' = [hnd EXCEPT ![h] = hnd'[h]]
      /\ hnd'[h].pc # "units" /\ ~(hnd'[h].pc = "advance" /\ hnd'[h].got.step = 2)
  <2>1. CASE Onb!Lock(h)
    BY <1>1, <2>1 DEF Onb!Lock, Onb!Idle, Handling
  <2>2. CASE Onb!Load(h)
    BY <1>1, <2>2 DEF Onb!Load, Handling, Onb!Route
  <2>3. CASE Onb!Create(h) \/ Onb!Dialogue(h) \/ Onb!CompleteOrg(h) \/ Onb!CompleteTenant(h)
    BY <1>1, <2>3 DEF Onb!Create, Onb!Dialogue, Onb!CompleteOrg, Onb!CompleteTenant, Onb!Idle, Handling
  <2>4. CASE Onb!Plan(h) \/ Onb!Modify(h) \/ Onb!CompleteSession(h) \/ Onb!Unlock(h) \/ Onb!Fail(h)
    BY <1>1, <2>4 DEF Onb!Plan, Onb!Modify, Onb!CompleteSession, Onb!Unlock, Onb!Fail, Onb!Idle
  <2>5. CASE Onb!ApplyColumn(h)
    BY <1>1, <2>5 DEF Onb!ApplyColumn, Handling
  <2>6. QED
    BY <2>1, <2>2, <2>3, <2>4, <2>5
<1>4. ASSUME ~raced', Onb!Rank(session') > 4
      PROVE  Onb!Rank(session) > 4 /\ confirmed'[2] = confirmed[2]
  <2>1. /\ Onb!Dialogue(h) \/ Onb!Plan(h) \/ Onb!Modify(h) \/ Onb!CompleteSession(h) => hnd[h].got = session
        /\ Onb!CompleteSession(h) \/ Onb!CompleteOrg(h) => session.step = 4 /\ hnd[h].got = session /\ session.status = "confirming"
        /\ Onb!Modify(h) => session.status = "confirming"
        /\ Onb!CompleteSession(h) \/ Onb!CompleteOrg(h) \/ Onb!Modify(h) => session # None
    BY <1>1, <1>2, <1>4 DEF Onb!Dialogue, Onb!Plan, Onb!Modify, Onb!CompleteSession, Onb!CompleteOrg,
       OnbInv, Fresh, AsRouted, Confirms, Loadable
  <2>2. CASE Onb!Create(h) \/ Onb!Dialogue(h) \/ Onb!Plan(h)
    <3>1. /\ UNCHANGED session \/ session'.status \in {"onboarding", "configuring"} \/ (session'.status = "confirming" /\ session'.step = 1)
          /\ UNCHANGED confirmed
      <4>1. CASE Onb!Create(h)
        BY <4>1 DEF Onb!Create
      <4>2. CASE Onb!Dialogue(h)
        BY <4>2 DEF Onb!Dialogue
      <4>3. CASE Onb!Plan(h)
        BY <4>3 DEF Onb!Plan
      <4>4. QED
        BY <2>2, <4>1, <4>2, <4>3
    <3>2. QED
      BY <1>4, <3>1 DEF Onb!Rank
  <2>3. CASE Onb!Modify(h)
    <3>1. session'.status = "confirming" /\ session'.step = session.step /\ UNCHANGED confirmed
      BY <2>1, <2>3 DEF Onb!Modify
    <3>2. QED
      BY <1>4, <2>1, <2>3, <3>1 DEF Onb!Rank
  <2>4. CASE Onb!CompleteSession(h) \/ Onb!CompleteOrg(h)
    <3>1. Onb!Rank(session) = 6
      BY <2>1, <2>4 DEF Onb!Rank
    <3>2. confirmed'[2] = confirmed[2]
      BY <2>1, <2>4 DEF Onb!CompleteSession, Onb!CompleteOrg, OnbInv, OnbOK, Onb!Steps
    <3>3. QED
      BY <3>1, <3>2
  <2>5. CASE Onb!Lock(h) \/ Onb!Load(h) \/ Onb!ApplyColumn(h) \/ Onb!CompleteTenant(h) \/ Onb!Unlock(h) \/ Onb!Fail(h)
    BY <1>4, <2>5 DEF Onb!Lock, Onb!Load, Onb!ApplyColumn, Onb!CompleteTenant, Onb!Unlock, Onb!Fail
  <2>6. QED
    BY <2>2, <2>3, <2>4, <2>5
<1>5. QED
  BY <1>2, <1>3, <1>4, Elsewhere

\* Where the handler inside is at step 2.
LEMMA AtStepTwo ==
    ASSUME Onb!PlansAssumption, None \notin Onb!Sessions, OnbInv, ~raced, NEW h \in Handlers,
           hnd[h].pc \in Confirms, hnd[h].got.step = 2
    PROVE  /\ session = hnd[h].got /\ Onb!Rank(session) = 4 /\ hnd[h].got.plan[2] \in Versions
           /\ \A g \in Handlers \ {h} : hnd[g].pc \in {"idle", "lock"}
<1>1. /\ session = hnd[h].got /\ session.status = "confirming" /\ session \in Loadable
      /\ \A g \in Handlers \ {h} : hnd[g].pc \in {"idle", "lock"}
  BY DEF OnbInv, OnbOK, HandlersOK, AsRouted, Fresh, Alone, Onb!Inside, Confirms
<1>2. QED
  BY <1>1 DEF Loadable, Onb!Rank, Onb!PlansAssumption, Onb!Steps

LEMMA ApplyOrgStructureBuilds ==
    ASSUME Onb!PlansAssumption, None \notin Onb!Sessions, OnbInv, TreeInv, NEW h \in Handlers, Onb!ApplyOrgStructure(h)
    PROVE  TreeInv'
<1> USE DEF Onb!ApplyOrgStructure, Onb!Confirming, Onb!Got, Onb!history
<1> SUFFICES ASSUME ~raced' PROVE TreeInv'
  BY DEF TreeInv
<1>1. hnd \in [Handlers -> Handling] /\ hnd[h] \in Handling /\ ~raced
  BY DEF OnbInv, OnbOK, HandlersOK
<1>2. Onb!Rank(session') = 4 /\ \A g \in Handlers \ {h} : hnd[g].pc \in {"idle", "lock"}
  BY <1>1, AtStepTwo DEF Confirms
<1>3. PICK v \in Versions : v = hnd[h].got.plan[2]
  BY <1>1, AtStepTwo DEF Confirms
<1>4. PICK l : /\ l.pc = "units" /\ l.made = {} /\ l.todo = All(v) /\ l.got = hnd[h].got
               /\ hnd' = [hnd EXCEPT ![h] = l]
  <2>1. PICK m : m = [hnd[h] EXCEPT !.pc = "units", !.made = {}, !.todo = All(v)]
    OBVIOUS
  <2>2. hnd' = [hnd EXCEPT ![h] = m]
    BY <1>1, <1>3, <2>1 DEF All
  <2>3. m.pc = "units" /\ m.made = {} /\ m.todo = All(v) /\ m.got = hnd[h].got
    BY <1>1, <2>1 DEF Handling
  <2>4. QED
    BY <2>2, <2>3
<1>5. Built({}, v, {}) /\ Refs(v, {}) = {}
  BY DEF Built, Refs
<1>6. Building(l, {})
  BY <1>3, <1>4, <1>5 DEF Building
<1>7. \A g \in Handlers : Building(hnd'[g], units')
  BY <1>1, <1>2, <1>4, <1>6 DEF Building
<1>8. ~(Onb!Rank(session') > 4)
  BY <1>2
<1>9. QED
  BY <1>7, <1>8 DEF TreeInv

\* The first unit of those left to create comes after its parent, if that is listed so.
LEMMA ParentIsMade ==
    ASSUME Onb!UnitsAssumption, NEW v \in Versions, NEW todo \in SUBSET All(v), NEW i \in todo,
           \A k \in todo \ {i} : Onb!Before(Units[v], i, k), Onb!ParentsFirst(v), Units[v][i].parent # NoRef
    PROVE  Units[v][i].parent \in Refs(v, All(v) \ todo)
<1>1. PICK j \in All(v) : /\ Units[v][j].ref = Units[v][i].parent
                          /\ j < i \/ Units[v][j].parent = NoRef
  BY DEF Onb!ParentsFirst, All
<1>2. i \in Nat /\ j \in Nat /\ j # i
  BY <1>1 DEF All, Onb!UnitsAssumption
<1>3. j \notin todo
  BY <1>1, <1>2 DEF Onb!Before
<1>4. QED
  BY <1>1, <1>3 DEF Refs

LEMMA OneMore ==
    ASSUME Onb!UnitsAssumption, NEW v \in Versions, NEW todo \in SUBSET All(v), NEW i \in todo,
           \A k \in todo \ {i} : Onb!Before(Units[v], i, k), NEW rows, Built(rows, v, All(v) \ todo), NEW h,
           NEW p, p = IF Units[v][i].parent \in Refs(v, All(v) \ todo) THEN Units[v][i].parent ELSE NoRef
    PROVE  Built(rows \cup {[ref |-> Units[v][i].ref, parent |-> p, by |-> h]}, v, All(v) \ (todo \ {i}))
<1> DEFINE made == All(v) \ todo
           new == [ref |-> Units[v][i].ref, parent |-> p, by |-> h]
<1>1. All(v) \ (todo \ {i}) = made \cup {i} /\ i \in All(v) /\ i \notin made
  OBVIOUS
<1>2. new.ref = Units[v][i].ref /\ new.parent = p
  OBVIOUS
<1>3. Onb!ParentsFirst(v) => [ref |-> new.ref, parent |-> new.parent] = Units[v][i]
  BY <1>1, <1>2, ParentIsMade DEF Onb!UnitsAssumption, All
<1>4. Onb!Distinct(v) => \A r \in rows : r.ref # new.ref
  BY <1>1, <1>2 DEF Built, Refs, Onb!Distinct, All
<1> HIDE DEF new, made
<1>5. Refs(v, made \cup {i}) = Refs(v, made) \cup {new.ref}
  BY <1>2 DEF Refs
<1>6. Built(rows, v, made)
  BY DEF made
<1>7. Built(rows \cup {new}, v, made \cup {i})
  <2>1. {r.ref : r \in rows \cup {new}} = Refs(v, made \cup {i})
    BY <1>5, <1>6 DEF Built
  <2>2. Onb!Distinct(v) => \A r, s \in rows \cup {new} : r.ref = s.ref => r = s
    BY <1>4, <1>6 DEF Built
  <2>3. ASSUME Onb!ParentsFirst(v)
        PROVE  {[ref |-> r.ref, parent |-> r.parent] : r \in rows \cup {new}} = {Units[v][k] : k \in made \cup {i}}
    <3>1. {[ref |-> r.ref, parent |-> r.parent] : r \in rows} = {Units[v][k] : k \in made}
      BY <1>6, <2>3 DEF Built
    <3>2. {[ref |-> r.ref, parent |-> r.parent] : r \in rows \cup {new}}
            = {[ref |-> r.ref, parent |-> r.parent] : r \in rows} \cup {Units[v][i]}
      BY <1>3, <2>3
    <3>3. QED
      BY <3>1, <3>2
  <2>4. QED
    BY <2>1, <2>2, <2>3 DEF Built
<1>8. QED
  BY <1>1, <1>7 DEF new

LEMMA CreateUnitBuilds ==
    ASSUME Onb!PlansAssumption, Onb!UnitsAssumption, None \notin Onb!Sessions, OnbInv, TreeInv,
           NEW h \in Handlers, Onb!CreateUnit(h)
    PROVE  TreeInv'
<1> USE DEF Onb!CreateUnit, Onb!Got, Onb!history
<1> SUFFICES ASSUME ~raced' PROVE TreeInv'
  BY DEF TreeInv
<1>1. hnd \in [Handlers -> Handling] /\ hnd[h] \in Handling /\ AsRouted(hnd[h]) /\ ~raced
  BY DEF OnbInv, OnbOK, HandlersOK
<1>2. Onb!Rank(session') = 4 /\ \A g \in Handlers \ {h} : hnd[g].pc \in {"idle", "lock"}
  BY <1>1, AtStepTwo DEF Confirms, AsRouted
<1>3. PICK v \in Versions : v = hnd[h].got.plan[2]
  BY <1>1, AtStepTwo DEF Confirms, AsRouted
<1>4. PICK todo \in SUBSET All(v) : todo = hnd[h].todo
  BY <1>1, <1>3 DEF AsRouted, All
<1>5. PICK i \in todo : /\ \A k \in todo \ {i} : Onb!Before(Units[v], i, k)
                        /\ Onb!Creates(h, i)
  BY <1>3, <1>4
<1>6. hnd[h].made = Refs(v, All(v) \ todo) /\ Built(units, v, All(v) \ todo)
  BY <1>1, <1>3, <1>4 DEF TreeInv, Building
<1>7. CASE Onb!Leave(h) /\ UNCHANGED units
  <2>1. PICK l : l.pc = "unlock" /\ hnd' = [hnd EXCEPT ![h] = l]
    BY <1>7, OutsideRouted DEF Onb!Leave
  <2>2. ~(Onb!Rank(session') > 4)
    BY <1>2
  <2>3. QED
    BY <1>1, <1>7, <2>1, <2>2, Elsewhere
<1>8. CASE ~(Onb!Leave(h) /\ UNCHANGED units)
  <2>1. PICK p : p = Onb!Parent(h, Units[v][i])
    OBVIOUS
  <2>2. p = IF Units[v][i].parent \in Refs(v, All(v) \ todo) THEN Units[v][i].parent ELSE NoRef
    BY <1>6, <2>1 DEF Onb!Parent
  <2>3. units' = units \cup {[ref |-> Units[v][i].ref, parent |-> p, by |-> h]}
    BY <1>3, <1>5, <1>8, <2>1 DEF Onb!Creates
  <2>4. Built(units', v, All(v) \ (todo \ {i}))
    BY <1>5, <1>6, <2>2, <2>3, OneMore
  <2>5. PICK l : /\ hnd' = [hnd EXCEPT ![h] = l]
                 /\ l.pc = IF todo \ {i} = {} THEN "advance" ELSE "units"
                 /\ l.made = hnd[h].made \cup {Units[v][i].ref} /\ l.todo = todo \ {i} /\ l.got = hnd[h].got
    <3>1. PICK pc : pc = IF todo \ {i} = {} THEN "advance" ELSE "units"
      OBVIOUS
    <3>2. PICK m : m = [hnd[h] EXCEPT !.todo = todo \ {i}, !.made = @ \cup {Units[v][i].ref}, !.pc = pc]
      OBVIOUS
    <3>3. hnd' = [hnd EXCEPT ![h] = m]
      BY <1>1, <1>3, <1>4, <1>5, <1>8, <3>1, <3>2 DEF Onb!Creates
    <3>4. m.pc = pc /\ m.made = hnd[h].made \cup {Units[v][i].ref} /\ m.todo = todo \ {i} /\ m.got = hnd[h].got
      BY <1>1, <3>2 DEF Handling
    <3>5. QED
      BY <3>1, <3>3, <3>4
  <2>6. l.made = Refs(v, All(v) \ (todo \ {i}))
    BY <1>5, <1>6, <2>5 DEF Refs
  <2>7. Building(l, units')
    BY <1>3, <2>4, <2>5, <2>6 DEF Building
  <2>8. \A g \in Handlers : Building(hnd'[g], units')
    BY <1>1, <1>2, <2>5, <2>7 DEF Building
  <2>9. QED
    BY <1>2, <2>8 DEF TreeInv
<1>9. QED
  BY <1>7, <1>8

LEMMA AdvanceBuilds ==
    ASSUME Onb!PlansAssumption, None \notin Onb!Sessions, OnbInv, TreeInv, NEW h \in Handlers, Onb!Advance(h)
    PROVE  TreeInv'
<1> USE DEF Onb!Advance, Onb!Confirmed, Onb!Got, Onb!tables, Onb!Save, Onb!Row
<1> SUFFICES ASSUME ~raced' PROVE TreeInv'
  BY DEF TreeInv
<1>1. /\ hnd \in [Handlers -> Handling] /\ hnd[h] \in Handling /\ AsRouted(hnd[h]) /\ ~raced
      /\ confirmed \in [Onb!Steps -> Versions \cup {None}]
  BY DEF OnbInv, OnbOK, HandlersOK
<1>2. PICK l : l.pc = "unlock" /\ hnd' = [hnd EXCEPT ![h] = l]
  BY OutsideRouted DEF Onb!Leave
<1>3. session'.status = "confirming" /\ session'.step = hnd[h].got.step + 1
  OBVIOUS
<1>4. CASE hnd[h].got.step = 2
  <2>1. Built(units, hnd[h].got.plan[2], All(hnd[h].got.plan[2]))
    BY <1>1, <1>4 DEF TreeInv, Building
  <2>2. confirmed'[2] = hnd[h].got.plan[2]
    BY <1>1, <1>4 DEF Onb!Steps
  <2>3. \A g \in Handlers : Building(hnd'[g], units)
    BY <1>1, <1>2 DEF TreeInv, Building
  <2>4. QED
    BY <2>1, <2>2, <2>3 DEF TreeInv
<1>5. CASE hnd[h].got.step \in {1, 3}
  <2>1. hnd[h].got = session /\ session \in Loadable /\ session.status = "confirming"
    BY <1>1 DEF OnbInv, Fresh, AsRouted, Confirms
  <2>2. Onb!Rank(session') > 4 => Onb!Rank(session) > 4 /\ confirmed'[2] = confirmed[2]
    BY <1>1, <1>3, <1>5, <2>1 DEF Onb!Rank, Loadable, Onb!Steps
  <2>3. QED
    BY <1>1, <1>2, <2>2, Elsewhere
<1>6. QED
  BY <1>1, <1>4, <1>5 DEF AsRouted

LEMMA TreeStays ==
    ASSUME Onb!PlansAssumption, Onb!UnitsAssumption, None \notin Onb!Sessions,
           OnbInv, TreeInv, [Onb!Next]_Onb!vars
    PROVE  TreeInv'
<1>1. ASSUME NEW h \in Handlers, Onb!HandlerStep(h)
      PROVE  TreeInv'
  BY <1>1, OthersBuild, ApplyOrgStructureBuilds, CreateUnitBuilds, AdvanceBuilds DEF Onb!HandlerStep
<1>2. CASE Onb!Expire \/ UNCHANGED Onb!vars
  BY <1>2 DEF Onb!Expire, Onb!vars, Onb!tables, Onb!history, TreeInv
<1>3. CASE Onb!Crash
  <2>1. Building(Onb!Idle, units)
    BY DEF Building, Onb!Idle
  <2>2. QED
    BY <1>3, <2>1 DEF Onb!Crash, Onb!tables, Onb!history, TreeInv
<1>4. ASSUME NEW h \in Handlers, NEW ok \in BOOLEAN, Onb!Receive(h, ok)
      PROVE  TreeInv'
  <2>1. PICK l : l.pc = "lock" /\ hnd' = [hnd EXCEPT ![h] = l]
    BY <1>4 DEF Onb!Receive, Onb!Idle
  <2>2. QED
    BY <1>4, <2>1, Elsewhere DEF Onb!Receive, Onb!tables
<1>5. QED
  BY <1>1, <1>2, <1>3, <1>4 DEF Onb!Next

LEMMA TreeShown == TreeInv => Onb!UnitsAsConfirmed
<1> SUFFICES ASSUME TreeInv, ~raced, Onb!Rank(session) > 4
             PROVE  /\ {r.ref : r \in units} = {u.ref : u \in Onb!PlannedTree(confirmed[2])}
                    /\ Onb!Distinct(confirmed[2]) => \A r, s \in units : r.ref = s.ref => r = s
                    /\ Onb!ParentsFirst(confirmed[2]) => Onb!ActualTree = Onb!PlannedTree(confirmed[2])
  BY DEF Onb!UnitsAsConfirmed
<1>1. Built(units, confirmed[2], All(confirmed[2]))
  BY DEF TreeInv
<1>2. Refs(confirmed[2], All(confirmed[2])) = {u.ref : u \in Onb!PlannedTree(confirmed[2])}
  BY DEF Refs, All, Onb!PlannedTree
<1>3. QED
  BY <1>1, <1>2 DEF Built, All, Onb!PlannedTree, Onb!ActualTree

\* Behind step 2 the table holds exactly the units the boss confirmed, once each if the
\* plan names them so and under their parents if those are listed first, unless two
\* handlers were inside at once: while they are created, the table is what the
\* handler has made of the list so far.
THEOREM UnitsAreAsConfirmed ==
    ASSUME Onb!PlansAssumption, Onb!UnitsAssumption, None \notin Onb!Sessions
    PROVE  Onb!Spec => []Onb!UnitsAsConfirmed
<1>1. Onb!Init => OnbInv /\ TreeInv
  <2>1. Building(Onb!Idle, units)
    BY DEF Building, Onb!Idle
  <2>2. Onb!Init => ~(Onb!Rank(session) > 4)
    BY DEF Onb!Init, Onb!Rank
  <2>3. QED
    BY <2>1, <2>2, OnbStarts DEF Onb!Init, TreeInv
<1>2. OnbInv /\ TreeInv /\ [Onb!Next]_Onb!vars => OnbInv' /\ TreeInv'
  BY OnbStays, TreeStays
<1>3. QED
  BY <1>1, <1>2, TreeShown, PTL DEF Onb!Spec

\* Lists of three units are lists of units.
LEMMA ThreeUnits ==
    ASSUME \A v \in Versions : Units[v] = <<Units[v][1], Units[v][2], Units[v][3]>>,
           \A v \in Versions : \A i \in 1 .. 3 :
              /\ Units[v][i] = [ref |-> Units[v][i].ref, parent |-> Units[v][i].parent]
              /\ Units[v][i].ref # NoRef
    PROVE  Onb!UnitsAssumption
<1>1. ASSUME NEW v \in Versions PROVE Len(Units[v]) = 3 /\ DOMAIN Units[v] = 1 .. 3
  <2>1. PICK a, b, c : Units[v] = <<a, b, c>>
    OBVIOUS
  <2>2. Len(<<a, b, c>>) = 3 /\ DOMAIN <<a, b, c>> = 1 .. 3
    OBVIOUS
  <2>3. QED
    BY <2>1, <2>2
<1>2. ASSUME NEW v \in Versions PROVE Len(Units[v]) \in Nat \ {0} /\ DOMAIN Units[v] = 1 .. Len(Units[v])
  <2>1. PICK n : n = Len(Units[v])
    OBVIOUS
  <2>2. n = 3 /\ DOMAIN Units[v] = 1 .. n
    BY <1>1, <2>1
  <2>3. n \in Nat \ {0}
    BY <2>2
  <2>4. QED
    BY <2>1, <2>2, <2>3, Zenon
<1>3. ASSUME NEW v \in Versions, NEW i \in DOMAIN Units[v]
      PROVE  /\ Units[v][i] = [ref |-> Units[v][i].ref, parent |-> Units[v][i].parent]
             /\ Units[v][i].ref # NoRef
  BY <1>1
<1>4. QED
  BY <1>2, <1>3, Zenon DEF Onb!UnitsAssumption

-----------------------------------------------------------------------------
(* Records: every desk works by a few kinds of steps                       *)

Rec == INSTANCE Records WITH Employees <- People, MaxRows <- MaxRecords

Tables ==
    {"review_cycles", "performance_reviews", "training_programs", "training_enrollments",
     "career_levels", "career_paths", "skills", "employee_skills", "projects", "tasks", "meetings",
     "meeting_action_items", "workflows", "reporting_lines", "goals", "key_results", "metrics",
     "incentive_rules"}
Statuses == UNION {Rec!States(t) : t \in Tables}
TheRows ==
    [table : Tables, of : Rec!Ids \cup {0}, to : Rec!Ids \cup {0}, who : Rec!People, by : Rec!People,
     status : Statuses, self : Nat, text : Nat, stamped : SUBSET Rec!Stamped, active : BOOLEAN]

\* A row of its table: only the tables with a parent refer to rows, a status that is
\* noted has been noted, and a path or a level of a skill is as it is inserted.
Upserted == {"career_paths", "employee_skills"}
Sound(r) ==
    /\ r \in TheRows /\ r.status \in Rec!States(r.table)
    /\ Rec!Parent(r.table) = "none" => r.of = 0
    /\ r.table # "career_paths" => r.to = 0
    /\ r.status \in Rec!Stamped => r.status \in r.stamped
    /\ r.table \in Upserted => r.by = None /\ r.self = 0 /\ r.stamped = {} /\ r.active = TRUE

\* What the form of a table changes.
Columns(t) ==
    CASE t = "performance_reviews" -> {"status", "self", "text"}
      [] t \in {"projects", "tasks", "meeting_action_items", "goals"} -> {"text", "status", "who"}
      [] t = "metrics" -> {"text", "who"}
      [] t \in {"review_cycles", "training_programs", "training_enrollments"} -> {"text", "status"}
      [] OTHER -> {"text"}
ValuesOf(t, c) ==
    IF c = "status" THEN Rec!States(t) ELSE IF c = "who" THEN Rec!People ELSE Nat

\* What a client holds: the form shows a row as it was.
Shown(i, r) ==
    i \in Rec!Ids /\ i < nextRow /\ Sound(r) /\ (row[i] # Rec!NoRow => row[i].table = r.table)
Held(m) ==
    /\ m.at = "open" => Shown(m.id, m.read)
    /\ m.at = "create" => Sound(m.form)
    /\ m.at = "update" =>
          /\ Shown(m.id, m.read) /\ m.field \in Columns(m.read.table)
          /\ \E v \in ValuesOf(m.read.table, m.field) : m.form = [m.read EXCEPT ![m.field] = v]
    /\ m.at = "delete" => Shown(m.id, m.form)

RecOK ==
    /\ MaxRecords \in Nat /\ nextRow \in Nat /\ edits \in Nat
    /\ row \in [Rec!Ids -> TheRows \cup {Rec!NoRow}] /\ given \in [Rec!Ids -> TheRows \cup {Rec!NoRow}]
    /\ client = [p \in Clients |-> client[p]] /\ \A p \in Clients : Held(client[p])
    /\ \A i \in Rec!Ids : row[i] # Rec!NoRow =>
          /\ i < nextRow /\ Sound(row[i])
          /\ given[i] \in TheRows /\ given[i].of < nextRow
Refer ==
    \A i \in Rec!Ids : row[i] # Rec!NoRow =>
        \A k \in {row[i].of, row[i].to} \ {0} : row[k].table = Rec!Parent(row[i].table)
AsGiven ==
    \A i \in Rec!Ids : row[i] # Rec!NoRow =>
        \/ row[i].of = given[i].of
        \/ row[i].of = 0 /\ (given[i].of = 0 \/ row[given[i].of] = Rec!NoRow)
Unique ==
    \A i, j \in Rec!Ids :
        /\ row[i] # Rec!NoRow /\ row[j] # Rec!NoRow /\ row[i].table = row[j].table
        /\ Rec!Key(row[i].table) # {"nothing"} /\ \A k \in Rec!Key(row[i].table) : row[i][k] = row[j][k]
        => i = j
RecInv == RecOK /\ Refer /\ AsGiven /\ Unique /\ Rec!EditsKept

\* The kinds.  A client lists, opens or sends, and waits;
Waiting(p) ==
    /\ \E m : Held(m) /\ client' = [client EXCEPT ![p] = m]
    /\ edits' \in Nat /\ UNCHANGED <<row, nextRow, given, clashed>>
\* a row is inserted;
Inserting(p) ==
    \E r : Sound(r) /\ Rec!Insert(p, r) /\ edits' \in Nat /\ UNCHANGED clashed
\* a form is saved, and takes from it what its statement names;
Proper(r, read, c, v, n) ==
    /\ Sound(n) /\ n.table = r.table /\ n.of = r.of /\ n.to = r.to /\ n.active = r.active
    /\ Rec!Key(r.table) # {"nothing"} => \A k \in Rec!Key(r.table) : n[k] = r[k]
    /\ (\A k \in Rec!Fields : r[k] = read[k]) =>
          /\ \A k \in Rec!Fields \ {c, "stamped"} : n[k] = r[k]
          /\ n[c] = v
          /\ n.stamped = IF c = "status" /\ v \in Rec!Stamped THEN r.stamped \cup {v} ELSE r.stamped
Writing(p) ==
    \E i \in Rec!Ids : \E new, c, v :
        /\ Rec!Update(p, i, new, c, v) /\ edits' \in Nat
        /\ Rec!Exists(i) =>
              /\ Proper(row[i], client[p].read, c, v, new)
              /\ c \in Columns(row[i].table) /\ v \in ValuesOf(row[i].table, c)
\* a row is deleted, or listed no more;
Deleting(p) == \E i \in Rec!Ids : Rec!Delete(p, i)
Retiring(p) ==
    \E i \in Rec!Ids :
        /\ row[i] # Rec!NoRow => row[i].table \notin Upserted
        /\ row' = [row EXCEPT ![i].active = FALSE] /\ given' = [given EXCEPT ![i].active = FALSE]
        /\ Rec!Answered(p) /\ UNCHANGED <<nextRow, edits, clashed>>
\* a row with the key is replaced.
Replacing(p) ==
    \E i \in Rec!Ids : \E r, n :
        /\ Rec!Exists(i) /\ Sound(r) /\ Sound(n) /\ r.table = row[i].table /\ Rec!RefersWell(r)
        /\ n.table = r.table /\ n.of = r.of
        /\ Rec!Key(r.table) # {"nothing"} => \A k \in Rec!Key(r.table) : n[k] = row[i][k]
        /\ \A k \in Rec!Fields \cup {"to", "active"} : n[k] = r[k]
        /\ row' = [row EXCEPT ![i] = n] /\ given' = [given EXCEPT ![i] = r]
        /\ Rec!Answered(p) /\ edits' \in Nat /\ UNCHANGED <<nextRow, clashed>>

-----------------------------------------------------------------------------
(* The statements                                                          *)

LEMMA KnownStates == \A t \in Tables : Rec!States(t) \subseteq Statuses
  BY DEF Statuses

LEMMA UpdateReviewCycleIsProper ==
    ASSUME NEW i \in Rec!Ids, Sound(row[i]), row[i].table = "review_cycles", NEW read, Sound(read), read.table = "review_cycles",
           NEW c \in Columns("review_cycles"), NEW v \in ValuesOf("review_cycles", c)
    PROVE  Proper(row[i], read, c, v, Rec!UpdateReviewCycle(i, [read EXCEPT ![c] = v]))
<1>1. CASE c = "text"
  BY <1>1, KnownStates DEF Proper, Sound, TheRows, Tables, Upserted, ValuesOf, Rec!States, Rec!Parent, Rec!Key, Rec!Keys,
     Rec!Stamped, Rec!Fields, Rec!UpdateReviewCycle
<1>2. CASE c = "status"
  BY <1>2, KnownStates DEF Proper, Sound, TheRows, Tables, Upserted, ValuesOf, Rec!States, Rec!Parent, Rec!Key, Rec!Keys,
     Rec!Stamped, Rec!Fields, Rec!UpdateReviewCycle
<1>3. QED
  BY <1>1, <1>2 DEF Columns

LEMMA UpdateReviewIsProper ==
    ASSUME NEW i \in Rec!Ids, Sound(row[i]), row[i].table = "performance_reviews", NEW read, Sound(read), read.table = "performance_reviews",
           NEW c \in Columns("performance_reviews"), NEW v \in ValuesOf("performance_reviews", c)
    PROVE  Proper(row[i], read, c, v, Rec!UpdateReview(i, [read EXCEPT ![c] = v]))
<1>1. CASE c = "status"
  <2> DEFINE n == Rec!UpdateReview(i, [read EXCEPT ![c] = v])
  <2>1. /\ n.table = "performance_reviews" /\ n.of = row[i].of /\ n.to = row[i].to /\ n.who = row[i].who /\ n.by = row[i].by
        /\ n.active = row[i].active
    BY <1>1 DEF Sound, TheRows, Rec!UpdateReview
  <2>2. n \in TheRows /\ n.status \in Rec!States("performance_reviews")
    BY <1>1, KnownStates DEF Sound, TheRows, Tables, ValuesOf, Rec!Stamped, Rec!UpdateReview, Rec!States
  <2>3. n.status \in Rec!Stamped => n.status \in n.stamped
    BY <1>1 DEF Sound, TheRows, ValuesOf, Rec!Stamped, Rec!States, Rec!UpdateReview
  <2>4. (\A x \in Rec!Fields : row[i][x] = read[x]) =>
           /\ \A x \in Rec!Fields \ {c, "stamped"} : n[x] = row[i][x]
           /\ n[c] = v
    BY <1>1 DEF Sound, TheRows, Rec!Fields, Rec!UpdateReview
  <2>5. (\A x \in Rec!Fields : row[i][x] = read[x]) =>
           n.stamped = IF c = "status" /\ v \in Rec!Stamped THEN row[i].stamped \cup {v} ELSE row[i].stamped
    <3>1. n.stamped = row[i].stamped \cup ({v} \cap Rec!Stamped)
      BY <1>1 DEF Sound, TheRows, ValuesOf, Rec!States, Rec!Stamped, Rec!UpdateReview
    <3>2. c = "status"
      BY <1>1 DEF Rec!Fields
    <3> HIDE DEF n
    <3>3. QED
      BY <3>1, <3>2 DEF Sound
  <2>6. Sound(n)
    BY <2>1, <2>2, <2>3 DEF Sound, Upserted, Rec!Parent
  <2>7. Rec!Key("performance_reviews") = {"of", "who"}
    BY DEF Rec!Key, Rec!Keys
  <2> HIDE DEF n
  <2>8. QED
    BY <2>1, <2>4, <2>5, <2>6, <2>7 DEF Proper, n
<1>2. CASE c = "self"
  <2> DEFINE n == Rec!UpdateReview(i, [read EXCEPT ![c] = v])
  <2>1. /\ n.table = "performance_reviews" /\ n.of = row[i].of /\ n.to = row[i].to /\ n.who = row[i].who /\ n.by = row[i].by
        /\ n.active = row[i].active
    BY <1>2 DEF Sound, TheRows, Rec!UpdateReview
  <2>2. n \in TheRows /\ n.status \in Rec!States("performance_reviews")
    BY <1>2, KnownStates DEF Sound, TheRows, Tables, ValuesOf, Rec!Stamped, Rec!UpdateReview, Rec!States
  <2>3. n.status \in Rec!Stamped => n.status \in n.stamped
    BY <1>2 DEF Sound, TheRows, ValuesOf, Rec!Stamped, Rec!States, Rec!UpdateReview
  <2>4. (\A x \in Rec!Fields : row[i][x] = read[x]) =>
           /\ \A x \in Rec!Fields \ {c, "stamped"} : n[x] = row[i][x]
           /\ n[c] = v
    BY <1>2 DEF Sound, TheRows, Rec!Fields, Rec!UpdateReview
  <2>5. (\A x \in Rec!Fields : row[i][x] = read[x]) =>
           n.stamped = IF c = "status" /\ v \in Rec!Stamped THEN row[i].stamped \cup {v} ELSE row[i].stamped
    <3>1. n.stamped = row[i].stamped \cup ({read.status} \cap Rec!Stamped)
      BY <1>2 DEF Sound, TheRows, ValuesOf, Rec!States, Rec!Stamped, Rec!UpdateReview
    <3>2. c # "status" /\ ((\A x \in Rec!Fields : row[i][x] = read[x]) => read.status = row[i].status)
      BY <1>2 DEF Rec!Fields
    <3> HIDE DEF n
    <3>3. QED
      BY <3>1, <3>2 DEF Sound
  <2>6. Sound(n)
    BY <2>1, <2>2, <2>3 DEF Sound, Upserted, Rec!Parent
  <2>7. Rec!Key("performance_reviews") = {"of", "who"}
    BY DEF Rec!Key, Rec!Keys
  <2> HIDE DEF n
  <2>8. QED
    BY <2>1, <2>4, <2>5, <2>6, <2>7 DEF Proper, n
<1>3. CASE c = "text"
  <2> DEFINE n == Rec!UpdateReview(i, [read EXCEPT ![c] = v])
  <2>1. /\ n.table = "performance_reviews" /\ n.of = row[i].of /\ n.to = row[i].to /\ n.who = row[i].who /\ n.by = row[i].by
        /\ n.active = row[i].active
    BY <1>3 DEF Sound, TheRows, Rec!UpdateReview
  <2>2. n \in TheRows /\ n.status \in Rec!States("performance_reviews")
    BY <1>3, KnownStates DEF Sound, TheRows, Tables, ValuesOf, Rec!Stamped, Rec!UpdateReview, Rec!States
  <2>3. n.status \in Rec!Stamped => n.status \in n.stamped
    BY <1>3 DEF Sound, TheRows, ValuesOf, Rec!Stamped, Rec!States, Rec!UpdateReview
  <2>4. (\A x \in Rec!Fields : row[i][x] = read[x]) =>
           /\ \A x \in Rec!Fields \ {c, "stamped"} : n[x] = row[i][x]
           /\ n[c] = v
    BY <1>3 DEF Sound, TheRows, Rec!Fields, Rec!UpdateReview
  <2>5. (\A x \in Rec!Fields : row[i][x] = read[x]) =>
           n.stamped = IF c = "status" /\ v \in Rec!Stamped THEN row[i].stamped \cup {v} ELSE row[i].stamped
    <3>1. n.stamped = row[i].stamped \cup ({read.status} \cap Rec!Stamped)
      BY <1>3 DEF Sound, TheRows, ValuesOf, Rec!States, Rec!Stamped, Rec!UpdateReview
    <3>2. c # "status" /\ ((\A x \in Rec!Fields : row[i][x] = read[x]) => read.status = row[i].status)
      BY <1>3 DEF Rec!Fields
    <3> HIDE DEF n
    <3>3. QED
      BY <3>1, <3>2 DEF Sound
  <2>6. Sound(n)
    BY <2>1, <2>2, <2>3 DEF Sound, Upserted, Rec!Parent
  <2>7. Rec!Key("performance_reviews") = {"of", "who"}
    BY DEF Rec!Key, Rec!Keys
  <2> HIDE DEF n
  <2>8. QED
    BY <2>1, <2>4, <2>5, <2>6, <2>7 DEF Proper, n
<1>4. QED
  BY <1>1, <1>2, <1>3 DEF Columns

LEMMA UpdateTrainingProgramIsProper ==
    ASSUME NEW i \in Rec!Ids, Sound(row[i]), row[i].table = "training_programs", NEW read, Sound(read), read.table = "training_programs",
           NEW c \in Columns("training_programs"), NEW v \in ValuesOf("training_programs", c)
    PROVE  Proper(row[i], read, c, v, Rec!UpdateTrainingProgram(i, [read EXCEPT ![c] = v]))
<1>1. CASE c = "text"
  BY <1>1, KnownStates DEF Proper, Sound, TheRows, Tables, Upserted, ValuesOf, Rec!States, Rec!Parent, Rec!Key, Rec!Keys,
     Rec!Stamped, Rec!Fields, Rec!UpdateTrainingProgram
<1>2. CASE c = "status"
  BY <1>2, KnownStates DEF Proper, Sound, TheRows, Tables, Upserted, ValuesOf, Rec!States, Rec!Parent, Rec!Key, Rec!Keys,
     Rec!Stamped, Rec!Fields, Rec!UpdateTrainingProgram
<1>3. QED
  BY <1>1, <1>2 DEF Columns

LEMMA UpdateEnrollmentIsProper ==
    ASSUME NEW i \in Rec!Ids, Sound(row[i]), row[i].table = "training_enrollments", NEW read, Sound(read), read.table = "training_enrollments",
           NEW c \in Columns("training_enrollments"), NEW v \in ValuesOf("training_enrollments", c)
    PROVE  Proper(row[i], read, c, v, Rec!UpdateEnrollment(i, [read EXCEPT ![c] = v]))
<1>1. CASE c = "text"
  <2> DEFINE n == Rec!UpdateEnrollment(i, [read EXCEPT ![c] = v])
  <2>1. /\ n.table = "training_enrollments" /\ n.of = row[i].of /\ n.to = row[i].to /\ n.who = row[i].who /\ n.by = row[i].by
        /\ n.active = row[i].active
    BY <1>1 DEF Sound, TheRows, Rec!UpdateEnrollment
  <2>2. n \in TheRows /\ n.status \in Rec!States("training_enrollments")
    BY <1>1, KnownStates DEF Sound, TheRows, Tables, ValuesOf, Rec!Stamped, Rec!UpdateEnrollment, Rec!States
  <2>3. n.status \in Rec!Stamped => n.status \in n.stamped
    BY <1>1 DEF Sound, TheRows, ValuesOf, Rec!Stamped, Rec!States, Rec!UpdateEnrollment
  <2>4. (\A x \in Rec!Fields : row[i][x] = read[x]) =>
           /\ \A x \in Rec!Fields \ {c, "stamped"} : n[x] = row[i][x]
           /\ n[c] = v
    BY <1>1 DEF Sound, TheRows, Rec!Fields, Rec!UpdateEnrollment
  <2>5. (\A x \in Rec!Fields : row[i][x] = read[x]) =>
           n.stamped = IF c = "status" /\ v \in Rec!Stamped THEN row[i].stamped \cup {v} ELSE row[i].stamped
    <3>1. n.stamped = row[i].stamped \cup ({read.status} \cap Rec!Stamped)
      BY <1>1 DEF Sound, TheRows, ValuesOf, Rec!States, Rec!Stamped, Rec!UpdateEnrollment
    <3>2. c # "status" /\ ((\A x \in Rec!Fields : row[i][x] = read[x]) => read.status = row[i].status)
      BY <1>1 DEF Rec!Fields
    <3> HIDE DEF n
    <3>3. QED
      BY <3>1, <3>2 DEF Sound
  <2>6. Sound(n)
    BY <2>1, <2>2, <2>3 DEF Sound, Upserted, Rec!Parent
  <2>7. Rec!Key("training_enrollments") = {"of", "who"}
    BY DEF Rec!Key, Rec!Keys
  <2> HIDE DEF n
  <2>8. QED
    BY <2>1, <2>4, <2>5, <2>6, <2>7 DEF Proper, n
<1>2. CASE c = "status"
  <2> DEFINE n == Rec!UpdateEnrollment(i, [read EXCEPT ![c] = v])
  <2>1. /\ n.table = "training_enrollments" /\ n.of = row[i].of /\ n.to = row[i].to /\ n.who = row[i].who /\ n.by = row[i].by
        /\ n.active = row[i].active
    BY <1>2 DEF Sound, TheRows, Rec!UpdateEnrollment
  <2>2. n \in TheRows /\ n.status \in Rec!States("training_enrollments")
    BY <1>2, KnownStates DEF Sound, TheRows, Tables, ValuesOf, Rec!Stamped, Rec!UpdateEnrollment, Rec!States
  <2>3. n.status \in Rec!Stamped => n.status \in n.stamped
    BY <1>2 DEF Sound, TheRows, ValuesOf, Rec!Stamped, Rec!States, Rec!UpdateEnrollment
  <2>4. (\A x \in Rec!Fields : row[i][x] = read[x]) =>
           /\ \A x \in Rec!Fields \ {c, "stamped"} : n[x] = row[i][x]
           /\ n[c] = v
    BY <1>2 DEF Sound, TheRows, Rec!Fields, Rec!UpdateEnrollment
  <2>5. (\A x \in Rec!Fields : row[i][x] = read[x]) =>
           n.stamped = IF c = "status" /\ v \in Rec!Stamped THEN row[i].stamped \cup {v} ELSE row[i].stamped
    <3>1. n.stamped = row[i].stamped \cup ({v} \cap Rec!Stamped)
      BY <1>2 DEF Sound, TheRows, ValuesOf, Rec!States, Rec!Stamped, Rec!UpdateEnrollment
    <3>2. c = "status"
      BY <1>2 DEF Rec!Fields
    <3> HIDE DEF n
    <3>3. QED
      BY <3>1, <3>2 DEF Sound
  <2>6. Sound(n)
    BY <2>1, <2>2, <2>3 DEF Sound, Upserted, Rec!Parent
  <2>7. Rec!Key("training_enrollments") = {"of", "who"}
    BY DEF Rec!Key, Rec!Keys
  <2> HIDE DEF n
  <2>8. QED
    BY <2>1, <2>4, <2>5, <2>6, <2>7 DEF Proper, n
<1>3. QED
  BY <1>1, <1>2 DEF Columns

LEMMA UpdateCareerLevelIsProper ==
    ASSUME NEW i \in Rec!Ids, Sound(row[i]), row[i].table = "career_levels", NEW read, Sound(read), read.table = "career_levels",
           NEW c \in Columns("career_levels"), NEW v \in ValuesOf("career_levels", c)
    PROVE  Proper(row[i], read, c, v, Rec!UpdateCareerLevel(i, [read EXCEPT ![c] = v]))
  BY KnownStates DEF Columns, Proper, Sound, TheRows, Tables, Upserted, ValuesOf, Rec!States, Rec!Parent, Rec!Key, Rec!Keys,
     Rec!Stamped, Rec!Fields, Rec!UpdateCareerLevel

LEMMA UpdateSkillIsProper ==
    ASSUME NEW i \in Rec!Ids, Sound(row[i]), row[i].table = "skills", NEW read, Sound(read), read.table = "skills",
           NEW c \in Columns("skills"), NEW v \in ValuesOf("skills", c)
    PROVE  Proper(row[i], read, c, v, Rec!UpdateSkill(i, [read EXCEPT ![c] = v]))
  BY KnownStates DEF Columns, Proper, Sound, TheRows, Tables, Upserted, ValuesOf, Rec!States, Rec!Parent, Rec!Key, Rec!Keys,
     Rec!Stamped, Rec!Fields, Rec!UpdateSkill

LEMMA UpdateProjectIsProper ==
    ASSUME NEW i \in Rec!Ids, Sound(row[i]), row[i].table = "projects", NEW read, Sound(read), read.table = "projects",
           NEW c \in Columns("projects"), NEW v \in ValuesOf("projects", c)
    PROVE  Proper(row[i], read, c, v, Rec!UpdateProject(i, [read EXCEPT ![c] = v]))
<1>1. CASE c = "text"
  BY <1>1, KnownStates DEF Proper, Sound, TheRows, Tables, Upserted, ValuesOf, Rec!States, Rec!Parent, Rec!Key, Rec!Keys,
     Rec!Stamped, Rec!Fields, Rec!UpdateProject
<1>2. CASE c = "status"
  BY <1>2, KnownStates DEF Proper, Sound, TheRows, Tables, Upserted, ValuesOf, Rec!States, Rec!Parent, Rec!Key, Rec!Keys,
     Rec!Stamped, Rec!Fields, Rec!UpdateProject
<1>3. CASE c = "who"
  BY <1>3, KnownStates DEF Proper, Sound, TheRows, Tables, Upserted, ValuesOf, Rec!States, Rec!Parent, Rec!Key, Rec!Keys,
     Rec!Stamped, Rec!Fields, Rec!UpdateProject
<1>4. QED
  BY <1>1, <1>2, <1>3 DEF Columns

LEMMA UpdateTaskIsProper ==
    ASSUME NEW i \in Rec!Ids, Sound(row[i]), row[i].table = "tasks", NEW read, Sound(read), read.table = "tasks",
           NEW c \in Columns("tasks"), NEW v \in ValuesOf("tasks", c)
    PROVE  Proper(row[i], read, c, v, Rec!UpdateTask(i, [read EXCEPT ![c] = v]))
<1>1. CASE c = "text"
  BY <1>1, KnownStates DEF Proper, Sound, TheRows, Tables, Upserted, ValuesOf, Rec!States, Rec!Parent, Rec!Key, Rec!Keys,
     Rec!Stamped, Rec!Fields, Rec!UpdateTask
<1>2. CASE c = "status"
  BY <1>2, KnownStates DEF Proper, Sound, TheRows, Tables, Upserted, ValuesOf, Rec!States, Rec!Parent, Rec!Key, Rec!Keys,
     Rec!Stamped, Rec!Fields, Rec!UpdateTask
<1>3. CASE c = "who"
  BY <1>3, KnownStates DEF Proper, Sound, TheRows, Tables, Upserted, ValuesOf, Rec!States, Rec!Parent, Rec!Key, Rec!Keys,
     Rec!Stamped, Rec!Fields, Rec!UpdateTask
<1>4. QED
  BY <1>1, <1>2, <1>3 DEF Columns

LEMMA UpdateMeetingIsProper ==
    ASSUME NEW i \in Rec!Ids, Sound(row[i]), row[i].table = "meetings", NEW read, Sound(read), read.table = "meetings",
           NEW c \in Columns("meetings"), NEW v \in ValuesOf("meetings", c)
    PROVE  Proper(row[i], read, c, v, Rec!UpdateMeeting(i, [read EXCEPT ![c] = v]))
  BY KnownStates DEF Columns, Proper, Sound, TheRows, Tables, Upserted, ValuesOf, Rec!States, Rec!Parent, Rec!Key, Rec!Keys,
     Rec!Stamped, Rec!Fields, Rec!UpdateMeeting

LEMMA UpdateActionItemIsProper ==
    ASSUME NEW i \in Rec!Ids, Sound(row[i]), row[i].table = "meeting_action_items", NEW read, Sound(read), read.table = "meeting_action_items",
           NEW c \in Columns("meeting_action_items"), NEW v \in ValuesOf("meeting_action_items", c)
    PROVE  Proper(row[i], read, c, v, Rec!UpdateActionItem(i, [read EXCEPT ![c] = v]))
<1>1. CASE c = "text"
  BY <1>1, KnownStates DEF Proper, Sound, TheRows, Tables, Upserted, ValuesOf, Rec!States, Rec!Parent, Rec!Key, Rec!Keys,
     Rec!Stamped, Rec!Fields, Rec!UpdateActionItem
<1>2. CASE c = "status"
  BY <1>2, KnownStates DEF Proper, Sound, TheRows, Tables, Upserted, ValuesOf, Rec!States, Rec!Parent, Rec!Key, Rec!Keys,
     Rec!Stamped, Rec!Fields, Rec!UpdateActionItem
<1>3. CASE c = "who"
  BY <1>3, KnownStates DEF Proper, Sound, TheRows, Tables, Upserted, ValuesOf, Rec!States, Rec!Parent, Rec!Key, Rec!Keys,
     Rec!Stamped, Rec!Fields, Rec!UpdateActionItem
<1>4. QED
  BY <1>1, <1>2, <1>3 DEF Columns

LEMMA UpdateWorkflowIsProper ==
    ASSUME NEW i \in Rec!Ids, Sound(row[i]), row[i].table = "workflows", NEW read, Sound(read), read.table = "workflows",
           NEW c \in Columns("workflows"), NEW v \in ValuesOf("workflows", c)
    PROVE  Proper(row[i], read, c, v, Rec!UpdateWorkflow(i, [read EXCEPT ![c] = v]))
  BY KnownStates DEF Columns, Proper, Sound, TheRows, Tables, Upserted, ValuesOf, Rec!States, Rec!Parent, Rec!Key, Rec!Keys,
     Rec!Stamped, Rec!Fields, Rec!UpdateWorkflow

LEMMA UpdateGoalIsProper ==
    ASSUME NEW i \in Rec!Ids, Sound(row[i]), row[i].table = "goals", NEW read, Sound(read), read.table = "goals",
           NEW c \in Columns("goals"), NEW v \in ValuesOf("goals", c)
    PROVE  Proper(row[i], read, c, v, Rec!UpdateGoal(i, [read EXCEPT ![c] = v]))
<1>1. CASE c = "text"
  BY <1>1, KnownStates DEF Proper, Sound, TheRows, Tables, Upserted, ValuesOf, Rec!States, Rec!Parent, Rec!Key, Rec!Keys,
     Rec!Stamped, Rec!Fields, Rec!UpdateGoal
<1>2. CASE c = "status"
  BY <1>2, KnownStates DEF Proper, Sound, TheRows, Tables, Upserted, ValuesOf, Rec!States, Rec!Parent, Rec!Key, Rec!Keys,
     Rec!Stamped, Rec!Fields, Rec!UpdateGoal
<1>3. CASE c = "who"
  BY <1>3, KnownStates DEF Proper, Sound, TheRows, Tables, Upserted, ValuesOf, Rec!States, Rec!Parent, Rec!Key, Rec!Keys,
     Rec!Stamped, Rec!Fields, Rec!UpdateGoal
<1>4. QED
  BY <1>1, <1>2, <1>3 DEF Columns

LEMMA UpdateKeyResultIsProper ==
    ASSUME NEW i \in Rec!Ids, Sound(row[i]), row[i].table = "key_results", NEW read, Sound(read), read.table = "key_results",
           NEW c \in Columns("key_results"), NEW v \in ValuesOf("key_results", c)
    PROVE  Proper(row[i], read, c, v, Rec!UpdateKeyResult(i, [read EXCEPT ![c] = v]))
  BY KnownStates DEF Columns, Proper, Sound, TheRows, Tables, Upserted, ValuesOf, Rec!States, Rec!Parent, Rec!Key, Rec!Keys,
     Rec!Stamped, Rec!Fields, Rec!UpdateKeyResult

LEMMA UpdateMetricIsProper ==
    ASSUME NEW i \in Rec!Ids, Sound(row[i]), row[i].table = "metrics", NEW read, Sound(read), read.table = "metrics",
           NEW c \in Columns("metrics"), NEW v \in ValuesOf("metrics", c)
    PROVE  Proper(row[i], read, c, v, Rec!UpdateMetric(i, [read EXCEPT ![c] = v]))
<1>1. CASE c = "text"
  BY <1>1, KnownStates DEF Proper, Sound, TheRows, Tables, Upserted, ValuesOf, Rec!States, Rec!Parent, Rec!Key, Rec!Keys,
     Rec!Stamped, Rec!Fields, Rec!UpdateMetric
<1>2. CASE c = "who"
  BY <1>2, KnownStates DEF Proper, Sound, TheRows, Tables, Upserted, ValuesOf, Rec!States, Rec!Parent, Rec!Key, Rec!Keys,
     Rec!Stamped, Rec!Fields, Rec!UpdateMetric
<1>3. QED
  BY <1>1, <1>2 DEF Columns

LEMMA UpdateIncentiveRuleIsProper ==
    ASSUME NEW i \in Rec!Ids, Sound(row[i]), row[i].table = "incentive_rules", NEW read, Sound(read), read.table = "incentive_rules",
           NEW c \in Columns("incentive_rules"), NEW v \in ValuesOf("incentive_rules", c)
    PROVE  Proper(row[i], read, c, v, Rec!UpdateIncentiveRule(i, [read EXCEPT ![c] = v]))
  BY KnownStates DEF Columns, Proper, Sound, TheRows, Tables, Upserted, ValuesOf, Rec!States, Rec!Parent, Rec!Key, Rec!Keys,
     Rec!Stamped, Rec!Fields, Rec!UpdateIncentiveRule

-----------------------------------------------------------------------------
(* Records: the kinds keep the invariant                                   *)

\* What a client holds survives, as long as no row becomes another.
LEMMA HeldStays ==
    ASSUME RecOK, NEW m, Held(m), nextRow' \in Nat, nextRow' >= nextRow,
           \A i \in Rec!Ids : i < nextRow /\ row'[i] # Rec!NoRow => row[i] # Rec!NoRow /\ row'[i].table = row[i].table
    PROVE  Held(m)'
<1>1. ASSUME NEW i, NEW r, Shown(i, r) PROVE Shown(i, r)'
  BY <1>1 DEF Shown, RecOK, Rec!Ids
<1>2. QED
  BY <1>1 DEF Held

LEMMA ClientsStay ==
    ASSUME RecOK, NEW p \in Clients, NEW m, Held(m)', client' = [client EXCEPT ![p] = m],
           nextRow' \in Nat, nextRow' >= nextRow,
           \A i \in Rec!Ids : i < nextRow /\ row'[i] # Rec!NoRow => row[i] # Rec!NoRow /\ row'[i].table = row[i].table
    PROVE  (client = [q \in Clients |-> client[q]] /\ \A q \in Clients : Held(client[q]))'
<1>1. client' = [q \in Clients |-> client'[q]]
  BY DEF RecOK
<1>2. ASSUME NEW q \in Clients PROVE Held(client[q])'
  <2>1. CASE q = p
    <3>1. client'[q] = m
      BY <2>1 DEF RecOK
    <3>2. QED
      BY <3>1
  <2>2. CASE q # p
    <3>1. PICK l : l = client[q]
      OBVIOUS
    <3>2. Held(l)'
      BY <3>1, HeldStays DEF RecOK
    <3>3. client'[q] = l
      BY <2>2, <3>1 DEF RecOK
    <3>4. QED
      BY <3>2, <3>3
  <2>3. QED
    BY <2>1, <2>2
<1>3. QED
  BY <1>1, <1>2

LEMMA ClosedHeld == Held(Rec!Closed) /\ (Held(Rec!Closed))'
  BY DEF Held, Rec!Closed

LEMMA Apart == \A r \in TheRows : r # Rec!NoRow /\ r.table # "none"
  BY DEF TheRows, Tables, Rec!NoRow

LEMMA WaitingKeeps ==
    ASSUME RecInv, NEW p \in Clients, Waiting(p)
    PROVE  RecInv'
<1>1. PICK m : Held(m) /\ client' = [client EXCEPT ![p] = m]
  BY DEF Waiting
<1>2. UNCHANGED <<row, nextRow, given, clashed>> /\ edits' \in Nat
  BY DEF Waiting
<1>3. (client = [q \in Clients |-> client[q]] /\ \A q \in Clients : Held(client[q]))'
  BY <1>1, <1>2, HeldStays, ClientsStay DEF RecInv, RecOK
<1>4. RecOK'
  BY <1>2, <1>3 DEF RecInv, RecOK
<1>5. Refer' /\ AsGiven' /\ Unique' /\ Rec!EditsKept'
  BY <1>2 DEF RecInv, Refer, AsGiven, Unique, Rec!EditsKept, Rec!Exists
<1>6. QED
  BY <1>4, <1>5 DEF RecInv

LEMMA InsertingKeeps ==
    ASSUME RecInv, NEW p \in Clients, Inserting(p)
    PROVE  RecInv'
<1>1. PICK r : Sound(r) /\ Rec!Insert(p, r) /\ edits' \in Nat /\ UNCHANGED clashed
  BY DEF Inserting
<1>2. Rec!Answered(p) /\ client' = [client EXCEPT ![p] = Rec!Closed]
  BY <1>1 DEF Rec!Insert, Rec!Answered
<1>3. CASE ~(nextRow \in Rec!Ids /\ Rec!Fits(r))
  BY <1>1, <1>2, <1>3, ClosedHeld, WaitingKeeps DEF Waiting, Rec!Insert
<1>4. CASE nextRow \in Rec!Ids /\ Rec!Fits(r)
  <2>1. /\ row' = [row EXCEPT ![nextRow] = r] /\ given' = [given EXCEPT ![nextRow] = r]
        /\ nextRow' = nextRow + 1 /\ nextRow \in Nat /\ r \in TheRows
        /\ row \in [Rec!Ids -> TheRows \cup {Rec!NoRow}] /\ given \in [Rec!Ids -> TheRows \cup {Rec!NoRow}]
        /\ row[nextRow] = Rec!NoRow
        /\ \A i \in Rec!Ids : row[i] # Rec!NoRow => i < nextRow /\ Sound(row[i])
    BY <1>1, <1>4 DEF Rec!Insert, RecInv, RecOK, Sound, Rec!Ids
  <2>0. nextRow' \in Nat /\ nextRow' >= nextRow /\ \A i \in Rec!Ids : i < nextRow => row'[i] = row[i]
    BY <2>1 DEF Rec!Ids
  <2>2. (client = [q \in Clients |-> client[q]] /\ \A q \in Clients : Held(client[q]))'
    BY <1>2, <2>0, ClosedHeld, ClientsStay DEF RecInv
  <2>3. \A k \in {r.of, r.to} \ {0} : /\ k \in Rec!Ids /\ row[k].table = Rec!Parent(r.table)
                                      /\ row[k] # Rec!NoRow /\ k < nextRow
    <3>1. \A k \in {r.of, r.to} \ {0} : /\ k \in Rec!Ids /\ row[k].table = Rec!Parent(r.table)
                                        /\ Rec!Parent(r.table) # "none"
      BY <1>1, <1>4 DEF Rec!Fits, Rec!RefersWell, Sound, TheRows, Rec!Parent
    <3>2. QED
      BY <2>1, <3>1 DEF Rec!NoRow
  <2>4. RecOK'
    <3>1. r.of < nextRow + 1
      BY <2>1, <2>3 DEF TheRows, RecInv, RecOK, Rec!Ids
    <3>2. ASSUME NEW i \in Rec!Ids, row'[i] # Rec!NoRow
          PROVE  i < nextRow' /\ Sound(row'[i]) /\ given'[i] \in TheRows /\ given'[i].of < nextRow'
      <4>1. CASE i = nextRow
        <5>1. row'[i] = r /\ given'[i] = r
          BY <2>1, <4>1
        <5>2. QED
          BY <1>1, <2>1, <3>1, <4>1, <5>1
      <4>2. CASE i # nextRow
        <5>1. row'[i] = row[i] /\ given'[i] = given[i]
          BY <2>1, <4>2
        <5>2. i < nextRow /\ Sound(row[i]) /\ given[i] \in TheRows /\ given[i].of < nextRow
          BY <3>2, <5>1 DEF RecInv, RecOK
        <5>3. given[i].of \in Nat
          BY <5>2 DEF TheRows, Rec!Ids
        <5>4. QED
          BY <2>1, <5>1, <5>2, <5>3 DEF Rec!Ids
      <4>3. QED
        BY <4>1, <4>2
    <3>3. row' \in [Rec!Ids -> TheRows \cup {Rec!NoRow}] /\ given' \in [Rec!Ids -> TheRows \cup {Rec!NoRow}]
      BY <2>1
    <3>4. QED
      BY <1>1, <2>0, <2>2, <3>2, <3>3 DEF RecInv, RecOK
  <2>5. Refer'
    <3> SUFFICES ASSUME NEW i \in Rec!Ids, row'[i] # Rec!NoRow, NEW k \in {row'[i].of, row'[i].to} \ {0}
                 PROVE  row'[k].table = Rec!Parent(row'[i].table)
      BY DEF Refer
    <3>1. CASE i = nextRow
      BY <2>1, <2>3, <3>1
    <3>2. CASE i # nextRow
      <4>1. row'[i] = row[i] /\ row[k].table = Rec!Parent(row[i].table) /\ k \in Rec!Ids
        BY <2>1, <3>2 DEF RecInv, Refer, Sound, TheRows
      <4>2. Rec!Parent(row[i].table) # "none"
        BY <2>1, <4>1 DEF Sound, Rec!Parent
      <4>3. k # nextRow
        BY <2>1, <4>1, <4>2 DEF Rec!NoRow
      <4>4. QED
        BY <2>1, <4>1, <4>3
    <3>3. QED
      BY <3>1, <3>2
  <2>6. AsGiven'
    <3> SUFFICES ASSUME NEW i \in Rec!Ids, row'[i] # Rec!NoRow
                 PROVE  \/ row'[i].of = given'[i].of
                        \/ row'[i].of = 0 /\ (given'[i].of = 0 \/ row'[given'[i].of] = Rec!NoRow)
      BY DEF AsGiven
    <3>1. CASE i = nextRow
      BY <2>1, <3>1
    <3>2. CASE i # nextRow
      <4>1. /\ row'[i] = row[i] /\ given'[i] = given[i] /\ given[i].of < nextRow
            /\ given[i].of \in Rec!Ids \cup {0}
        BY <2>1, <3>2 DEF RecInv, RecOK, TheRows
      <4>2. given[i].of # 0 => row'[given[i].of] = row[given[i].of]
        BY <2>1, <4>1 DEF Rec!Ids
      <4>3. QED
        BY <4>1, <4>2 DEF RecInv, AsGiven
    <3>3. QED
      BY <3>1, <3>2
  <2>7. Unique'
    <3>1. Rec!Key(r.table) # {"nothing"} => Rec!Key(r.table) \subseteq DOMAIN r
      BY <2>1 DEF TheRows, Tables, Rec!Key, Rec!Keys
    <3>2. \A i \in Rec!Ids : row[i].table = r.table /\ Rec!Key(r.table) # {"nothing"} =>
             \E k \in Rec!Key(r.table) : row[i][k] # r[k]
      BY <1>4, <3>1 DEF Rec!Fits, Rec!Conflicts, Rec!In
    <3> SUFFICES ASSUME NEW i \in Rec!Ids, NEW j \in Rec!Ids, row'[i] # Rec!NoRow, row'[j] # Rec!NoRow,
                        row'[i].table = row'[j].table, Rec!Key(row'[i].table) # {"nothing"},
                        \A k \in Rec!Key(row'[i].table) : row'[i][k] = row'[j][k]
                 PROVE  i = j
      BY DEF Unique
    <3>3. CASE i = nextRow /\ j # nextRow
      <4>1. row'[i] = r /\ row'[j] = row[j]
        BY <2>1, <3>3
      <4>2. QED
        BY <3>2, <4>1
    <3>4. CASE i # nextRow /\ j = nextRow
      <4>1. row'[j] = r /\ row'[i] = row[i]
        BY <2>1, <3>4
      <4>2. QED
        BY <3>2, <4>1
    <3>5. CASE i # nextRow /\ j # nextRow
      <4>1. row'[i] = row[i] /\ row'[j] = row[j]
        BY <2>1, <3>5
      <4>2. QED
        BY <4>1 DEF RecInv, Unique
    <3>6. QED
      BY <3>3, <3>4, <3>5
  <2>8. Rec!EditsKept'
    BY <1>1, <2>1 DEF RecInv, Rec!EditsKept, Rec!Exists
  <2>9. QED
    BY <2>4, <2>5, <2>6, <2>7, <2>8 DEF RecInv
<1>5. QED
  BY <1>3, <1>4

\* A row that changes, and neither its references nor its key.
LEMMA ChangeKeeps ==
    ASSUME RecInv, NEW p \in Clients, Rec!Answered(p), UNCHANGED nextRow, edits' \in Nat,
           NEW i \in Rec!Ids, row[i] # Rec!NoRow, NEW n, NEW g, Sound(n), g \in TheRows, g.of < nextRow,
           row' = [row EXCEPT ![i] = n], given' = [given EXCEPT ![i] = g], n.table = row[i].table,
           \A k \in {n.of, n.to} \ {0} : row[k].table = Rec!Parent(n.table),
           n.of = g.of \/ (n.of = 0 /\ (g.of = 0 \/ row[g.of] = Rec!NoRow)),
           Rec!Key(n.table) # {"nothing"} => \A k \in Rec!Key(n.table) : n[k] = row[i][k]
    PROVE  RecOK' /\ Refer' /\ AsGiven' /\ Unique'
<1>1. /\ row \in [Rec!Ids -> TheRows \cup {Rec!NoRow}] /\ given \in [Rec!Ids -> TheRows \cup {Rec!NoRow}]
      /\ n \in TheRows /\ n # Rec!NoRow /\ nextRow \in Nat
  BY Apart DEF RecInv, RecOK, Sound
<1>2. \A j \in Rec!Ids : /\ row'[j].table = row[j].table
                         /\ row'[j] # Rec!NoRow <=> row[j] # Rec!NoRow
  BY <1>1
<1>3. RecOK'
  <2>1. (client = [q \in Clients |-> client[q]] /\ \A q \in Clients : Held(client[q]))'
    <3>1. nextRow' \in Nat /\ nextRow' >= nextRow
      BY <1>1
    <3>2. RecOK
      BY DEF RecInv
    <3>3. client' = [client EXCEPT ![p] = Rec!Closed]
      BY DEF Rec!Answered
    <3>4. \A j \in Rec!Ids : j < nextRow /\ row'[j] # Rec!NoRow => row[j] # Rec!NoRow /\ row'[j].table = row[j].table
      BY <1>2
    <3>5. QED
      BY <3>1, <3>2, <3>3, <3>4, ClosedHeld, ClientsStay
  <2>2. row' \in [Rec!Ids -> TheRows \cup {Rec!NoRow}] /\ given' \in [Rec!Ids -> TheRows \cup {Rec!NoRow}]
    BY <1>1
  <2>3. ASSUME NEW j \in Rec!Ids, row'[j] # Rec!NoRow
        PROVE  j < nextRow' /\ Sound(row'[j]) /\ given'[j] \in TheRows /\ given'[j].of < nextRow'
    <3>1. CASE j = i
      BY <1>1, <3>1 DEF RecInv, RecOK
    <3>2. CASE j # i
      BY <1>1, <2>3, <3>2 DEF RecInv, RecOK
    <3>3. QED
      BY <3>1, <3>2
  <2>4. QED
    BY <2>1, <2>2, <2>3 DEF RecInv, RecOK
<1>4. Refer'
  <2> SUFFICES ASSUME NEW j \in Rec!Ids, row'[j] # Rec!NoRow, NEW k \in {row'[j].of, row'[j].to} \ {0}
               PROVE  row'[k].table = Rec!Parent(row'[j].table)
    BY DEF Refer
  <2>1. row[k].table = Rec!Parent(row'[j].table)
    <3>1. CASE j = i
      BY <1>1, <3>1
    <3>2. CASE j # i
      BY <1>1, <3>2 DEF RecInv, Refer
    <3>3. QED
      BY <3>1, <3>2
  <2>2. k \in Rec!Ids
    BY <1>1 DEF TheRows
  <2>3. QED
    BY <1>2, <2>1, <2>2
<1>5. AsGiven'
  <2> SUFFICES ASSUME NEW j \in Rec!Ids, row'[j] # Rec!NoRow
               PROVE  \/ row'[j].of = given'[j].of
                      \/ row'[j].of = 0 /\ (given'[j].of = 0 \/ row'[given'[j].of] = Rec!NoRow)
    BY DEF AsGiven
  <2>1. \/ row'[j].of = given'[j].of
        \/ row'[j].of = 0 /\ (given'[j].of = 0 \/ row[given'[j].of] = Rec!NoRow)
    <3>1. CASE j = i
      BY <1>1, <3>1
    <3>2. CASE j # i
      BY <1>1, <3>2 DEF RecInv, AsGiven
    <3>3. QED
      BY <3>1, <3>2
  <2>2. given'[j].of \in Rec!Ids \cup {0}
    BY <1>3 DEF RecOK, TheRows
  <2>3. QED
    BY <1>2, <2>1, <2>2
<1>6. Unique'
  <2>1. \A j \in Rec!Ids : Rec!Key(row[j].table) # {"nothing"} => \A k \in Rec!Key(row[j].table) : row'[j][k] = row[j][k]
    BY <1>1
  <2>2. QED
    BY <1>2, <2>1 DEF RecInv, Unique
<1>7. QED
  BY <1>3, <1>4, <1>5, <1>6

LEMMA WritingKeeps ==
    ASSUME RecInv, NEW p \in Clients, Writing(p)
    PROVE  RecInv'
<1>0. PICK i \in Rec!Ids : \E n, c, v :
         /\ Rec!Update(p, i, n, c, v) /\ edits' \in Nat
         /\ Rec!Exists(i) => /\ Proper(row[i], client[p].read, c, v, n)
                             /\ c \in Columns(row[i].table) /\ v \in ValuesOf(row[i].table, c)
  BY DEF Writing
<1>1. PICK n, c, v :
         /\ Rec!Update(p, i, n, c, v) /\ edits' \in Nat
         /\ Rec!Exists(i) => /\ Proper(row[i], client[p].read, c, v, n)
                             /\ c \in Columns(row[i].table) /\ v \in ValuesOf(row[i].table, c)
  BY <1>0
<1>2. Rec!Answered(p) /\ client' = [client EXCEPT ![p] = Rec!Closed] /\ UNCHANGED nextRow
  BY <1>1 DEF Rec!Update, Rec!Answered
<1>3. CASE ~Rec!Exists(i)
  BY <1>1, <1>2, <1>3, ClosedHeld, WaitingKeeps DEF Waiting, Rec!Update
<1>4. CASE Rec!Exists(i)
  <2> DEFINE stamped == IF c = "status" /\ v \in Rec!Stamped THEN given[i].stamped \cup {v} ELSE given[i].stamped
             g == Rec!Edited(given[i], c, v)
  <2>1. /\ row[i] # Rec!NoRow /\ Sound(row[i]) /\ given[i] \in TheRows /\ given[i].of < nextRow
        /\ row \in [Rec!Ids -> TheRows \cup {Rec!NoRow}] /\ given \in [Rec!Ids -> TheRows \cup {Rec!NoRow}]
    BY <1>4 DEF Rec!Exists, RecInv, RecOK
  <2>2. /\ row' = [row EXCEPT ![i] = n]
        /\ clashed' = IF \E k \in Rec!Fields : row[i][k] # client[p].read[k] THEN clashed \cup {i} ELSE clashed
    BY <1>1, <1>4 DEF Rec!Update
  <2>4. c \in {"status", "who", "self", "text"}
    BY <1>1, <1>4 DEF Columns
  <2>3. given' = [given EXCEPT ![i] = g]
    BY <1>1, <1>4, <2>1 DEF Rec!Update
  <2>5. /\ g \in TheRows /\ g.of = given[i].of /\ g.to = given[i].to /\ g.active = given[i].active
        /\ g[c] = v /\ g.stamped = stamped /\ \A k \in Rec!Fields \ {c, "stamped"} : g[k] = given[i][k]
    <3>1. v \in IF c = "status" THEN Statuses ELSE IF c = "who" THEN Rec!People ELSE Nat
      BY <1>1, <1>4, <2>1, KnownStates DEF ValuesOf, Sound, TheRows
    <3>2. stamped \in SUBSET Rec!Stamped
      BY <2>1 DEF TheRows
    <3>3. g = [given[i] EXCEPT ![c] = v, !.stamped = stamped]
      BY <2>1, <2>4 DEF Rec!Edited, TheRows
    <3> HIDE DEF stamped, g
    <3>4. QED
      BY <2>1, <2>4, <3>1, <3>2, <3>3 DEF TheRows, Rec!Fields
  <2> HIDE DEF g
  <2>6. /\ Sound(n) /\ n.table = row[i].table /\ n.of = row[i].of /\ n.to = row[i].to /\ n.active = row[i].active
        /\ Rec!Key(n.table) # {"nothing"} => \A k \in Rec!Key(n.table) : n[k] = row[i][k]
    BY <1>1, <1>4 DEF Proper
  <2>7. RecOK' /\ Refer' /\ AsGiven' /\ Unique'
    <3>1. \A k \in {n.of, n.to} \ {0} : row[k].table = Rec!Parent(n.table)
      BY <2>1, <2>6 DEF RecInv, Refer
    <3>2. n.of = g.of \/ (n.of = 0 /\ (g.of = 0 \/ row[g.of] = Rec!NoRow))
      BY <2>1, <2>5, <2>6 DEF RecInv, AsGiven
    <3>3. QED
      BY <1>1, <1>2, <2>1, <2>2, <2>3, <2>5, <2>6, <3>1, <3>2, ChangeKeeps
  <2>8. Rec!EditsKept'
    <3> SUFFICES ASSUME NEW j \in Rec!Ids \ clashed', row'[j] # Rec!NoRow, NEW k \in Rec!Fields \cup {"to", "active"}
                 PROVE  row'[j][k] = given'[j][k]
      BY DEF Rec!EditsKept, Rec!Exists
    <3>1. CASE j # i
      BY <2>1, <2>2, <2>3, <3>1 DEF RecInv, Rec!EditsKept, Rec!Exists, Rec!Ids
    <3>2. CASE j = i
      <4>1. /\ \A x \in Rec!Fields : row[i][x] = client[p].read[x]
            /\ \A x \in Rec!Fields \cup {"to", "active"} : row[i][x] = given[i][x]
        BY <1>4, <2>2, <3>2 DEF RecInv, Rec!EditsKept
      <4>2. /\ \A x \in Rec!Fields \ {c, "stamped"} : n[x] = row[i][x]
            /\ n[c] = v
            /\ n.stamped = IF c = "status" /\ v \in Rec!Stamped THEN row[i].stamped \cup {v} ELSE row[i].stamped
        BY <1>1, <1>4, <4>1 DEF Proper
      <4>3. row[i].stamped = given[i].stamped /\ row[i].to = given[i].to /\ row[i].active = given[i].active
        BY <4>1 DEF Rec!Fields
      <4>4. n[k] = g[k]
        BY <2>5, <2>6, <4>1, <4>2, <4>3
      <4>5. QED
        BY <2>1, <2>2, <2>3, <3>2, <4>4
    <3>3. QED
      BY <3>1, <3>2
  <2>9. QED
    BY <2>7, <2>8 DEF RecInv
<1>5. QED
  BY <1>3, <1>4

LEMMA RetiringKeeps ==
    ASSUME RecInv, NEW p \in Clients, Retiring(p)
    PROVE  RecInv'
<1>1. PICK i \in Rec!Ids :
         /\ row[i] # Rec!NoRow => row[i].table \notin Upserted
         /\ row' = [row EXCEPT ![i].active = FALSE] /\ given' = [given EXCEPT ![i].active = FALSE]
         /\ Rec!Answered(p) /\ UNCHANGED <<nextRow, edits, clashed>>
  BY DEF Retiring
<1>2. row \in [Rec!Ids -> TheRows \cup {Rec!NoRow}] /\ given \in [Rec!Ids -> TheRows \cup {Rec!NoRow}] /\ edits \in Nat
  BY DEF RecInv, RecOK
<1>3. PICK n : n = [row[i] EXCEPT !.active = FALSE]
  OBVIOUS
<1>4. PICK g : g = [given[i] EXCEPT !.active = FALSE]
  OBVIOUS
<1>5. row' = [row EXCEPT ![i] = n] /\ given' = [given EXCEPT ![i] = g]
  BY <1>1, <1>2, <1>3, <1>4
<1>6. CASE row[i] = Rec!NoRow
  <2>1. n = Rec!NoRow
    BY <1>3, <1>6 DEF Rec!NoRow
  <2>2. row' = row
    BY <1>2, <1>5, <1>6, <2>1
  <2>3. \A j \in Rec!Ids : row[j] # Rec!NoRow => given'[j] = given[j]
    BY <1>2, <1>5, <1>6
  <2>4. given' \in [Rec!Ids -> TheRows \cup {Rec!NoRow}]
    <3>1. [Rec!NoRow EXCEPT !.active = FALSE] = Rec!NoRow
      BY DEF Rec!NoRow
    <3>2. given[i] \in TheRows => g \in TheRows
      BY <1>4 DEF TheRows
    <3>3. QED
      BY <1>2, <1>4, <1>5, <3>1, <3>2
  <2>5. (client = [q \in Clients |-> client[q]] /\ \A q \in Clients : Held(client[q]))'
    BY <1>1, <2>2, ClosedHeld, ClientsStay DEF RecInv, RecOK, Rec!Answered
  <2>6. RecOK'
    BY <1>1, <1>2, <2>2, <2>3, <2>4, <2>5 DEF RecInv, RecOK
  <2>7. Refer' /\ AsGiven' /\ Unique' /\ Rec!EditsKept'
    <3>1. Refer' /\ Unique'
      BY <2>2 DEF RecInv, Refer, Unique
    <3>2. AsGiven'
      BY <2>2, <2>3 DEF RecInv, AsGiven
    <3>3. Rec!EditsKept'
      <4> SUFFICES ASSUME NEW j \in Rec!Ids \ clashed, row'[j] # Rec!NoRow, NEW k \in Rec!Fields \cup {"to", "active"}
                   PROVE  row'[j][k] = given'[j][k]
        BY <1>1 DEF Rec!EditsKept, Rec!Exists
      <4>1. row[j][k] = given[j][k]
        BY <2>2 DEF RecInv, Rec!EditsKept, Rec!Exists, Rec!Ids
      <4>2. QED
        BY <2>2, <2>3, <4>1
    <3>4. QED
      BY <3>1, <3>2, <3>3
  <2>8. QED
    BY <2>6, <2>7 DEF RecInv
<1>7. CASE row[i] # Rec!NoRow
  <2>1. Sound(row[i]) /\ row[i] \in TheRows /\ given[i] \in TheRows /\ given[i].of < nextRow
    BY <1>7 DEF RecInv, RecOK, Sound
  <2>2. /\ n \in TheRows /\ n.active = FALSE
        /\ \A k \in {"table", "of", "to", "who", "by", "status", "self", "text", "stamped"} : n[k] = row[i][k]
    BY <1>3, <2>1 DEF TheRows
  <2>3. /\ g \in TheRows /\ g.active = FALSE
        /\ \A k \in {"table", "of", "to", "who", "by", "status", "self", "text", "stamped"} : g[k] = given[i][k]
    BY <1>4, <2>1 DEF TheRows
  <2>4. /\ n.table = row[i].table /\ n.of = row[i].of /\ n.to = row[i].to /\ n.status = row[i].status
        /\ n.stamped = row[i].stamped /\ g.of = given[i].of
    BY <2>2, <2>3
  <2>5. Sound(n)
    BY <1>1, <1>7, <2>1, <2>2, <2>4 DEF Sound
  <2>6. Rec!Key(n.table) # {"nothing"} => \A k \in Rec!Key(n.table) : n[k] = row[i][k]
    BY <2>2 DEF Rec!Key, Rec!Keys
  <2>7. RecOK' /\ Refer' /\ AsGiven' /\ Unique'
    <3>1. \A k \in {n.of, n.to} \ {0} : row[k].table = Rec!Parent(n.table)
      BY <1>7, <2>4 DEF RecInv, Refer
    <3>2. n.of = g.of \/ (n.of = 0 /\ (g.of = 0 \/ row[g.of] = Rec!NoRow))
      BY <1>7, <2>4 DEF RecInv, AsGiven
    <3>3. QED
      <4>1. Rec!Answered(p) /\ UNCHANGED nextRow /\ edits' \in Nat /\ g \in TheRows /\ g.of < nextRow
        BY <1>1, <1>2, <2>1, <2>3, <2>4
      <4>2. QED
        BY <1>5, <1>7, <2>4, <2>5, <2>6, <3>1, <3>2, <4>1, ChangeKeeps
  <2>8. Rec!EditsKept'
    <3> SUFFICES ASSUME NEW j \in Rec!Ids \ clashed, row'[j] # Rec!NoRow, NEW k \in Rec!Fields \cup {"to", "active"}
                 PROVE  row'[j][k] = given'[j][k]
      BY <1>1 DEF Rec!EditsKept, Rec!Exists
    <3>1. CASE j # i
      BY <1>2, <1>5, <3>1 DEF RecInv, Rec!EditsKept, Rec!Exists, Rec!Ids
    <3>2. CASE j = i
      <4>1. row[i][k] = given[i][k]
        BY <1>7, <3>2 DEF RecInv, Rec!EditsKept, Rec!Exists, Rec!Ids
      <4>2. n[k] = g[k]
        BY <2>2, <2>3, <4>1 DEF Rec!Fields
      <4>3. QED
        BY <1>2, <1>5, <3>2, <4>2
    <3>3. QED
      BY <3>1, <3>2
  <2>9. QED
    BY <2>7, <2>8 DEF RecInv
<1>8. QED
  BY <1>6, <1>7

LEMMA ReplacingKeeps ==
    ASSUME RecInv, NEW p \in Clients, Replacing(p)
    PROVE  RecInv'
<1>0. PICK i \in Rec!Ids : \E r, n :
        /\ Rec!Exists(i) /\ Sound(r) /\ Sound(n) /\ r.table = row[i].table /\ Rec!RefersWell(r)
        /\ n.table = r.table /\ n.of = r.of
        /\ Rec!Key(r.table) # {"nothing"} => \A k \in Rec!Key(r.table) : n[k] = row[i][k]
        /\ \A k \in Rec!Fields \cup {"to", "active"} : n[k] = r[k]
        /\ row' = [row EXCEPT ![i] = n] /\ given' = [given EXCEPT ![i] = r]
        /\ Rec!Answered(p) /\ edits' \in Nat /\ UNCHANGED <<nextRow, clashed>>
  BY DEF Replacing
<1>1. PICK r, n :
        /\ Rec!Exists(i) /\ Sound(r) /\ Sound(n) /\ r.table = row[i].table /\ Rec!RefersWell(r)
        /\ n.table = r.table /\ n.of = r.of
        /\ Rec!Key(r.table) # {"nothing"} => \A k \in Rec!Key(r.table) : n[k] = row[i][k]
        /\ \A k \in Rec!Fields \cup {"to", "active"} : n[k] = r[k]
        /\ row' = [row EXCEPT ![i] = n] /\ given' = [given EXCEPT ![i] = r]
        /\ Rec!Answered(p) /\ edits' \in Nat /\ UNCHANGED <<nextRow, clashed>>
  BY <1>0
<1>2. /\ row[i] # Rec!NoRow /\ n.to = r.to
      /\ row \in [Rec!Ids -> TheRows \cup {Rec!NoRow}] /\ given \in [Rec!Ids -> TheRows \cup {Rec!NoRow}]
  BY <1>1 DEF Rec!Exists, RecInv, RecOK
<1>3. r.of < nextRow
  <2>1. CASE r.of = 0
    BY <1>2, <2>1 DEF RecInv, RecOK, Rec!Ids
  <2>2. CASE r.of # 0
    <3>1. r.of \in Rec!Ids /\ row[r.of].table = Rec!Parent(r.table) /\ Rec!Parent(r.table) # "none"
      BY <1>1, <2>2 DEF Rec!RefersWell, Sound, TheRows
    <3>2. row[r.of] # Rec!NoRow
      BY <3>1 DEF Rec!NoRow
    <3>3. QED
      BY <3>1, <3>2 DEF RecInv, RecOK
  <2>3. QED
    BY <2>1, <2>2
<1>4. RecOK' /\ Refer' /\ AsGiven' /\ Unique'
  <2>1. \A k \in {n.of, n.to} \ {0} : row[k].table = Rec!Parent(n.table)
    BY <1>1, <1>2 DEF Rec!RefersWell
  <2>2. r \in TheRows
    BY <1>1 DEF Sound
  <2>3. QED
    BY <1>1, <1>2, <1>3, <2>1, <2>2, ChangeKeeps
<1>5. Rec!EditsKept'
  BY <1>1, <1>2 DEF RecInv, Rec!EditsKept, Rec!Exists, Rec!Ids
<1>6. QED
  BY <1>4, <1>5 DEF RecInv

\* A row is deleted with those that go with it, unless one refers to it that stays.
LEMMA DeletingKeeps ==
    ASSUME RecInv, NEW p \in Clients, Deleting(p)
    PROVE  RecInv'
<1>1. PICK i \in Rec!Ids : Rec!Delete(p, i)
  BY DEF Deleting
<1>2. client' = [client EXCEPT ![p] = Rec!Closed] /\ UNCHANGED <<nextRow, edits, given, clashed>>
  BY <1>1 DEF Rec!Delete, Rec!Answered, Rec!ghosts
<1>3. CASE row' = row
  BY <1>2, <1>3, ClosedHeld, WaitingKeeps DEF Waiting, RecInv, RecOK
<1>4. CASE row' # row
  <2> DEFINE gone == Rec!Cascade(i)
             Nulls(k) == row[k] # Rec!NoRow /\ row[k].table = "tasks" /\ row[k].of \in gone
  <2>1. ~Rec!Restricts(i) /\ row' = Rec!Without(gone)
    BY <1>1, <1>4 DEF Rec!Delete
  <2>2. row \in [Rec!Ids -> TheRows \cup {Rec!NoRow}] /\ \A k \in Rec!Ids : row[k] # Rec!NoRow => Sound(row[k])
    BY DEF RecInv, RecOK
  <2>3. \A k \in Rec!Ids : row'[k] = IF k \in gone THEN Rec!NoRow
                                     ELSE IF Nulls(k) THEN [row[k] EXCEPT !.of = 0] ELSE row[k]
    BY <2>1 DEF Rec!Without, Rec!Exists, Rec!Nulling, Rec!Ids
  <2>4. row' = [k \in Rec!Ids |-> row'[k]]
    BY <2>1 DEF Rec!Without
  <2>5. \A k \in gone : k \in Rec!Ids /\ (k = i \/ (row[k].table \in Rec!Cascading /\ row[k].of = i))
    BY DEF Rec!Cascade
  <2>6. \A k \in Rec!Ids \ gone : row[k] # Rec!NoRow =>
           /\ ~Nulls(k) => row[k].of \notin gone
           /\ row[k].to \notin gone
    <3> SUFFICES ASSUME NEW k \in Rec!Ids \ gone, row[k] # Rec!NoRow
                 PROVE  (~Nulls(k) => row[k].of \notin gone) /\ row[k].to \notin gone
      OBVIOUS
    <3>1. \A x \in {row[k].of, row[k].to} \ {0} : row[x].table = Rec!Parent(row[k].table)
      BY DEF RecInv, Refer
    <3>2. Rec!Parent(row[k].table) \notin Rec!Cascading
      BY DEF Rec!Parent, Rec!Cascading
    <3>3. \A x \in {row[k].of, row[k].to} \ {0} : x \in gone => x = i
      BY <2>5, <3>1, <3>2
    <3>4. 0 \notin gone
      BY <2>5 DEF Rec!Ids
    <3>5. row[k].of = i => row[k].table \notin Rec!Cascading
      BY DEF Rec!Cascade
    <3>6. row[k].table \in Rec!Cascading \cup Rec!Nulling => row[k].to = 0
      BY <2>2 DEF Sound, Rec!Cascading, Rec!Nulling
    <3>7. row[k].table \in Rec!Cascading \cup Rec!Nulling \/ i \notin {row[k].of, row[k].to}
      BY <2>1 DEF Rec!Restricts, Rec!Exists, Rec!Ids
    <3>8. QED
      BY <3>3, <3>4, <3>5, <3>6, <3>7 DEF Rec!Nulling
  <2> HIDE DEF gone
  <2>7. \A k \in Rec!Ids : row'[k] # Rec!NoRow =>
           /\ k \notin gone /\ row[k] # Rec!NoRow
           /\ \A c \in {"table", "to", "who", "by", "status", "self", "text", "stamped", "active"} : row'[k][c] = row[k][c]
           /\ row'[k].of = IF Nulls(k) THEN 0 ELSE row[k].of
           /\ row'[k] \in TheRows
    <3> SUFFICES ASSUME NEW k \in Rec!Ids, row'[k] # Rec!NoRow
                 PROVE  /\ k \notin gone /\ row[k] # Rec!NoRow
                        /\ \A c \in {"table", "to", "who", "by", "status", "self", "text", "stamped", "active"} :
                              row'[k][c] = row[k][c]
                        /\ row'[k].of = IF Nulls(k) THEN 0 ELSE row[k].of
                        /\ row'[k] \in TheRows
      OBVIOUS
    <3>1. k \notin gone /\ row[k] # Rec!NoRow /\ row[k] \in TheRows
      BY <2>2, <2>3
    <3>2. CASE Nulls(k)
      <4>1. row'[k] = [row[k] EXCEPT !.of = 0]
        BY <2>3, <3>1, <3>2
      <4>2. QED
        BY <3>1, <3>2, <4>1 DEF TheRows
    <3>3. CASE ~Nulls(k)
      <4>1. row'[k] = row[k]
        BY <2>3, <3>1, <3>3
      <4>2. QED
        BY <3>1, <3>3, <4>1
    <3>4. QED
      BY <3>2, <3>3
  <2>8. \A k \in Rec!Ids : row'[k] # Rec!NoRow =>
           /\ Sound(row'[k]) /\ row'[k].table = row[k].table /\ row'[k].to = row[k].to
    <3> SUFFICES ASSUME NEW k \in Rec!Ids, row'[k] # Rec!NoRow
                 PROVE  Sound(row'[k]) /\ row'[k].table = row[k].table /\ row'[k].to = row[k].to
      OBVIOUS
    <3>1. /\ row'[k].table = row[k].table /\ row'[k].to = row[k].to /\ row'[k].status = row[k].status
          /\ row'[k].by = row[k].by /\ row'[k].self = row[k].self /\ row'[k].stamped = row[k].stamped
          /\ row'[k].active = row[k].active /\ row'[k].of \in {0, row[k].of} /\ row'[k] \in TheRows
          /\ Sound(row[k])
      BY <2>2, <2>7
    <3>2. QED
      BY <3>1 DEF Sound
  <2>9. \A k \in Rec!Ids \ gone : row[k] # Rec!NoRow => row'[k] # Rec!NoRow /\ row'[k].table = row[k].table
    <3> SUFFICES ASSUME NEW k \in Rec!Ids \ gone, row[k] # Rec!NoRow
                 PROVE  row'[k] # Rec!NoRow /\ row'[k].table = row[k].table
      OBVIOUS
    <3>1. row[k] \in TheRows
      BY <2>2
    <3>2. row'[k] = row[k] \/ row'[k] = [row[k] EXCEPT !.of = 0]
      BY <2>3
    <3>3. row'[k].table = row[k].table
      BY <3>1, <3>2 DEF TheRows
    <3>4. QED
      BY <3>1, <3>3, Apart DEF Rec!NoRow
  <2>10. RecOK'
    <3>1. (client = [q \in Clients |-> client[q]] /\ \A q \in Clients : Held(client[q]))'
      BY <1>2, <2>7, <2>8, ClosedHeld, ClientsStay DEF RecInv, RecOK
    <3>2. row' \in [Rec!Ids -> TheRows \cup {Rec!NoRow}]
      BY <2>4, <2>7
    <3>3. QED
      BY <1>2, <2>7, <2>8, <3>1, <3>2 DEF RecInv, RecOK
  <2>11. Refer'
    <3> SUFFICES ASSUME NEW k \in Rec!Ids, row'[k] # Rec!NoRow, NEW x \in {row'[k].of, row'[k].to} \ {0}
                 PROVE  row'[x].table = Rec!Parent(row'[k].table)
      BY DEF Refer
    <3>1. x \in {row[k].of, row[k].to} \ {0} /\ x \notin gone
      BY <2>6, <2>7, <2>8
    <3>2. row[x].table = Rec!Parent(row[k].table)
      BY <2>7, <3>1 DEF RecInv, Refer
    <3>3. Sound(row[k]) /\ x \in Rec!Ids
      BY <2>2, <2>7, <3>1 DEF Sound, TheRows
    <3>4. row[x] # Rec!NoRow
      BY <3>1, <3>2, <3>3 DEF Sound, Rec!Parent, Rec!NoRow
    <3>5. QED
      BY <2>8, <2>9, <3>1, <3>2, <3>3, <3>4
  <2>12. AsGiven'
    <3> SUFFICES ASSUME NEW k \in Rec!Ids, row'[k] # Rec!NoRow
                 PROVE  \/ row'[k].of = given[k].of
                        \/ row'[k].of = 0 /\ (given[k].of = 0 \/ row'[given[k].of] = Rec!NoRow)
      BY <1>2 DEF AsGiven
    <3>1. /\ given[k].of \in Rec!Ids \cup {0}
          /\ \/ row[k].of = given[k].of
             \/ row[k].of = 0 /\ (given[k].of = 0 \/ row[given[k].of] = Rec!NoRow)
      BY <2>7 DEF RecInv, RecOK, AsGiven, TheRows
    <3>2. given[k].of # 0 /\ row[given[k].of] = Rec!NoRow => row'[given[k].of] = Rec!NoRow
      BY <2>3, <3>1
    <3>3. Nulls(k) => row'[row[k].of] = Rec!NoRow
      BY <2>3, <2>5 DEF gone
    <3>4. QED
      BY <2>7, <3>1, <3>2, <3>3
  <2>13. Unique'
    <3> SUFFICES ASSUME NEW j \in Rec!Ids, NEW k \in Rec!Ids, row'[j] # Rec!NoRow, row'[k] # Rec!NoRow,
                        row'[j].table = row'[k].table, Rec!Key(row'[j].table) # {"nothing"},
                        \A x \in Rec!Key(row'[j].table) : row'[j][x] = row'[k][x]
                 PROVE  j = k
      BY DEF Unique
    <3>1. row[j].table # "tasks" /\ row[k].table # "tasks"
      BY <2>8 DEF Rec!Key, Rec!Keys
    <3>2. row'[j] = row[j] /\ row'[k] = row[k]
      BY <2>3, <2>7, <3>1
    <3>3. QED
      BY <2>7, <3>2 DEF RecInv, Unique
  <2>14. Rec!EditsKept'
    <3> SUFFICES ASSUME NEW k \in Rec!Ids \ clashed, row'[k] # Rec!NoRow, NEW x \in Rec!Fields \cup {"to", "active"}
                 PROVE  row'[k][x] = given[k][x]
      BY <1>2 DEF Rec!EditsKept, Rec!Exists
    <3>1. row[k] # Rec!NoRow /\ row'[k][x] = row[k][x]
      BY <2>7 DEF Rec!Fields
    <3>2. QED
      BY <3>1 DEF RecInv, Rec!EditsKept, Rec!Exists, Rec!Ids
  <2>15. QED
    BY <2>10, <2>11, <2>12, <2>13, <2>14 DEF RecInv
<1>5. QED
  BY <1>3, <1>4

-----------------------------------------------------------------------------
(* Records: what the desks do is of these kinds                            *)

Blank == ""    \* no status

\* A row is listed and its form opened.
LEMMA OpensWaits ==
    ASSUME RecOK, NEW p \in Clients, NEW listed \in SUBSET Rec!Ids, \A i \in listed : row[i] # Rec!NoRow,
           Rec!Opens(p, listed)
    PROVE  Waiting(p)
<1>1. PICK i \in listed : client' = [client EXCEPT ![p] = [at |-> "open", id |-> i, read |-> row[i]]]
  BY DEF Rec!Opens
<1>2. PICK m : m = [at |-> "open", id |-> i, read |-> row[i]]
  OBVIOUS
<1>3. Held(m)
  BY <1>2 DEF Held, Shown, RecOK
<1>4. QED
  BY <1>1, <1>2, <1>3 DEF Waiting, Rec!Opens, Rec!ghosts, RecOK

LEMMA InRows == \A t \in Tables : \A i \in Rec!In(t) : i \in Rec!Ids /\ row[i] # Rec!NoRow
  BY DEF Rec!In, Rec!NoRow, Tables

\* A handler that inserts at once, or after it has looked for the row referred to.
LEMMA CreatesInserts ==
    ASSUME RecOK, NEW p \in Clients, NEW r, Sound(r), NEW found,
           Rec!CreatesNow(p, r) \/ Rec!Creates(p, r, found)
    PROVE  Waiting(p) \/ Inserting(p)
<1>1. CASE Rec!CreatesNow(p, r)
  BY <1>1 DEF Rec!CreatesNow, Rec!Sending, Inserting, RecOK
<1>2. ASSUME Rec!Sending, UNCHANGED <<row, nextRow, given, clashed>>,
             client' = [client EXCEPT ![p] = IF found THEN [at |-> "create", form |-> r] ELSE Rec!Closed]
      PROVE  Waiting(p)
  <2>1. PICK m : m = IF found THEN [at |-> "create", form |-> r] ELSE Rec!Closed
    OBVIOUS
  <2>2. Held(m)
    BY <2>1, ClosedHeld DEF Held
  <2>3. QED
    BY <1>2, <2>1, <2>2 DEF Waiting, Rec!Sending, RecOK
<1>3. ASSUME Rec!At(p, "create", r.table), Rec!Insert(p, client[p].form), UNCHANGED <<edits, clashed>>
      PROVE  Inserting(p)
  <2>1. Sound(client[p].form)
    BY <1>3 DEF Rec!At, RecOK, Held
  <2>2. QED
    BY <1>3, <2>1 DEF Inserting, RecOK
<1>4. QED
  BY <1>1, <1>2, <1>3 DEF Rec!Creates

\* A handler that deletes at once,
LEMMA DeletesNowDeletes ==
    ASSUME RecOK, NEW p \in Clients, NEW t, Rec!DeletesNow(p, t)
    PROVE  Deleting(p)
  BY DEF Rec!DeletesNow, Rec!OpenOn, RecOK, Held, Shown, Deleting

\* or holds the form until it has looked for the row.
LEMMA LooksWaits ==
    ASSUME RecOK, NEW p \in Clients, NEW found, NEW t, Rec!OpenOn(p, t), UNCHANGED <<row, nextRow, Rec!ghosts>>,
           client' = [client EXCEPT ![p] =
               IF found THEN [at |-> "delete", id |-> client[p].id, form |-> client[p].read] ELSE Rec!Closed]
    PROVE  Waiting(p)
<1>1. PICK m : m = IF found THEN [at |-> "delete", id |-> client[p].id, form |-> client[p].read] ELSE Rec!Closed
  OBVIOUS
<1>2. Held(m)
  BY <1>1, ClosedHeld DEF Held, Rec!OpenOn, RecOK
<1>3. QED
  BY <1>1, <1>2 DEF Waiting, Rec!ghosts, RecOK

LEMMA AtDelete ==
    ASSUME RecOK, NEW p \in Clients, NEW t, Rec!At(p, "delete", t)
    PROVE  /\ client[p].id \in Rec!Ids
           /\ row[client[p].id] # Rec!NoRow => row[client[p].id].table = t
  BY DEF Rec!At, RecOK, Held, Shown

LEMMA FailsWaits ==
    ASSUME RecOK, NEW p \in Clients, Rec!Fails(p)
    PROVE  Waiting(p)
  BY ClosedHeld DEF Rec!Fails, Rec!Answered, Waiting, Rec!ghosts, RecOK

\* A handler that waits to save a form ...
LEMMA SavesWaits ==
    ASSUME RecOK, NEW p \in Clients, NEW found, NEW t, Rec!OpenOn(p, t), Rec!Sending,
           UNCHANGED <<row, nextRow, given, clashed>>,
           NEW c \in Columns(t), NEW v \in ValuesOf(t, c),
           client' = [client EXCEPT ![p] =
               IF found THEN [at |-> "update", id |-> client[p].id, read |-> client[p].read,
                              form |-> [client[p].read EXCEPT ![c] = v], field |-> c]
               ELSE Rec!Closed]
    PROVE  Waiting(p)
<1>1. PICK m : m = IF found THEN [at |-> "update", id |-> client[p].id, read |-> client[p].read,
                                  form |-> [client[p].read EXCEPT ![c] = v], field |-> c] ELSE Rec!Closed
  OBVIOUS
<1>2. Shown(client[p].id, client[p].read) /\ client[p].read.table = t
  BY DEF Rec!OpenOn, RecOK, Held
<1>3. Held(m)
  BY <1>1, <1>2, ClosedHeld DEF Held
<1>4. client' = [client EXCEPT ![p] = m]
  BY <1>1
<1>5. edits' \in Nat
  BY DEF Rec!Sending, RecOK
<1>6. QED
  BY <1>3, <1>4, <1>5 DEF Waiting

\* ... and what it saves.
LEMMA AtUpdate ==
    ASSUME RecOK, NEW p \in Clients, NEW t, Rec!At(p, "update", t)
    PROVE  /\ Shown(client[p].id, client[p].read) /\ client[p].read.table = t
           /\ client[p].field \in Columns(t) /\ client[p].form[client[p].field] \in ValuesOf(t, client[p].field)
           /\ client[p].form = [client[p].read EXCEPT ![client[p].field] = client[p].form[client[p].field]]
<1> DEFINE r == client[p].read
           c == client[p].field
<1>1. Shown(client[p].id, r) /\ c \in Columns(r.table)
  BY DEF Rec!At, RecOK, Held
<1>2. PICK v \in ValuesOf(r.table, c) : client[p].form = [r EXCEPT ![c] = v]
  BY DEF Rec!At, RecOK, Held
<1>3. r \in TheRows /\ c \in {"status", "who", "self", "text"}
  BY <1>1 DEF Shown, Sound, Columns
<1> HIDE DEF r, c
<1>4. client[p].form.table = r.table /\ client[p].form[c] = v
  BY <1>2, <1>3 DEF TheRows
<1>5. QED
  BY <1>1, <1>2, <1>4 DEF Rec!At, r, c

LEMMA OpenShows ==
    ASSUME RecOK, NEW p \in Clients, NEW t, Rec!OpenOn(p, t)
    PROVE  Shown(client[p].id, client[p].read) /\ client[p].read.table = t
  BY DEF Rec!OpenOn, RecOK, Held

LEMMA ValuesKnown ==
    ASSUME RecOK, NEW t
    PROVE  \A c : Rec!Values(t, c) \subseteq ValuesOf(t, c)
  BY DEF RecOK, Rec!Values, ValuesOf, Rec!People

LEMMA UpdateCycleWrites ==
    ASSUME RecOK, NEW p \in Clients, Rec!UpdateCycle(p)
    PROVE  Waiting(p) \/ Writing(p)
<1> DEFINE i == client[p].id
           r == client[p].read
<1>1. Rec!OpenOn(p, "review_cycles") /\ Rec!Sending
  BY DEF Rec!UpdateCycle, Rec!UpdatesNow
<1>2. Shown(i, r) /\ r.table = "review_cycles"
  BY <1>1, OpenShows
<1>3. PICK c \in Columns("review_cycles") : \E v \in ValuesOf("review_cycles", c) :
          Rec!Update(p, i, IF Rec!Exists(i) THEN Rec!UpdateReviewCycle(i, [r EXCEPT ![c] = v]) ELSE Rec!NoRow, c, v)
  BY ValuesKnown DEF Rec!UpdateCycle, Rec!UpdatesNow, Rec!Changed, Columns
<1>4. PICK v \in ValuesOf("review_cycles", c) :
         Rec!Update(p, i, IF Rec!Exists(i) THEN Rec!UpdateReviewCycle(i, [r EXCEPT ![c] = v]) ELSE Rec!NoRow, c, v)
  BY <1>3
<1> HIDE DEF i, r
<1>5. Rec!Exists(i) => Proper(row[i], r, c, v, Rec!UpdateReviewCycle(i, [r EXCEPT ![c] = v])) /\ row[i].table = "review_cycles"
  BY <1>2, UpdateReviewCycleIsProper DEF Rec!Exists, Shown, RecOK
<1>6. i \in Rec!Ids /\ edits' \in Nat
  BY <1>1, <1>2 DEF Shown, Rec!Sending, RecOK
<1>7. QED
  BY <1>4, <1>5, <1>6 DEF Writing, i, r

LEMMA SaveReviewWrites ==
    ASSUME RecOK, NEW p \in Clients, Rec!SaveReview(p)
    PROVE  Waiting(p) \/ Writing(p)
<1> DEFINE i == client[p].id
           r == client[p].read
<1>1. ASSUME Rec!OpenOn(p, "performance_reviews"), Rec!Sending, UNCHANGED <<row, nextRow, given, clashed>>,
             NEW c \in Columns("performance_reviews"), NEW v \in Rec!Values("performance_reviews", c),
             client' = [client EXCEPT ![p] =
                 IF Rec!FoundReview(client[p]) THEN [at |-> "update", id |-> i, read |-> r,
                                             form |-> Rec!Changed(p, "performance_reviews", c, v), field |-> c]
                 ELSE Rec!Closed]
      PROVE  Waiting(p)
  <2>1. v \in ValuesOf("performance_reviews", c)
    BY ValuesKnown
  <2>2. PICK found : found = Rec!FoundReview(client[p])
    OBVIOUS
  <2>3. QED
    BY <1>1, <2>1, <2>2, SavesWaits DEF Rec!Changed
<1>2. ASSUME Rec!At(p, "update", "performance_reviews"), UNCHANGED edits,
             Rec!Update(p, i, IF Rec!Exists(i) THEN Rec!UpdateReview(i, client[p].form) ELSE Rec!NoRow,
                        client[p].field, client[p].form[client[p].field])
      PROVE  Writing(p)
  <2>1. PICK c, v : c = client[p].field /\ v = client[p].form[client[p].field]
    OBVIOUS
  <2>2. /\ Shown(i, r) /\ r.table = "performance_reviews" /\ c \in Columns("performance_reviews") /\ v \in ValuesOf("performance_reviews", c)
        /\ client[p].form = [r EXCEPT ![c] = v]
    BY <1>2, <2>1, AtUpdate
  <2> HIDE DEF i, r
  <2>3. Rec!Exists(i) => Proper(row[i], r, c, v, Rec!UpdateReview(i, client[p].form)) /\ row[i].table = "performance_reviews"
    BY <2>2, UpdateReviewIsProper DEF Rec!Exists, Shown, RecOK
  <2>4. i \in Rec!Ids /\ edits' \in Nat
    BY <1>2, <2>2 DEF Shown, RecOK
  <2>5. QED
    BY <1>2, <2>1, <2>2, <2>3, <2>4 DEF Writing, i, r
<1>3. QED
  BY <1>1, <1>2 DEF Rec!SaveReview, Rec!Updates, Columns

LEMMA SaveProgramWrites ==
    ASSUME RecOK, NEW p \in Clients, Rec!SaveProgram(p)
    PROVE  Waiting(p) \/ Writing(p)
<1> DEFINE i == client[p].id
           r == client[p].read
<1>1. ASSUME Rec!OpenOn(p, "training_programs"), Rec!Sending, UNCHANGED <<row, nextRow, given, clashed>>,
             NEW c \in Columns("training_programs"), NEW v \in Rec!Values("training_programs", c),
             client' = [client EXCEPT ![p] =
                 IF Rec!VerifyTrainingProgramTenant(client[p]) THEN [at |-> "update", id |-> i, read |-> r,
                                             form |-> Rec!Changed(p, "training_programs", c, v), field |-> c]
                 ELSE Rec!Closed]
      PROVE  Waiting(p)
  <2>1. v \in ValuesOf("training_programs", c)
    BY ValuesKnown
  <2>2. PICK found : found = Rec!VerifyTrainingProgramTenant(client[p])
    OBVIOUS
  <2>3. QED
    BY <1>1, <2>1, <2>2, SavesWaits DEF Rec!Changed
<1>2. ASSUME Rec!At(p, "update", "training_programs"), UNCHANGED edits,
             Rec!Update(p, i, IF Rec!Exists(i) THEN Rec!UpdateTrainingProgram(i, client[p].form) ELSE Rec!NoRow,
                        client[p].field, client[p].form[client[p].field])
      PROVE  Writing(p)
  <2>1. PICK c, v : c = client[p].field /\ v = client[p].form[client[p].field]
    OBVIOUS
  <2>2. /\ Shown(i, r) /\ r.table = "training_programs" /\ c \in Columns("training_programs") /\ v \in ValuesOf("training_programs", c)
        /\ client[p].form = [r EXCEPT ![c] = v]
    BY <1>2, <2>1, AtUpdate
  <2> HIDE DEF i, r
  <2>3. Rec!Exists(i) => Proper(row[i], r, c, v, Rec!UpdateTrainingProgram(i, client[p].form)) /\ row[i].table = "training_programs"
    BY <2>2, UpdateTrainingProgramIsProper DEF Rec!Exists, Shown, RecOK
  <2>4. i \in Rec!Ids /\ edits' \in Nat
    BY <1>2, <2>2 DEF Shown, RecOK
  <2>5. QED
    BY <1>2, <2>1, <2>2, <2>3, <2>4 DEF Writing, i, r
<1>3. QED
  BY <1>1, <1>2 DEF Rec!SaveProgram, Rec!Updates, Columns

LEMMA SaveEnrollmentWrites ==
    ASSUME RecOK, NEW p \in Clients, Rec!SaveEnrollment(p)
    PROVE  Waiting(p) \/ Writing(p)
<1> DEFINE i == client[p].id
           r == client[p].read
<1>1. Rec!OpenOn(p, "training_enrollments") /\ Rec!Sending
  BY DEF Rec!SaveEnrollment, Rec!UpdatesNow
<1>2. Shown(i, r) /\ r.table = "training_enrollments"
  BY <1>1, OpenShows
<1>3. PICK c \in Columns("training_enrollments") : \E v \in ValuesOf("training_enrollments", c) :
          Rec!Update(p, i, IF Rec!Exists(i) THEN Rec!UpdateEnrollment(i, [r EXCEPT ![c] = v]) ELSE Rec!NoRow, c, v)
  BY ValuesKnown DEF Rec!SaveEnrollment, Rec!UpdatesNow, Rec!Changed, Columns
<1>4. PICK v \in ValuesOf("training_enrollments", c) :
         Rec!Update(p, i, IF Rec!Exists(i) THEN Rec!UpdateEnrollment(i, [r EXCEPT ![c] = v]) ELSE Rec!NoRow, c, v)
  BY <1>3
<1> HIDE DEF i, r
<1>5. Rec!Exists(i) => Proper(row[i], r, c, v, Rec!UpdateEnrollment(i, [r EXCEPT ![c] = v])) /\ row[i].table = "training_enrollments"
  BY <1>2, UpdateEnrollmentIsProper DEF Rec!Exists, Shown, RecOK
<1>6. i \in Rec!Ids /\ edits' \in Nat
  BY <1>1, <1>2 DEF Shown, Rec!Sending, RecOK
<1>7. QED
  BY <1>4, <1>5, <1>6 DEF Writing, i, r

LEMMA SaveLevelWrites ==
    ASSUME RecOK, NEW p \in Clients, Rec!SaveLevel(p)
    PROVE  Waiting(p) \/ Writing(p)
<1> DEFINE i == client[p].id
           r == client[p].read
<1>1. ASSUME Rec!OpenOn(p, "career_levels"), Rec!Sending, UNCHANGED <<row, nextRow, given, clashed>>,
             NEW c \in Columns("career_levels"), NEW v \in Rec!Values("career_levels", c),
             client' = [client EXCEPT ![p] =
                 IF Rec!VerifyCareerLevelTenant(client[p]) THEN [at |-> "update", id |-> i, read |-> r,
                                             form |-> Rec!Changed(p, "career_levels", c, v), field |-> c]
                 ELSE Rec!Closed]
      PROVE  Waiting(p)
  <2>1. v \in ValuesOf("career_levels", c)
    BY ValuesKnown
  <2>2. PICK found : found = Rec!VerifyCareerLevelTenant(client[p])
    OBVIOUS
  <2>3. QED
    BY <1>1, <2>1, <2>2, SavesWaits DEF Rec!Changed
<1>2. ASSUME Rec!At(p, "update", "career_levels"), UNCHANGED edits,
             Rec!Update(p, i, IF Rec!Exists(i) THEN Rec!UpdateCareerLevel(i, client[p].form) ELSE Rec!NoRow,
                        client[p].field, client[p].form[client[p].field])
      PROVE  Writing(p)
  <2>1. PICK c, v : c = client[p].field /\ v = client[p].form[client[p].field]
    OBVIOUS
  <2>2. /\ Shown(i, r) /\ r.table = "career_levels" /\ c \in Columns("career_levels") /\ v \in ValuesOf("career_levels", c)
        /\ client[p].form = [r EXCEPT ![c] = v]
    BY <1>2, <2>1, AtUpdate
  <2> HIDE DEF i, r
  <2>3. Rec!Exists(i) => Proper(row[i], r, c, v, Rec!UpdateCareerLevel(i, client[p].form)) /\ row[i].table = "career_levels"
    BY <2>2, UpdateCareerLevelIsProper DEF Rec!Exists, Shown, RecOK
  <2>4. i \in Rec!Ids /\ edits' \in Nat
    BY <1>2, <2>2 DEF Shown, RecOK
  <2>5. QED
    BY <1>2, <2>1, <2>2, <2>3, <2>4 DEF Writing, i, r
<1>3. QED
  BY <1>1, <1>2 DEF Rec!SaveLevel, Rec!Updates, Columns

LEMMA SaveSkillWrites ==
    ASSUME RecOK, NEW p \in Clients, Rec!SaveSkill(p)
    PROVE  Waiting(p) \/ Writing(p)
<1> DEFINE i == client[p].id
           r == client[p].read
<1>1. Rec!OpenOn(p, "skills") /\ Rec!Sending
  BY DEF Rec!SaveSkill, Rec!UpdatesNow
<1>2. Shown(i, r) /\ r.table = "skills"
  BY <1>1, OpenShows
<1>3. PICK c \in Columns("skills") : \E v \in ValuesOf("skills", c) :
          Rec!Update(p, i, IF Rec!Exists(i) THEN Rec!UpdateSkill(i, [r EXCEPT ![c] = v]) ELSE Rec!NoRow, c, v)
  BY ValuesKnown DEF Rec!SaveSkill, Rec!UpdatesNow, Rec!Changed, Columns
<1>4. PICK v \in ValuesOf("skills", c) :
         Rec!Update(p, i, IF Rec!Exists(i) THEN Rec!UpdateSkill(i, [r EXCEPT ![c] = v]) ELSE Rec!NoRow, c, v)
  BY <1>3
<1> HIDE DEF i, r
<1>5. Rec!Exists(i) => Proper(row[i], r, c, v, Rec!UpdateSkill(i, [r EXCEPT ![c] = v])) /\ row[i].table = "skills"
  BY <1>2, UpdateSkillIsProper DEF Rec!Exists, Shown, RecOK
<1>6. i \in Rec!Ids /\ edits' \in Nat
  BY <1>1, <1>2 DEF Shown, Rec!Sending, RecOK
<1>7. QED
  BY <1>4, <1>5, <1>6 DEF Writing, i, r

LEMMA SaveProjectWrites ==
    ASSUME RecOK, NEW p \in Clients, Rec!SaveProject(p)
    PROVE  Waiting(p) \/ Writing(p)
<1> DEFINE i == client[p].id
           r == client[p].read
<1>1. ASSUME Rec!OpenOn(p, "projects"), Rec!Sending, UNCHANGED <<row, nextRow, given, clashed>>,
             NEW c \in Columns("projects"), NEW v \in Rec!Values("projects", c),
             client' = [client EXCEPT ![p] =
                 IF Rec!VerifyProjectTenant(client[p]) THEN [at |-> "update", id |-> i, read |-> r,
                                             form |-> Rec!Changed(p, "projects", c, v), field |-> c]
                 ELSE Rec!Closed]
      PROVE  Waiting(p)
  <2>1. v \in ValuesOf("projects", c)
    BY ValuesKnown
  <2>2. PICK found : found = Rec!VerifyProjectTenant(client[p])
    OBVIOUS
  <2>3. QED
    BY <1>1, <2>1, <2>2, SavesWaits DEF Rec!Changed
<1>2. ASSUME Rec!At(p, "update", "projects"), UNCHANGED edits,
             Rec!Update(p, i, IF Rec!Exists(i) THEN Rec!UpdateProject(i, client[p].form) ELSE Rec!NoRow,
                        client[p].field, client[p].form[client[p].field])
      PROVE  Writing(p)
  <2>1. PICK c, v : c = client[p].field /\ v = client[p].form[client[p].field]
    OBVIOUS
  <2>2. /\ Shown(i, r) /\ r.table = "projects" /\ c \in Columns("projects") /\ v \in ValuesOf("projects", c)
        /\ client[p].form = [r EXCEPT ![c] = v]
    BY <1>2, <2>1, AtUpdate
  <2> HIDE DEF i, r
  <2>3. Rec!Exists(i) => Proper(row[i], r, c, v, Rec!UpdateProject(i, client[p].form)) /\ row[i].table = "projects"
    BY <2>2, UpdateProjectIsProper DEF Rec!Exists, Shown, RecOK
  <2>4. i \in Rec!Ids /\ edits' \in Nat
    BY <1>2, <2>2 DEF Shown, RecOK
  <2>5. QED
    BY <1>2, <2>1, <2>2, <2>3, <2>4 DEF Writing, i, r
<1>3. QED
  BY <1>1, <1>2 DEF Rec!SaveProject, Rec!Updates, Columns

LEMMA SaveTaskWrites ==
    ASSUME RecOK, NEW p \in Clients, Rec!SaveTask(p)
    PROVE  Waiting(p) \/ Writing(p)
<1> DEFINE i == client[p].id
           r == client[p].read
<1>1. ASSUME Rec!OpenOn(p, "tasks"), Rec!Sending, UNCHANGED <<row, nextRow, given, clashed>>,
             NEW c \in Columns("tasks"), NEW v \in Rec!Values("tasks", c),
             client' = [client EXCEPT ![p] =
                 IF Rec!VerifyTaskTenant(client[p]) THEN [at |-> "update", id |-> i, read |-> r,
                                             form |-> Rec!Changed(p, "tasks", c, v), field |-> c]
                 ELSE Rec!Closed]
      PROVE  Waiting(p)
  <2>1. v \in ValuesOf("tasks", c)
    BY ValuesKnown
  <2>2. PICK found : found = Rec!VerifyTaskTenant(client[p])
    OBVIOUS
  <2>3. QED
    BY <1>1, <2>1, <2>2, SavesWaits DEF Rec!Changed
<1>2. ASSUME Rec!At(p, "update", "tasks"), UNCHANGED edits,
             Rec!Update(p, i, IF Rec!Exists(i) THEN Rec!UpdateTask(i, client[p].form) ELSE Rec!NoRow,
                        client[p].field, client[p].form[client[p].field])
      PROVE  Writing(p)
  <2>1. PICK c, v : c = client[p].field /\ v = client[p].form[client[p].field]
    OBVIOUS
  <2>2. /\ Shown(i, r) /\ r.table = "tasks" /\ c \in Columns("tasks") /\ v \in ValuesOf("tasks", c)
        /\ client[p].form = [r EXCEPT ![c] = v]
    BY <1>2, <2>1, AtUpdate
  <2> HIDE DEF i, r
  <2>3. Rec!Exists(i) => Proper(row[i], r, c, v, Rec!UpdateTask(i, client[p].form)) /\ row[i].table = "tasks"
    BY <2>2, UpdateTaskIsProper DEF Rec!Exists, Shown, RecOK
  <2>4. i \in Rec!Ids /\ edits' \in Nat
    BY <1>2, <2>2 DEF Shown, RecOK
  <2>5. QED
    BY <1>2, <2>1, <2>2, <2>3, <2>4 DEF Writing, i, r
<1>3. QED
  BY <1>1, <1>2 DEF Rec!SaveTask, Rec!Updates, Columns

LEMMA SaveMeetingWrites ==
    ASSUME RecOK, NEW p \in Clients, Rec!SaveMeeting(p)
    PROVE  Waiting(p) \/ Writing(p)
<1> DEFINE i == client[p].id
           r == client[p].read
<1>1. Rec!OpenOn(p, "meetings") /\ Rec!Sending
  BY DEF Rec!SaveMeeting, Rec!UpdatesNow
<1>2. Shown(i, r) /\ r.table = "meetings"
  BY <1>1, OpenShows
<1>3. PICK c \in Columns("meetings") : \E v \in ValuesOf("meetings", c) :
          Rec!Update(p, i, IF Rec!Exists(i) THEN Rec!UpdateMeeting(i, [r EXCEPT ![c] = v]) ELSE Rec!NoRow, c, v)
  BY ValuesKnown DEF Rec!SaveMeeting, Rec!UpdatesNow, Rec!Changed, Columns
<1>4. PICK v \in ValuesOf("meetings", c) :
         Rec!Update(p, i, IF Rec!Exists(i) THEN Rec!UpdateMeeting(i, [r EXCEPT ![c] = v]) ELSE Rec!NoRow, c, v)
  BY <1>3
<1> HIDE DEF i, r
<1>5. Rec!Exists(i) => Proper(row[i], r, c, v, Rec!UpdateMeeting(i, [r EXCEPT ![c] = v])) /\ row[i].table = "meetings"
  BY <1>2, UpdateMeetingIsProper DEF Rec!Exists, Shown, RecOK
<1>6. i \in Rec!Ids /\ edits' \in Nat
  BY <1>1, <1>2 DEF Shown, Rec!Sending, RecOK
<1>7. QED
  BY <1>4, <1>5, <1>6 DEF Writing, i, r

LEMMA SaveItemWrites ==
    ASSUME RecOK, NEW p \in Clients, Rec!SaveItem(p)
    PROVE  Waiting(p) \/ Writing(p)
<1> DEFINE i == client[p].id
           r == client[p].read
<1>1. Rec!OpenOn(p, "meeting_action_items") /\ Rec!Sending
  BY DEF Rec!SaveItem, Rec!UpdatesNow
<1>2. Shown(i, r) /\ r.table = "meeting_action_items"
  BY <1>1, OpenShows
<1>3. PICK c \in Columns("meeting_action_items") : \E v \in ValuesOf("meeting_action_items", c) :
          Rec!Update(p, i, IF Rec!Exists(i) THEN Rec!UpdateActionItem(i, [r EXCEPT ![c] = v]) ELSE Rec!NoRow, c, v)
  BY ValuesKnown DEF Rec!SaveItem, Rec!UpdatesNow, Rec!Changed, Columns
<1>4. PICK v \in ValuesOf("meeting_action_items", c) :
         Rec!Update(p, i, IF Rec!Exists(i) THEN Rec!UpdateActionItem(i, [r EXCEPT ![c] = v]) ELSE Rec!NoRow, c, v)
  BY <1>3
<1> HIDE DEF i, r
<1>5. Rec!Exists(i) => Proper(row[i], r, c, v, Rec!UpdateActionItem(i, [r EXCEPT ![c] = v])) /\ row[i].table = "meeting_action_items"
  BY <1>2, UpdateActionItemIsProper DEF Rec!Exists, Shown, RecOK
<1>6. i \in Rec!Ids /\ edits' \in Nat
  BY <1>1, <1>2 DEF Shown, Rec!Sending, RecOK
<1>7. QED
  BY <1>4, <1>5, <1>6 DEF Writing, i, r

LEMMA SaveWorkflowWrites ==
    ASSUME RecOK, NEW p \in Clients, Rec!SaveWorkflow(p)
    PROVE  Waiting(p) \/ Writing(p)
<1> DEFINE i == client[p].id
           r == client[p].read
<1>1. ASSUME Rec!OpenOn(p, "workflows"), Rec!Sending, UNCHANGED <<row, nextRow, given, clashed>>,
             NEW c \in Columns("workflows"), NEW v \in Rec!Values("workflows", c),
             client' = [client EXCEPT ![p] =
                 IF Rec!VerifyWorkflowTenant(client[p]) THEN [at |-> "update", id |-> i, read |-> r,
                                             form |-> Rec!Changed(p, "workflows", c, v), field |-> c]
                 ELSE Rec!Closed]
      PROVE  Waiting(p)
  <2>1. v \in ValuesOf("workflows", c)
    BY ValuesKnown
  <2>2. PICK found : found = Rec!VerifyWorkflowTenant(client[p])
    OBVIOUS
  <2>3. QED
    BY <1>1, <2>1, <2>2, SavesWaits DEF Rec!Changed
<1>2. ASSUME Rec!At(p, "update", "workflows"), UNCHANGED edits,
             Rec!Update(p, i, IF Rec!Exists(i) THEN Rec!UpdateWorkflow(i, client[p].form) ELSE Rec!NoRow,
                        client[p].field, client[p].form[client[p].field])
      PROVE  Writing(p)
  <2>1. PICK c, v : c = client[p].field /\ v = client[p].form[client[p].field]
    OBVIOUS
  <2>2. /\ Shown(i, r) /\ r.table = "workflows" /\ c \in Columns("workflows") /\ v \in ValuesOf("workflows", c)
        /\ client[p].form = [r EXCEPT ![c] = v]
    BY <1>2, <2>1, AtUpdate
  <2> HIDE DEF i, r
  <2>3. Rec!Exists(i) => Proper(row[i], r, c, v, Rec!UpdateWorkflow(i, client[p].form)) /\ row[i].table = "workflows"
    BY <2>2, UpdateWorkflowIsProper DEF Rec!Exists, Shown, RecOK
  <2>4. i \in Rec!Ids /\ edits' \in Nat
    BY <1>2, <2>2 DEF Shown, RecOK
  <2>5. QED
    BY <1>2, <2>1, <2>2, <2>3, <2>4 DEF Writing, i, r
<1>3. QED
  BY <1>1, <1>2 DEF Rec!SaveWorkflow, Rec!Updates, Columns

LEMMA SaveGoalWrites ==
    ASSUME RecOK, NEW p \in Clients, Rec!SaveGoal(p)
    PROVE  Waiting(p) \/ Writing(p)
<1> DEFINE i == client[p].id
           r == client[p].read
<1>1. Rec!OpenOn(p, "goals") /\ Rec!Sending
  BY DEF Rec!SaveGoal, Rec!UpdatesNow
<1>2. Shown(i, r) /\ r.table = "goals"
  BY <1>1, OpenShows
<1>3. PICK c \in Columns("goals") : \E v \in ValuesOf("goals", c) :
          Rec!Update(p, i, IF Rec!Exists(i) THEN Rec!UpdateGoal(i, [r EXCEPT ![c] = v]) ELSE Rec!NoRow, c, v)
  BY ValuesKnown DEF Rec!SaveGoal, Rec!UpdatesNow, Rec!Changed, Columns
<1>4. PICK v \in ValuesOf("goals", c) :
         Rec!Update(p, i, IF Rec!Exists(i) THEN Rec!UpdateGoal(i, [r EXCEPT ![c] = v]) ELSE Rec!NoRow, c, v)
  BY <1>3
<1> HIDE DEF i, r
<1>5. Rec!Exists(i) => Proper(row[i], r, c, v, Rec!UpdateGoal(i, [r EXCEPT ![c] = v])) /\ row[i].table = "goals"
  BY <1>2, UpdateGoalIsProper DEF Rec!Exists, Shown, RecOK
<1>6. i \in Rec!Ids /\ edits' \in Nat
  BY <1>1, <1>2 DEF Shown, Rec!Sending, RecOK
<1>7. QED
  BY <1>4, <1>5, <1>6 DEF Writing, i, r

LEMMA SaveKeyResultWrites ==
    ASSUME RecOK, NEW p \in Clients, Rec!SaveKeyResult(p)
    PROVE  Waiting(p) \/ Writing(p)
<1> DEFINE i == client[p].id
           r == client[p].read
<1>1. ASSUME Rec!OpenOn(p, "key_results"), Rec!Sending, UNCHANGED <<row, nextRow, given, clashed>>,
             NEW c \in Columns("key_results"), NEW v \in Rec!Values("key_results", c),
             client' = [client EXCEPT ![p] =
                 IF Rec!VerifyGoalTenant(client[p]) THEN [at |-> "update", id |-> i, read |-> r,
                                             form |-> Rec!Changed(p, "key_results", c, v), field |-> c]
                 ELSE Rec!Closed]
      PROVE  Waiting(p)
  <2>1. v \in ValuesOf("key_results", c)
    BY ValuesKnown
  <2>2. PICK found : found = Rec!VerifyGoalTenant(client[p])
    OBVIOUS
  <2>3. QED
    BY <1>1, <2>1, <2>2, SavesWaits DEF Rec!Changed
<1>2. ASSUME Rec!At(p, "update", "key_results"), UNCHANGED edits,
             Rec!Update(p, i, IF Rec!Exists(i) THEN Rec!UpdateKeyResult(i, client[p].form) ELSE Rec!NoRow,
                        client[p].field, client[p].form[client[p].field])
      PROVE  Writing(p)
  <2>1. PICK c, v : c = client[p].field /\ v = client[p].form[client[p].field]
    OBVIOUS
  <2>2. /\ Shown(i, r) /\ r.table = "key_results" /\ c \in Columns("key_results") /\ v \in ValuesOf("key_results", c)
        /\ client[p].form = [r EXCEPT ![c] = v]
    BY <1>2, <2>1, AtUpdate
  <2> HIDE DEF i, r
  <2>3. Rec!Exists(i) => Proper(row[i], r, c, v, Rec!UpdateKeyResult(i, client[p].form)) /\ row[i].table = "key_results"
    BY <2>2, UpdateKeyResultIsProper DEF Rec!Exists, Shown, RecOK
  <2>4. i \in Rec!Ids /\ edits' \in Nat
    BY <1>2, <2>2 DEF Shown, RecOK
  <2>5. QED
    BY <1>2, <2>1, <2>2, <2>3, <2>4 DEF Writing, i, r
<1>3. QED
  BY <1>1, <1>2 DEF Rec!SaveKeyResult, Rec!Updates, Columns

LEMMA SaveMetricWrites ==
    ASSUME RecOK, NEW p \in Clients, Rec!SaveMetric(p)
    PROVE  Waiting(p) \/ Writing(p)
<1> DEFINE i == client[p].id
           r == client[p].read
<1>1. ASSUME Rec!OpenOn(p, "metrics"), Rec!Sending, UNCHANGED <<row, nextRow, given, clashed>>,
             NEW c \in Columns("metrics"), NEW v \in Rec!Values("metrics", c),
             client' = [client EXCEPT ![p] =
                 IF Rec!VerifyMetricTenant(client[p]) THEN [at |-> "update", id |-> i, read |-> r,
                                             form |-> Rec!Changed(p, "metrics", c, v), field |-> c]
                 ELSE Rec!Closed]
      PROVE  Waiting(p)
  <2>1. v \in ValuesOf("metrics", c)
    BY ValuesKnown
  <2>2. PICK found : found = Rec!VerifyMetricTenant(client[p])
    OBVIOUS
  <2>3. QED
    BY <1>1, <2>1, <2>2, SavesWaits DEF Rec!Changed
<1>2. ASSUME Rec!At(p, "update", "metrics"), UNCHANGED edits,
             Rec!Update(p, i, IF Rec!Exists(i) THEN Rec!UpdateMetric(i, client[p].form) ELSE Rec!NoRow,
                        client[p].field, client[p].form[client[p].field])
      PROVE  Writing(p)
  <2>1. PICK c, v : c = client[p].field /\ v = client[p].form[client[p].field]
    OBVIOUS
  <2>2. /\ Shown(i, r) /\ r.table = "metrics" /\ c \in Columns("metrics") /\ v \in ValuesOf("metrics", c)
        /\ client[p].form = [r EXCEPT ![c] = v]
    BY <1>2, <2>1, AtUpdate
  <2> HIDE DEF i, r
  <2>3. Rec!Exists(i) => Proper(row[i], r, c, v, Rec!UpdateMetric(i, client[p].form)) /\ row[i].table = "metrics"
    BY <2>2, UpdateMetricIsProper DEF Rec!Exists, Shown, RecOK
  <2>4. i \in Rec!Ids /\ edits' \in Nat
    BY <1>2, <2>2 DEF Shown, RecOK
  <2>5. QED
    BY <1>2, <2>1, <2>2, <2>3, <2>4 DEF Writing, i, r
<1>3. QED
  BY <1>1, <1>2 DEF Rec!SaveMetric, Rec!Updates, Columns

LEMMA SaveRuleWrites ==
    ASSUME RecOK, NEW p \in Clients, Rec!SaveRule(p)
    PROVE  Waiting(p) \/ Writing(p)
<1> DEFINE i == client[p].id
           r == client[p].read
<1>1. ASSUME Rec!OpenOn(p, "incentive_rules"), Rec!Sending, UNCHANGED <<row, nextRow, given, clashed>>,
             NEW c \in Columns("incentive_rules"), NEW v \in Rec!Values("incentive_rules", c),
             client' = [client EXCEPT ![p] =
                 IF Rec!VerifyIncentiveRuleTenant(client[p]) THEN [at |-> "update", id |-> i, read |-> r,
                                             form |-> Rec!Changed(p, "incentive_rules", c, v), field |-> c]
                 ELSE Rec!Closed]
      PROVE  Waiting(p)
  <2>1. v \in ValuesOf("incentive_rules", c)
    BY ValuesKnown
  <2>2. PICK found : found = Rec!VerifyIncentiveRuleTenant(client[p])
    OBVIOUS
  <2>3. QED
    BY <1>1, <2>1, <2>2, SavesWaits DEF Rec!Changed
<1>2. ASSUME Rec!At(p, "update", "incentive_rules"), UNCHANGED edits,
             Rec!Update(p, i, IF Rec!Exists(i) THEN Rec!UpdateIncentiveRule(i, client[p].form) ELSE Rec!NoRow,
                        client[p].field, client[p].form[client[p].field])
      PROVE  Writing(p)
  <2>1. PICK c, v : c = client[p].field /\ v = client[p].form[client[p].field]
    OBVIOUS
  <2>2. /\ Shown(i, r) /\ r.table = "incentive_rules" /\ c \in Columns("incentive_rules") /\ v \in ValuesOf("incentive_rules", c)
        /\ client[p].form = [r EXCEPT ![c] = v]
    BY <1>2, <2>1, AtUpdate
  <2> HIDE DEF i, r
  <2>3. Rec!Exists(i) => Proper(row[i], r, c, v, Rec!UpdateIncentiveRule(i, client[p].form)) /\ row[i].table = "incentive_rules"
    BY <2>2, UpdateIncentiveRuleIsProper DEF Rec!Exists, Shown, RecOK
  <2>4. i \in Rec!Ids /\ edits' \in Nat
    BY <1>2, <2>2 DEF Shown, RecOK
  <2>5. QED
    BY <1>2, <2>1, <2>2, <2>3, <2>4 DEF Writing, i, r
<1>3. QED
  BY <1>1, <1>2 DEF Rec!SaveRule, Rec!Updates, Columns

-----------------------------------------------------------------------------
(* Records: the desks                                                      *)

LEMMA ListsWait ==
    ASSUME RecOK, NEW p \in Clients,
           \/ Rec!ListReviews(p) \/ Rec!ListTraining(p) \/ Rec!ListCareers(p) \/ Rec!ListTheSkills(p)
           \/ Rec!ListWork(p) \/ Rec!ListTheMeetings(p) \/ Rec!ListItems(p) \/ Rec!ListOpenItems(p)
           \/ Rec!OpenWorkflow(p) \/ Rec!ListLines(p) \/ Rec!ListGoals(p) \/ Rec!OpenMetric(p) \/ Rec!OpenRule(p)
    PROVE  Waiting(p)
<1>1. ASSUME NEW t \in Tables, NEW l \in SUBSET Rec!In(t), Rec!Opens(p, l) PROVE Waiting(p)
  <2>1. l \in SUBSET Rec!Ids /\ \A i \in l : row[i] # Rec!NoRow
    BY <1>1, InRows
  <2>2. QED
    BY <1>1, <2>1, OpensWaits
<1>2. CASE Rec!ListReviews(p)
  <2>1. /\ Rec!ListReviewCycles \subseteq Rec!In("review_cycles")
        /\ \A c : Rec!ListReviewsByCycle(c) \subseteq Rec!In("performance_reviews")
    BY DEF Rec!ListReviewCycles, Rec!ListReviewsByCycle
  <2>2. "performance_reviews" \in Tables /\ "review_cycles" \in Tables
    BY DEF Tables
  <2>3. QED
    BY <1>1, <1>2, <2>1, <2>2 DEF Rec!ListReviews
<1>3. CASE Rec!ListTraining(p)
  <2>1. /\ Rec!ListTrainingPrograms \subseteq Rec!In("training_programs")
        /\ \A c : Rec!ListEnrollments(c) \subseteq Rec!In("training_enrollments")
    BY DEF Rec!ListEnrollments, Rec!ListTrainingPrograms
  <2>2. "training_enrollments" \in Tables /\ "training_programs" \in Tables
    BY DEF Tables
  <2>3. QED
    BY <1>1, <1>3, <2>1, <2>2 DEF Rec!ListTraining
<1>4. CASE Rec!ListCareers(p)
  <2>1. /\ Rec!ListCareerLevels \subseteq Rec!In("career_levels")
        /\ Rec!ListCareerPaths \subseteq Rec!In("career_paths")
    BY DEF Rec!ListCareerLevels, Rec!ListCareerPaths
  <2>2. "career_levels" \in Tables /\ "career_paths" \in Tables
    BY DEF Tables
  <2>3. QED
    BY <1>1, <1>4, <2>1, <2>2 DEF Rec!ListCareers
<1>5. CASE Rec!ListTheSkills(p)
  <2>1. /\ Rec!ListSkills \subseteq Rec!In("skills")
        /\ \A c : Rec!ListEmployeeSkills(c) \subseteq Rec!In("employee_skills")
    BY DEF Rec!ListEmployeeSkills, Rec!ListSkills
  <2>2. "employee_skills" \in Tables /\ "skills" \in Tables
    BY DEF Tables
  <2>3. QED
    BY <1>1, <1>5, <2>1, <2>2 DEF Rec!ListTheSkills
<1>6. CASE Rec!ListWork(p)
  <2>1. /\ Rec!ListProjects \subseteq Rec!In("projects")
        /\ Rec!ListBlockedProjects \subseteq Rec!In("projects")
        /\ Rec!ListTasks \subseteq Rec!In("tasks")
        /\ Rec!ListOverdueTasks \subseteq Rec!In("tasks")
    BY DEF Rec!ListBlockedProjects, Rec!ListOverdueTasks, Rec!ListProjects, Rec!ListTasks
  <2>2. "projects" \in Tables /\ "tasks" \in Tables
    BY DEF Tables
  <2>3. QED
    BY <1>1, <1>6, <2>1, <2>2 DEF Rec!ListWork
<1>7. CASE Rec!ListTheMeetings(p)
  <2>1. /\ Rec!ListMeetings \subseteq Rec!In("meetings")
        /\ \A c : Rec!ListMeetingsByEmployee(c) \subseteq Rec!In("meetings")
    BY DEF Rec!ListMeetings, Rec!ListMeetingsByEmployee
  <2>2. "meetings" \in Tables
    BY DEF Tables
  <2>3. QED
    BY <1>1, <1>7, <2>1, <2>2 DEF Rec!ListTheMeetings
<1>8. CASE Rec!ListItems(p)
  <2>1. \A c : Rec!ListActionItems(c) \subseteq Rec!In("meeting_action_items")
    BY DEF Rec!ListActionItems
  <2>2. "meeting_action_items" \in Tables
    BY DEF Tables
  <2>3. QED
    BY <1>1, <1>8, <2>1, <2>2 DEF Rec!ListItems
<1>9. CASE Rec!ListOpenItems(p)
  <2>1. Rec!ListOpenActionItemsByTenant \subseteq Rec!In("meeting_action_items")
    BY DEF Rec!ListOpenActionItemsByTenant
  <2>2. "meeting_action_items" \in Tables
    BY DEF Tables
  <2>3. QED
    BY <1>1, <1>9, <2>1, <2>2 DEF Rec!ListOpenItems
<1>10. CASE Rec!OpenWorkflow(p)
  <2>1. Rec!ListWorkflows \subseteq Rec!In("workflows")
    BY DEF Rec!ListWorkflows
  <2>2. "workflows" \in Tables
    BY DEF Tables
  <2>3. QED
    BY <1>1, <1>10, <2>1, <2>2 DEF Rec!OpenWorkflow
<1>11. CASE Rec!ListLines(p)
  <2>1. /\ Rec!ListReportingLines \subseteq Rec!In("reporting_lines")
        /\ \A c : Rec!GetDirectReports(c) \subseteq Rec!In("reporting_lines")
    BY DEF Rec!GetDirectReports, Rec!ListReportingLines
  <2>2. "reporting_lines" \in Tables
    BY DEF Tables
  <2>3. QED
    BY <1>1, <1>11, <2>1, <2>2 DEF Rec!ListLines
<1>12. CASE Rec!ListGoals(p)
  <2>1. /\ Rec!ListGoalsByCycle \subseteq Rec!In("goals")
        /\ \A c : Rec!GetKeyResultsByGoal(c) \subseteq Rec!In("key_results")
    BY DEF Rec!GetKeyResultsByGoal, Rec!ListGoalsByCycle
  <2>2. "goals" \in Tables /\ "key_results" \in Tables
    BY DEF Tables
  <2>3. QED
    BY <1>1, <1>12, <2>1, <2>2 DEF Rec!ListGoals
<1>13. CASE Rec!OpenMetric(p)
  <2>1. Rec!ListMetrics \subseteq Rec!In("metrics")
    BY DEF Rec!ListMetrics
  <2>2. "metrics" \in Tables
    BY DEF Tables
  <2>3. QED
    BY <1>1, <1>13, <2>1, <2>2 DEF Rec!OpenMetric
<1>14. CASE Rec!OpenRule(p)
  <2>1. Rec!ListIncentiveRules \subseteq Rec!In("incentive_rules")
    BY DEF Rec!ListIncentiveRules
  <2>2. "incentive_rules" \in Tables
    BY DEF Tables
  <2>3. QED
    BY <1>1, <1>14, <2>1, <2>2 DEF Rec!OpenRule
<1>15. QED
  BY <1>2, <1>3, <1>4, <1>5, <1>6, <1>7, <1>8, <1>9, <1>10, <1>11, <1>12, <1>13, <1>14

LEMMA CreateCycleInserts ==
    ASSUME RecOK, NEW p \in Clients, Rec!CreateCycle(p)
    PROVE  Waiting(p) \/ Inserting(p)
<1>1. PICK s \in Rec!States("review_cycles") : Rec!CreatesNow(p, Rec!CreateReviewCycle(s))
  BY DEF Rec!CreateCycle
<1>2. PICK r : r = Rec!Filled("review_cycles", 0, 0, None, None, s)
  OBVIOUS
<1>3. Sound(r)
  <2>1. /\ "review_cycles" \in Tables /\ 0 \in Rec!Ids \cup {0} /\ 0 \in Rec!Ids \cup {0}
        /\ None \in Rec!People /\ None \in Rec!People
    BY DEF Tables, Rec!People
  <2>2. /\ s \in Rec!States("review_cycles") /\ s \notin Rec!Stamped
        /\ Rec!Parent("review_cycles") = "none" => 0 = 0
    BY DEF Rec!States, Rec!Stamped, Rec!Parent, Blank
  <2>3. "review_cycles" \in Upserted => None = None
    BY DEF Upserted
  <2>4. QED
    BY <1>2, <2>1, <2>2, <2>3, KnownStates DEF RecOK, Rec!Filled, Rec!Row, Sound, TheRows
<1>4. Rec!CreatesNow(p, r)
  BY <1>1, <1>2 DEF Rec!CreateReviewCycle
<1>5. QED
  BY <1>3, <1>4, CreatesInserts

LEMMA AddReviewInserts ==
    ASSUME RecOK, NEW p \in Clients, Rec!AddReview(p)
    PROVE  Waiting(p) \/ Inserting(p)
<1>1. PICK c \in Rec!Ids, e \in People : Rec!Creates(p, Rec!CreateReview(c, e, None), Rec!GetReviewCycle(c))
  BY DEF Rec!AddReview
<1>2. PICK r : r = Rec!Filled("performance_reviews", c, 0, e, None, "pending")
  OBVIOUS
<1>3. Sound(r)
  <2>1. /\ "performance_reviews" \in Tables /\ c \in Rec!Ids \cup {0} /\ 0 \in Rec!Ids \cup {0}
        /\ e \in Rec!People /\ None \in Rec!People
    BY DEF Tables, Rec!People
  <2>2. /\ "pending" \in Rec!States("performance_reviews") /\ "pending" \notin Rec!Stamped
        /\ Rec!Parent("performance_reviews") = "none" => c = 0
    BY DEF Rec!States, Rec!Stamped, Rec!Parent, Blank
  <2>3. "performance_reviews" \in Upserted => None = None
    BY DEF Upserted
  <2>4. QED
    BY <1>2, <2>1, <2>2, <2>3, KnownStates DEF RecOK, Rec!Filled, Rec!Row, Sound, TheRows
<1>4. PICK found : found = Rec!GetReviewCycle(c)
  OBVIOUS
<1>5. Rec!Creates(p, r, found)
  BY <1>1, <1>2, <1>4 DEF Rec!CreateReview
<1>6. QED
  BY <1>3, <1>5, CreatesInserts

LEMMA AddProgramInserts ==
    ASSUME RecOK, NEW p \in Clients, Rec!AddProgram(p)
    PROVE  Waiting(p) \/ Inserting(p)
<1>1. Rec!CreatesNow(p, Rec!CreateTrainingProgram)
  BY DEF Rec!AddProgram
<1>2. PICK r : r = Rec!Filled("training_programs", 0, 0, None, None, "active")
  OBVIOUS
<1>3. Sound(r)
  <2>1. /\ "training_programs" \in Tables /\ 0 \in Rec!Ids \cup {0} /\ 0 \in Rec!Ids \cup {0}
        /\ None \in Rec!People /\ None \in Rec!People
    BY DEF Tables, Rec!People
  <2>2. /\ "active" \in Rec!States("training_programs") /\ "active" \notin Rec!Stamped
        /\ Rec!Parent("training_programs") = "none" => 0 = 0
    BY DEF Rec!States, Rec!Stamped, Rec!Parent, Blank
  <2>3. "training_programs" \in Upserted => None = None
    BY DEF Upserted
  <2>4. QED
    BY <1>2, <2>1, <2>2, <2>3, KnownStates DEF RecOK, Rec!Filled, Rec!Row, Sound, TheRows
<1>4. Rec!CreatesNow(p, r)
  BY <1>1, <1>2 DEF Rec!CreateTrainingProgram
<1>5. QED
  BY <1>3, <1>4, CreatesInserts

LEMMA EnrollInserts ==
    ASSUME RecOK, NEW p \in Clients, Rec!Enroll(p)
    PROVE  Waiting(p) \/ Inserting(p)
<1>1. PICK c \in Rec!Ids, e \in People : Rec!CreatesNow(p, Rec!CreateEnrollment(c, e))
  BY DEF Rec!Enroll
<1>2. PICK r : r = Rec!Filled("training_enrollments", c, 0, e, None, "enrolled")
  OBVIOUS
<1>3. Sound(r)
  <2>1. /\ "training_enrollments" \in Tables /\ c \in Rec!Ids \cup {0} /\ 0 \in Rec!Ids \cup {0}
        /\ e \in Rec!People /\ None \in Rec!People
    BY DEF Tables, Rec!People
  <2>2. /\ "enrolled" \in Rec!States("training_enrollments") /\ "enrolled" \notin Rec!Stamped
        /\ Rec!Parent("training_enrollments") = "none" => c = 0
    BY DEF Rec!States, Rec!Stamped, Rec!Parent, Blank
  <2>3. "training_enrollments" \in Upserted => None = None
    BY DEF Upserted
  <2>4. QED
    BY <1>2, <2>1, <2>2, <2>3, KnownStates DEF RecOK, Rec!Filled, Rec!Row, Sound, TheRows
<1>4. Rec!CreatesNow(p, r)
  BY <1>1, <1>2 DEF Rec!CreateEnrollment
<1>5. QED
  BY <1>3, <1>4, CreatesInserts

LEMMA AddLevelInserts ==
    ASSUME RecOK, NEW p \in Clients, Rec!AddLevel(p)
    PROVE  Waiting(p) \/ Inserting(p)
<1>1. Rec!CreatesNow(p, Rec!CreateCareerLevel)
  BY DEF Rec!AddLevel
<1>2. PICK r : r = Rec!Filled("career_levels", 0, 0, None, None, Blank)
  OBVIOUS
<1>3. Sound(r)
  <2>1. /\ "career_levels" \in Tables /\ 0 \in Rec!Ids \cup {0} /\ 0 \in Rec!Ids \cup {0}
        /\ None \in Rec!People /\ None \in Rec!People
    BY DEF Tables, Rec!People
  <2>2. /\ Blank \in Rec!States("career_levels") /\ Blank \notin Rec!Stamped
        /\ Rec!Parent("career_levels") = "none" => 0 = 0
    BY DEF Rec!States, Rec!Stamped, Rec!Parent, Blank
  <2>3. "career_levels" \in Upserted => None = None
    BY DEF Upserted
  <2>4. QED
    BY <1>2, <2>1, <2>2, <2>3, KnownStates DEF RecOK, Rec!Filled, Rec!Row, Sound, TheRows
<1>4. Rec!CreatesNow(p, r)
  BY <1>1, <1>2 DEF Rec!CreateCareerLevel, Blank
<1>5. QED
  BY <1>3, <1>4, CreatesInserts

LEMMA AddSkillInserts ==
    ASSUME RecOK, NEW p \in Clients, Rec!AddSkill(p)
    PROVE  Waiting(p) \/ Inserting(p)
<1>1. Rec!CreatesNow(p, Rec!CreateSkill)
  BY DEF Rec!AddSkill
<1>2. PICK r : r = Rec!Filled("skills", 0, 0, None, None, Blank)
  OBVIOUS
<1>3. Sound(r)
  <2>1. /\ "skills" \in Tables /\ 0 \in Rec!Ids \cup {0} /\ 0 \in Rec!Ids \cup {0}
        /\ None \in Rec!People /\ None \in Rec!People
    BY DEF Tables, Rec!People
  <2>2. /\ Blank \in Rec!States("skills") /\ Blank \notin Rec!Stamped
        /\ Rec!Parent("skills") = "none" => 0 = 0
    BY DEF Rec!States, Rec!Stamped, Rec!Parent, Blank
  <2>3. "skills" \in Upserted => None = None
    BY DEF Upserted
  <2>4. QED
    BY <1>2, <2>1, <2>2, <2>3, KnownStates DEF RecOK, Rec!Filled, Rec!Row, Sound, TheRows
<1>4. Rec!CreatesNow(p, r)
  BY <1>1, <1>2 DEF Rec!CreateSkill, Blank
<1>5. QED
  BY <1>3, <1>4, CreatesInserts

LEMMA AddProjectInserts ==
    ASSUME RecOK, NEW p \in Clients, Rec!AddProject(p)
    PROVE  Waiting(p) \/ Inserting(p)
<1>1. PICK e \in Rec!People, s \in Rec!States("projects") : Rec!CreatesNow(p, Rec!CreateProject(e, s))
  BY DEF Rec!AddProject
<1>2. PICK r : r = Rec!Filled("projects", 0, 0, e, None, s)
  OBVIOUS
<1>3. Sound(r)
  <2>1. /\ "projects" \in Tables /\ 0 \in Rec!Ids \cup {0} /\ 0 \in Rec!Ids \cup {0}
        /\ e \in Rec!People /\ None \in Rec!People
    BY DEF Tables, Rec!People
  <2>2. /\ s \in Rec!States("projects") /\ s \notin Rec!Stamped
        /\ Rec!Parent("projects") = "none" => 0 = 0
    BY DEF Rec!States, Rec!Stamped, Rec!Parent, Blank
  <2>3. "projects" \in Upserted => None = None
    BY DEF Upserted
  <2>4. QED
    BY <1>2, <2>1, <2>2, <2>3, KnownStates DEF RecOK, Rec!Filled, Rec!Row, Sound, TheRows
<1>4. Rec!CreatesNow(p, r)
  BY <1>1, <1>2 DEF Rec!CreateProject
<1>5. QED
  BY <1>3, <1>4, CreatesInserts

LEMMA AddTaskInserts ==
    ASSUME RecOK, NEW p \in Clients, Rec!AddTask(p)
    PROVE  Waiting(p) \/ Inserting(p)
<1>1. PICK c \in Rec!Ids \cup {0}, e \in Rec!People, s \in Rec!States("tasks") : Rec!CreatesNow(p, Rec!CreateTask(c, e, s))
  BY DEF Rec!AddTask
<1>2. PICK r : r = Rec!Filled("tasks", c, 0, e, None, s)
  OBVIOUS
<1>3. Sound(r)
  <2>1. /\ "tasks" \in Tables /\ c \in Rec!Ids \cup {0} /\ 0 \in Rec!Ids \cup {0}
        /\ e \in Rec!People /\ None \in Rec!People
    BY DEF Tables, Rec!People
  <2>2. /\ s \in Rec!States("tasks") /\ s \notin Rec!Stamped
        /\ Rec!Parent("tasks") = "none" => c = 0
    BY DEF Rec!States, Rec!Stamped, Rec!Parent, Blank
  <2>3. "tasks" \in Upserted => None = None
    BY DEF Upserted
  <2>4. QED
    BY <1>2, <2>1, <2>2, <2>3, KnownStates DEF RecOK, Rec!Filled, Rec!Row, Sound, TheRows
<1>4. Rec!CreatesNow(p, r)
  BY <1>1, <1>2 DEF Rec!CreateTask
<1>5. QED
  BY <1>3, <1>4, CreatesInserts

LEMMA AddMeetingInserts ==
    ASSUME RecOK, NEW p \in Clients, Rec!AddMeeting(p)
    PROVE  Waiting(p) \/ Inserting(p)
<1>1. PICK e \in People, m \in Rec!People : Rec!CreatesNow(p, Rec!CreateMeeting(e, m))
  BY DEF Rec!AddMeeting
<1>2. PICK r : r = Rec!Filled("meetings", 0, 0, e, m, Blank)
  OBVIOUS
<1>3. Sound(r)
  <2>1. /\ "meetings" \in Tables /\ 0 \in Rec!Ids \cup {0} /\ 0 \in Rec!Ids \cup {0}
        /\ e \in Rec!People /\ m \in Rec!People
    BY DEF Tables, Rec!People
  <2>2. /\ Blank \in Rec!States("meetings") /\ Blank \notin Rec!Stamped
        /\ Rec!Parent("meetings") = "none" => 0 = 0
    BY DEF Rec!States, Rec!Stamped, Rec!Parent, Blank
  <2>3. "meetings" \in Upserted => m = None
    BY DEF Upserted
  <2>4. QED
    BY <1>2, <2>1, <2>2, <2>3, KnownStates DEF RecOK, Rec!Filled, Rec!Row, Sound, TheRows
<1>4. Rec!CreatesNow(p, r)
  BY <1>1, <1>2 DEF Rec!CreateMeeting, Blank
<1>5. QED
  BY <1>3, <1>4, CreatesInserts

LEMMA AddItemInserts ==
    ASSUME RecOK, NEW p \in Clients, Rec!AddItem(p)
    PROVE  Waiting(p) \/ Inserting(p)
<1>1. PICK m \in Rec!Ids, e \in Rec!People : Rec!Creates(p, Rec!CreateActionItem(m, e), Rec!GetMeeting(m))
  BY DEF Rec!AddItem
<1>2. PICK r : r = Rec!Filled("meeting_action_items", m, 0, e, None, "open")
  OBVIOUS
<1>3. Sound(r)
  <2>1. /\ "meeting_action_items" \in Tables /\ m \in Rec!Ids \cup {0} /\ 0 \in Rec!Ids \cup {0}
        /\ e \in Rec!People /\ None \in Rec!People
    BY DEF Tables, Rec!People
  <2>2. /\ "open" \in Rec!States("meeting_action_items") /\ "open" \notin Rec!Stamped
        /\ Rec!Parent("meeting_action_items") = "none" => m = 0
    BY DEF Rec!States, Rec!Stamped, Rec!Parent, Blank
  <2>3. "meeting_action_items" \in Upserted => None = None
    BY DEF Upserted
  <2>4. QED
    BY <1>2, <2>1, <2>2, <2>3, KnownStates DEF RecOK, Rec!Filled, Rec!Row, Sound, TheRows
<1>4. PICK found : found = Rec!GetMeeting(m)
  OBVIOUS
<1>5. Rec!Creates(p, r, found)
  BY <1>1, <1>2, <1>4 DEF Rec!CreateActionItem
<1>6. QED
  BY <1>3, <1>5, CreatesInserts

LEMMA AddWorkflowInserts ==
    ASSUME RecOK, NEW p \in Clients, Rec!AddWorkflow(p)
    PROVE  Waiting(p) \/ Inserting(p)
<1>1. Rec!CreatesNow(p, Rec!CreateWorkflow)
  BY DEF Rec!AddWorkflow
<1>2. PICK r : r = Rec!Filled("workflows", 0, 0, None, None, Blank)
  OBVIOUS
<1>3. Sound(r)
  <2>1. /\ "workflows" \in Tables /\ 0 \in Rec!Ids \cup {0} /\ 0 \in Rec!Ids \cup {0}
        /\ None \in Rec!People /\ None \in Rec!People
    BY DEF Tables, Rec!People
  <2>2. /\ Blank \in Rec!States("workflows") /\ Blank \notin Rec!Stamped
        /\ Rec!Parent("workflows") = "none" => 0 = 0
    BY DEF Rec!States, Rec!Stamped, Rec!Parent, Blank
  <2>3. "workflows" \in Upserted => None = None
    BY DEF Upserted
  <2>4. QED
    BY <1>2, <2>1, <2>2, <2>3, KnownStates DEF RecOK, Rec!Filled, Rec!Row, Sound, TheRows
<1>4. Rec!CreatesNow(p, r)
  BY <1>1, <1>2 DEF Rec!CreateWorkflow, Blank
<1>5. QED
  BY <1>3, <1>4, CreatesInserts

LEMMA AddLineInserts ==
    ASSUME RecOK, NEW p \in Clients, Rec!AddLine(p)
    PROVE  Waiting(p) \/ Inserting(p)
<1>1. PICK m \in People, e \in People, s \in Rec!States("reporting_lines") : Rec!CreatesNow(p, Rec!CreateReportingLine(m, e, s))
  BY DEF Rec!AddLine
<1>2. PICK r : r = Rec!Filled("reporting_lines", 0, 0, e, m, s)
  OBVIOUS
<1>3. Sound(r)
  <2>1. /\ "reporting_lines" \in Tables /\ 0 \in Rec!Ids \cup {0} /\ 0 \in Rec!Ids \cup {0}
        /\ e \in Rec!People /\ m \in Rec!People
    BY DEF Tables, Rec!People
  <2>2. /\ s \in Rec!States("reporting_lines") /\ s \notin Rec!Stamped
        /\ Rec!Parent("reporting_lines") = "none" => 0 = 0
    BY DEF Rec!States, Rec!Stamped, Rec!Parent, Blank
  <2>3. "reporting_lines" \in Upserted => m = None
    BY DEF Upserted
  <2>4. QED
    BY <1>2, <2>1, <2>2, <2>3, KnownStates DEF RecOK, Rec!Filled, Rec!Row, Sound, TheRows
<1>4. Rec!CreatesNow(p, r)
  BY <1>1, <1>2 DEF Rec!CreateReportingLine
<1>5. QED
  BY <1>3, <1>4, CreatesInserts

LEMMA AddGoalInserts ==
    ASSUME RecOK, NEW p \in Clients, Rec!AddGoal(p)
    PROVE  Waiting(p) \/ Inserting(p)
<1>1. PICK e \in Rec!People, s \in Rec!States("goals") : Rec!CreatesNow(p, Rec!CreateGoal(e, s))
  BY DEF Rec!AddGoal
<1>2. PICK r : r = Rec!Filled("goals", 0, 0, e, None, s)
  OBVIOUS
<1>3. Sound(r)
  <2>1. /\ "goals" \in Tables /\ 0 \in Rec!Ids \cup {0} /\ 0 \in Rec!Ids \cup {0}
        /\ e \in Rec!People /\ None \in Rec!People
    BY DEF Tables, Rec!People
  <2>2. /\ s \in Rec!States("goals") /\ s \notin Rec!Stamped
        /\ Rec!Parent("goals") = "none" => 0 = 0
    BY DEF Rec!States, Rec!Stamped, Rec!Parent, Blank
  <2>3. "goals" \in Upserted => None = None
    BY DEF Upserted
  <2>4. QED
    BY <1>2, <2>1, <2>2, <2>3, KnownStates DEF RecOK, Rec!Filled, Rec!Row, Sound, TheRows
<1>4. Rec!CreatesNow(p, r)
  BY <1>1, <1>2 DEF Rec!CreateGoal
<1>5. QED
  BY <1>3, <1>4, CreatesInserts

LEMMA AddKeyResultInserts ==
    ASSUME RecOK, NEW p \in Clients, Rec!AddKeyResult(p)
    PROVE  Waiting(p) \/ Inserting(p)
<1>1. PICK g \in Rec!Ids : Rec!Creates(p, Rec!CreateKeyResult(g), Rec!GetGoal(g))
  BY DEF Rec!AddKeyResult
<1>2. PICK r : r = Rec!Filled("key_results", g, 0, None, None, Blank)
  OBVIOUS
<1>3. Sound(r)
  <2>1. /\ "key_results" \in Tables /\ g \in Rec!Ids \cup {0} /\ 0 \in Rec!Ids \cup {0}
        /\ None \in Rec!People /\ None \in Rec!People
    BY DEF Tables, Rec!People
  <2>2. /\ Blank \in Rec!States("key_results") /\ Blank \notin Rec!Stamped
        /\ Rec!Parent("key_results") = "none" => g = 0
    BY DEF Rec!States, Rec!Stamped, Rec!Parent, Blank
  <2>3. "key_results" \in Upserted => None = None
    BY DEF Upserted
  <2>4. QED
    BY <1>2, <2>1, <2>2, <2>3, KnownStates DEF RecOK, Rec!Filled, Rec!Row, Sound, TheRows
<1>4. PICK found : found = Rec!GetGoal(g)
  OBVIOUS
<1>5. Rec!Creates(p, r, found)
  BY <1>1, <1>2, <1>4 DEF Rec!CreateKeyResult, Blank
<1>6. QED
  BY <1>3, <1>5, CreatesInserts

LEMMA AddRuleInserts ==
    ASSUME RecOK, NEW p \in Clients, Rec!AddRule(p)
    PROVE  Waiting(p) \/ Inserting(p)
<1>1. Rec!CreatesNow(p, Rec!CreateIncentiveRule)
  BY DEF Rec!AddRule
<1>2. PICK r : r = Rec!Filled("incentive_rules", 0, 0, None, None, Blank)
  OBVIOUS
<1>3. Sound(r)
  <2>1. /\ "incentive_rules" \in Tables /\ 0 \in Rec!Ids \cup {0} /\ 0 \in Rec!Ids \cup {0}
        /\ None \in Rec!People /\ None \in Rec!People
    BY DEF Tables, Rec!People
  <2>2. /\ Blank \in Rec!States("incentive_rules") /\ Blank \notin Rec!Stamped
        /\ Rec!Parent("incentive_rules") = "none" => 0 = 0
    BY DEF Rec!States, Rec!Stamped, Rec!Parent, Blank
  <2>3. "incentive_rules" \in Upserted => None = None
    BY DEF Upserted
  <2>4. QED
    BY <1>2, <2>1, <2>2, <2>3, KnownStates DEF RecOK, Rec!Filled, Rec!Row, Sound, TheRows
<1>4. Rec!CreatesNow(p, r)
  BY <1>1, <1>2 DEF Rec!CreateIncentiveRule, Blank
<1>5. QED
  BY <1>3, <1>4, CreatesInserts

LEMMA AddMetricInserts ==
    ASSUME RecOK, NEW p \in Clients, Rec!AddMetric(p)
    PROVE  Waiting(p) \/ Inserting(p)
<1>1. PICK n \in {1, 2}, e \in Rec!People : Rec!CreatesNow(p, Rec!CreateMetric(n, e))
  BY DEF Rec!AddMetric
<1>2. PICK f : f = Rec!Filled("metrics", 0, 0, e, None, Blank)
  OBVIOUS
<1>3. Sound(f) /\ f.table = "metrics"
  <2>1. "metrics" \in Tables /\ 0 \in Rec!Ids \cup {0} /\ None \in Rec!People /\ "metrics" \notin Upserted
    BY DEF Tables, Rec!People, Upserted
  <2>2. Blank \in Rec!States("metrics") /\ Blank \notin Rec!Stamped
    BY DEF Rec!States, Rec!Stamped, Blank
  <2>3. QED
    BY <1>2, <2>1, <2>2, KnownStates DEF RecOK, Rec!Filled, Rec!Row, Sound, TheRows
<1>4. PICK r : r = [f EXCEPT !.self = n]
  OBVIOUS
<1>5. Sound(r)
  <2>1. r \in TheRows /\ r.table = "metrics" /\ r.of = f.of /\ r.to = f.to /\ r.status = f.status /\ r.stamped = f.stamped
    BY <1>3, <1>4 DEF Sound, TheRows
  <2>2. QED
    BY <1>3, <2>1 DEF Sound, Upserted
<1>6. Rec!CreatesNow(p, r)
  BY <1>1, <1>2, <1>4 DEF Rec!CreateMetric, Blank
<1>7. QED
  BY <1>5, <1>6, CreatesInserts

LEMMA DeletesAtOnce ==
    ASSUME RecOK, NEW p \in Clients,
           \/ Rec!DeleteCycle(p) \/ Rec!DeleteEnrollment(p) \/ Rec!DeletePath(p) \/ Rec!DeleteSkill(p)
           \/ Rec!DeleteMeeting(p) \/ Rec!DeleteItem(p) \/ Rec!DeleteGoal(p)
    PROVE  Deleting(p)
  BY DeletesNowDeletes
     DEF Rec!DeleteCycle, Rec!DeleteEnrollment, Rec!DeletePath, Rec!DeleteSkill, Rec!DeleteMeeting,
         Rec!DeleteItem, Rec!DeleteGoal

LEMMA DeletesALevel ==
    ASSUME RecOK, NEW p \in Clients, Rec!DeleteEmployeeSkill(p)
    PROVE  Deleting(p)
  BY DEF Rec!DeleteEmployeeSkill, Rec!ListEmployeeSkills, Rec!In, Deleting

LEMMA LooksAndDeletes ==
    ASSUME RecOK, NEW p \in Clients, NEW t, NEW found,
           \/ /\ Rec!OpenOn(p, t) /\ UNCHANGED <<row, nextRow, Rec!ghosts>>
              /\ client' = [client EXCEPT ![p] =
                    IF found THEN [at |-> "delete", id |-> client[p].id, form |-> client[p].read] ELSE Rec!Closed]
           \/ Rec!At(p, "delete", t) /\ Rec!Delete(p, client[p].id)
    PROVE  Waiting(p) \/ Deleting(p)
  BY LooksWaits, AtDelete DEF Deleting

LEMMA LooksAndRetires ==
    ASSUME RecOK, NEW p \in Clients, NEW t, t \notin Upserted, NEW found,
           \/ /\ Rec!OpenOn(p, t) /\ UNCHANGED <<row, nextRow, Rec!ghosts>>
              /\ client' = [client EXCEPT ![p] =
                    IF found THEN [at |-> "delete", id |-> client[p].id, form |-> client[p].read] ELSE Rec!Closed]
           \/ /\ Rec!At(p, "delete", t)
              /\ row' = [row EXCEPT ![client[p].id].active = FALSE]
              /\ given' = [given EXCEPT ![client[p].id].active = FALSE]
              /\ Rec!Answered(p) /\ UNCHANGED <<nextRow, edits, clashed>>
    PROVE  Waiting(p) \/ Retiring(p)
<1>1. CASE Rec!OpenOn(p, t) /\ UNCHANGED <<row, nextRow, Rec!ghosts>> /\ client' = [client EXCEPT ![p] =
               IF found THEN [at |-> "delete", id |-> client[p].id, form |-> client[p].read] ELSE Rec!Closed]
  BY <1>1, LooksWaits
<1>2. CASE /\ Rec!At(p, "delete", t)
           /\ row' = [row EXCEPT ![client[p].id].active = FALSE]
           /\ given' = [given EXCEPT ![client[p].id].active = FALSE]
           /\ Rec!Answered(p) /\ UNCHANGED <<nextRow, edits, clashed>>
  <2>1. PICK i : i = client[p].id
    OBVIOUS
  <2>2. i \in Rec!Ids /\ (row[i] # Rec!NoRow => row[i].table \notin Upserted)
    BY <1>2, <2>1, AtDelete
  <2>3. QED
    BY <1>2, <2>1, <2>2 DEF Retiring
<1>3. QED
  BY <1>1, <1>2

LEMMA DeletesWhatIsFound ==
    ASSUME RecOK, NEW p \in Clients,
           Rec!DeleteProgram(p) \/ Rec!DeleteLevel(p) \/ Rec!DeleteProject(p) \/ Rec!DeleteTask(p) \/ Rec!DeleteLine(p) \/ Rec!DeleteKeyResult(p)
    PROVE  Waiting(p) \/ Deleting(p)
<1>1. CASE Rec!DeleteProgram(p)
  <2>1. PICK found : found = Rec!VerifyTrainingProgramTenant(client[p])
    OBVIOUS
  <2>2. QED
    BY <1>1, <2>1, LooksAndDeletes DEF Rec!DeleteProgram, Rec!Deletes
<1>2. CASE Rec!DeleteLevel(p)
  <2>1. PICK found : found = Rec!VerifyCareerLevelTenant(client[p])
    OBVIOUS
  <2>2. QED
    BY <1>2, <2>1, LooksAndDeletes DEF Rec!DeleteLevel, Rec!Deletes
<1>3. CASE Rec!DeleteProject(p)
  <2>1. PICK found : found = Rec!VerifyProjectTenant(client[p])
    OBVIOUS
  <2>2. QED
    BY <1>3, <2>1, LooksAndDeletes DEF Rec!DeleteProject, Rec!Deletes
<1>4. CASE Rec!DeleteTask(p)
  <2>1. PICK found : found = Rec!VerifyTaskTenant(client[p])
    OBVIOUS
  <2>2. QED
    BY <1>4, <2>1, LooksAndDeletes DEF Rec!DeleteTask, Rec!Deletes
<1>5. CASE Rec!DeleteLine(p)
  <2>1. PICK found : found = Rec!VerifyReportingLineTenant(client[p])
    OBVIOUS
  <2>2. QED
    BY <1>5, <2>1, LooksAndDeletes DEF Rec!DeleteLine, Rec!Deletes
<1>6. CASE Rec!DeleteKeyResult(p)
  <2>1. PICK found : found = Rec!VerifyGoalTenant(client[p])
    OBVIOUS
  <2>2. QED
    BY <1>6, <2>1, LooksAndDeletes DEF Rec!DeleteKeyResult, Rec!Deletes
<1>7. QED
  BY <1>1, <1>2, <1>3, <1>4, <1>5, <1>6

LEMMA RetiresWhatIsFound ==
    ASSUME RecOK, NEW p \in Clients,
           Rec!DeleteWorkflow(p) \/ Rec!DeleteMetric(p) \/ Rec!DeleteRule(p)
    PROVE  Waiting(p) \/ Retiring(p)
<1>1. CASE Rec!DeleteWorkflow(p)
  <2>1. PICK found : found = Rec!VerifyWorkflowTenant(client[p])
    OBVIOUS
  <2>2. QED
    BY <1>1, <2>1, LooksAndRetires DEF Rec!DeleteWorkflow, Rec!Retires, Upserted
<1>2. CASE Rec!DeleteMetric(p)
  <2>1. PICK found : found = Rec!VerifyMetricTenant(client[p])
    OBVIOUS
  <2>2. QED
    BY <1>2, <2>1, LooksAndRetires DEF Rec!DeleteMetric, Rec!Retires, Upserted
<1>3. CASE Rec!DeleteRule(p)
  <2>1. PICK found : found = Rec!VerifyIncentiveRuleTenant(client[p])
    OBVIOUS
  <2>2. QED
    BY <1>3, <2>1, LooksAndRetires DEF Rec!DeleteRule, Rec!Retires, Upserted
<1>4. QED
  BY <1>1, <1>2, <1>3

LEMMA SavePathReplaces ==
    ASSUME RecOK, NEW p \in Clients, Rec!SavePath(p)
    PROVE  Inserting(p) \/ Replacing(p)
<1>1. PICK e \in People, current, target \in Rec!Ids \cup {0} :
         client[p].at = "closed" /\ Rec!Upsert(p, Rec!NewCareerPath(e, current, target), Rec!UpsertCareerPath)
  BY DEF Rec!SavePath
<1>2. PICK r : r = Rec!NewCareerPath(e, current, target)
  OBVIOUS
<1>3. Sound(r) /\ r.table = "career_paths"
  <2>1. "career_paths" \in Tables /\ 0 \in Rec!Ids \cup {0} /\ None \in Rec!People /\ e \in Rec!People
    BY DEF Tables, Rec!People
  <2>2. Blank \in Rec!States("career_paths") /\ Blank \notin Rec!Stamped /\ Rec!Parent("career_paths") # "none"
    BY DEF Rec!States, Rec!Stamped, Rec!Parent, Blank
  <2>3. r = Rec!Filled("career_paths", current, target, e, None, Blank)
    BY <1>2 DEF Blank, Rec!NewCareerPath
  <2>4. QED
    BY <2>1, <2>2, <2>3, KnownStates DEF RecOK, Rec!Filled, Rec!Row, Sound, TheRows
<1>4. edits' \in Nat /\ UNCHANGED clashed
  BY <1>1 DEF Rec!Upsert, Rec!Sending, RecOK
<1>5. CASE Rec!Insert(p, r)
  BY <1>3, <1>4, <1>5 DEF Inserting
<1>6. ASSUME Rec!RefersWell(r), NEW i \in Rec!Conflicts(r), row' = [row EXCEPT ![i] = Rec!UpsertCareerPath(i, r)],
             given' = [given EXCEPT ![i] = r], Rec!Answered(p), UNCHANGED nextRow
      PROVE  Replacing(p)
  <2>1. i \in Rec!Ids /\ row[i].table = r.table /\ \A k \in Rec!Key(r.table) : row[i][k] = r[k]
    BY <1>6 DEF Rec!Conflicts, Rec!In
  <2>2. row[i] # Rec!NoRow /\ Sound(row[i])
    BY <1>3, <2>1, Apart DEF RecOK, Rec!NoRow
  <2>3. PICK n : n = Rec!UpsertCareerPath(i, r)
    OBVIOUS
  <2>4. \A k \in Rec!Key(r.table) : row[i][k] = r[k] /\ k \in {"of", "who"}
    BY <1>3, <2>1 DEF Rec!Key, Rec!Keys
  <2>5. row[i].who = r.who
    BY <1>3, <2>1 DEF Rec!Key, Rec!Keys
  <2>6. /\ row[i].by = r.by /\ row[i].self = r.self /\ row[i].stamped = r.stamped /\ row[i].active = r.active
        /\ row[i].status = r.status
    BY <1>3, <2>1, <2>2 DEF Sound, Upserted, Rec!States
  <2>7. /\ n \in TheRows /\ n.table = r.table /\ n.of = r.of /\ n.to = r.to /\ n.text = r.text
        /\ n.who = r.who /\ n.by = r.by /\ n.self = r.self /\ n.stamped = r.stamped /\ n.active = r.active
        /\ n.status = r.status
    BY <1>3, <2>1, <2>2, <2>3, <2>5, <2>6 DEF Sound, TheRows, Rec!UpsertCareerPath
  <2>8. Sound(n)
    BY <1>3, <2>7 DEF Sound
  <2>9. /\ \A k \in Rec!Key(r.table) : n[k] = row[i][k]
        /\ \A k \in Rec!Fields \cup {"to", "active"} : n[k] = r[k]
    BY <2>4, <2>7 DEF Rec!Fields
  <2>10. Rec!Exists(i)
    BY <2>1, <2>2 DEF Rec!Exists, Rec!Ids
  <2>11. row' = [row EXCEPT ![i] = n]
    BY <1>6, <2>3
  <2>12. QED
    BY <1>3, <1>4, <1>6, <2>1, <2>7, <2>8, <2>9, <2>10, <2>11 DEF Replacing
<1>7. QED
  BY <1>1, <1>2, <1>5, <1>6 DEF Rec!Upsert

LEMMA SetSkillReplaces ==
    ASSUME RecOK, NEW p \in Clients, Rec!SetSkill(p)
    PROVE  Inserting(p) \/ Replacing(p)
<1>1. PICK s \in Rec!Ids, e \in People :
         client[p].at = "closed" /\ Rec!Upsert(p, Rec!NewEmployeeSkill(s, e), Rec!SetEmployeeSkill)
  BY DEF Rec!SetSkill
<1>2. PICK r : r = Rec!NewEmployeeSkill(s, e)
  OBVIOUS
<1>3. Sound(r) /\ r.table = "employee_skills"
  <2>1. "employee_skills" \in Tables /\ 0 \in Rec!Ids \cup {0} /\ None \in Rec!People /\ e \in Rec!People
    BY DEF Tables, Rec!People
  <2>2. Blank \in Rec!States("employee_skills") /\ Blank \notin Rec!Stamped /\ Rec!Parent("employee_skills") # "none"
    BY DEF Rec!States, Rec!Stamped, Rec!Parent, Blank
  <2>3. r = Rec!Filled("employee_skills", s, 0, e, None, Blank)
    BY <1>2 DEF Blank, Rec!NewEmployeeSkill
  <2>4. QED
    BY <2>1, <2>2, <2>3, KnownStates DEF RecOK, Rec!Filled, Rec!Row, Sound, TheRows
<1>4. edits' \in Nat /\ UNCHANGED clashed
  BY <1>1 DEF Rec!Upsert, Rec!Sending, RecOK
<1>5. CASE Rec!Insert(p, r)
  BY <1>3, <1>4, <1>5 DEF Inserting
<1>6. ASSUME Rec!RefersWell(r), NEW i \in Rec!Conflicts(r), row' = [row EXCEPT ![i] = Rec!SetEmployeeSkill(i, r)],
             given' = [given EXCEPT ![i] = r], Rec!Answered(p), UNCHANGED nextRow
      PROVE  Replacing(p)
  <2>1. i \in Rec!Ids /\ row[i].table = r.table /\ \A k \in Rec!Key(r.table) : row[i][k] = r[k]
    BY <1>6 DEF Rec!Conflicts, Rec!In
  <2>2. row[i] # Rec!NoRow /\ Sound(row[i])
    BY <1>3, <2>1, Apart DEF RecOK, Rec!NoRow
  <2>3. PICK n : n = Rec!SetEmployeeSkill(i, r)
    OBVIOUS
  <2>4. \A k \in Rec!Key(r.table) : row[i][k] = r[k] /\ k \in {"of", "who"}
    BY <1>3, <2>1 DEF Rec!Key, Rec!Keys
  <2>5. row[i].who = r.who
    BY <1>3, <2>1 DEF Rec!Key, Rec!Keys
  <2>6. /\ row[i].by = r.by /\ row[i].self = r.self /\ row[i].stamped = r.stamped /\ row[i].active = r.active
        /\ row[i].status = r.status
    BY <1>3, <2>1, <2>2 DEF Sound, Upserted, Rec!States
  <2>7. /\ n \in TheRows /\ n.table = r.table /\ n.of = r.of /\ n.to = r.to /\ n.text = r.text
        /\ n.who = r.who /\ n.by = r.by /\ n.self = r.self /\ n.stamped = r.stamped /\ n.active = r.active
        /\ n.status = r.status
    <3>1. row[i].of = r.of /\ row[i].to = r.to
      BY <1>3, <2>1, <2>2 DEF Rec!Key, Rec!Keys, Sound
    <3>2. QED
      BY <1>3, <2>1, <2>2, <2>3, <2>5, <2>6, <3>1 DEF Sound, TheRows, Rec!SetEmployeeSkill
  <2>8. Sound(n)
    BY <1>3, <2>7 DEF Sound
  <2>9. /\ \A k \in Rec!Key(r.table) : n[k] = row[i][k]
        /\ \A k \in Rec!Fields \cup {"to", "active"} : n[k] = r[k]
    BY <2>4, <2>7 DEF Rec!Fields
  <2>10. Rec!Exists(i)
    BY <2>1, <2>2 DEF Rec!Exists, Rec!Ids
  <2>11. row' = [row EXCEPT ![i] = n]
    BY <1>6, <2>3
  <2>12. QED
    BY <1>3, <1>4, <1>6, <2>1, <2>7, <2>8, <2>9, <2>10, <2>11 DEF Replacing
<1>7. QED
  BY <1>1, <1>2, <1>5, <1>6 DEF Rec!Upsert

Kinds(p) ==
    Waiting(p) \/ Inserting(p) \/ Writing(p) \/ Deleting(p) \/ Retiring(p) \/ Replacing(p)

\* Whatever a client does is of one of the kinds.
LEMMA RecStep ==
    ASSUME RecOK, Rec!Next
    PROVE  \E p \in Clients : Kinds(p)
<1>1. PICK p \in Clients :
         \/ Rec!Reviews(p) \/ Rec!Training(p) \/ Rec!Careers(p) \/ Rec!Skills(p) \/ Rec!Work(p) \/ Rec!Meetings(p)
         \/ Rec!Workflows(p) \/ Rec!Lines(p) \/ Rec!TheGoals(p) \/ Rec!Measures(p) \/ Rec!Fails(p)
  BY DEF Rec!Next
<1>2. CASE Rec!Reviews(p)
  BY <1>2, ListsWait, CreateCycleInserts, UpdateCycleWrites, DeletesAtOnce, AddReviewInserts, SaveReviewWrites DEF Rec!Reviews, Kinds
<1>3. CASE Rec!Training(p)
  BY <1>3, ListsWait, AddProgramInserts, SaveProgramWrites, DeletesWhatIsFound, EnrollInserts, SaveEnrollmentWrites, DeletesAtOnce DEF Rec!Training, Kinds
<1>4. CASE Rec!Careers(p)
  BY <1>4, ListsWait, AddLevelInserts, SaveLevelWrites, DeletesWhatIsFound, SavePathReplaces, DeletesAtOnce DEF Rec!Careers, Kinds
<1>5. CASE Rec!Skills(p)
  BY <1>5, ListsWait, AddSkillInserts, SaveSkillWrites, DeletesAtOnce, SetSkillReplaces, DeletesALevel DEF Rec!Skills, Kinds
<1>6. CASE Rec!Work(p)
  BY <1>6, ListsWait, AddProjectInserts, SaveProjectWrites, DeletesWhatIsFound, AddTaskInserts, SaveTaskWrites DEF Rec!Work, Kinds
<1>7. CASE Rec!Meetings(p)
  BY <1>7, ListsWait, AddMeetingInserts, SaveMeetingWrites, DeletesAtOnce, AddItemInserts, SaveItemWrites DEF Rec!Meetings, Kinds
<1>8. CASE Rec!Workflows(p)
  BY <1>8, ListsWait, AddWorkflowInserts, SaveWorkflowWrites, RetiresWhatIsFound DEF Rec!Workflows, Kinds
<1>9. CASE Rec!Lines(p)
  BY <1>9, ListsWait, AddLineInserts, DeletesWhatIsFound DEF Rec!Lines, Kinds
<1>10. CASE Rec!TheGoals(p)
  BY <1>10, ListsWait, AddGoalInserts, SaveGoalWrites, DeletesAtOnce, AddKeyResultInserts, SaveKeyResultWrites, DeletesWhatIsFound DEF Rec!TheGoals, Kinds
<1>11. CASE Rec!Measures(p)
  BY <1>11, ListsWait, AddMetricInserts, SaveMetricWrites, RetiresWhatIsFound, AddRuleInserts, SaveRuleWrites DEF Rec!Measures, Kinds
<1>12. CASE Rec!Fails(p)
  BY <1>12, FailsWaits DEF Kinds
<1>13. QED
  BY <1>1, <1>2, <1>3, <1>4, <1>5, <1>6, <1>7, <1>8, <1>9, <1>10, <1>11, <1>12

LEMMA RecKeeps ==
    ASSUME RecInv, [Rec!Next]_Rec!vars
    PROVE  RecInv'
<1>1. CASE UNCHANGED Rec!vars
  <2>1. UNCHANGED <<row, nextRow, client, edits, given, clashed>>
    BY <1>1 DEF Rec!vars
  <2>2. RecOK'
    BY <2>1 DEF RecInv, RecOK, Held, Shown
  <2>3. QED
    BY <2>1, <2>2 DEF RecInv, Refer, AsGiven, Unique, Rec!EditsKept, Rec!Exists
<1>2. CASE Rec!Next
  <2>1. PICK p \in Clients : Kinds(p)
    BY <1>2, RecStep DEF RecInv
  <2>2. QED
    BY <2>1, WaitingKeeps, InsertingKeeps, WritingKeeps, DeletingKeeps, RetiringKeeps, ReplacingKeeps DEF Kinds
<1>3. QED
  BY <1>1, <1>2

LEMMA RecStarts ==
    ASSUME MaxRecords \in Nat, Rec!Init
    PROVE  RecInv
<1>1. /\ row = [i \in Rec!Ids |-> Rec!NoRow] /\ given = [i \in Rec!Ids |-> Rec!NoRow]
      /\ nextRow = 1 /\ edits = 0 /\ client = [p \in Clients |-> Rec!Closed]
  BY DEF Rec!Init
<1>2. RecOK
  BY <1>1, ClosedHeld DEF RecOK
<1>3. Refer /\ AsGiven /\ Unique /\ Rec!EditsKept
  BY <1>1 DEF Refer, AsGiven, Unique, Rec!EditsKept, Rec!Exists
<1>4. QED
  BY <1>2, <1>3 DEF RecInv

LEMMA RecShows ==
    ASSUME RecInv
    PROVE  Rec!ReferencesHold
<1> SUFFICES ASSUME NEW i \in Rec!Ids, row[i] # Rec!NoRow
             PROVE  /\ Rec!RefersWell(row[i])
                    /\ row[i].of = given[i].of \/ (row[i].of = 0 /\ ~Rec!Exists(given[i].of))
                    /\ Rec!Key(row[i].table) # {"nothing"} => Rec!Conflicts(row[i]) = {i}
  BY DEF Rec!ReferencesHold, Rec!Exists
<1>1. Rec!RefersWell(row[i])
  BY DEF RecInv, Refer, Rec!RefersWell
<1>2. row[i].of = given[i].of \/ (row[i].of = 0 /\ ~Rec!Exists(given[i].of))
  BY DEF RecInv, AsGiven, Rec!Exists
<1>3. Sound(row[i]) /\ \A j \in Rec!Ids : row[j].table = row[i].table => row[j] # Rec!NoRow
  BY Apart DEF RecInv, RecOK, Sound, Rec!NoRow
<1>4. ASSUME Rec!Key(row[i].table) # {"nothing"} PROVE Rec!Conflicts(row[i]) = {i}
  <2>1. Rec!Key(row[i].table) \subseteq DOMAIN row[i]
    BY <1>3, <1>4 DEF Sound, TheRows, Rec!Key, Rec!Keys
  <2>2. \A j \in Rec!Conflicts(row[i]) : j = i
    BY <1>3, <1>4 DEF RecInv, Unique, Rec!Conflicts, Rec!In
  <2>3. i \in Rec!Conflicts(row[i])
    BY <2>1 DEF Rec!Conflicts, Rec!In
  <2>4. QED
    BY <2>2, <2>3
<1>5. QED
  BY <1>1, <1>2, <1>4

\* A reference leads to a row of its table, or was given up with that row, and a key has one row.
THEOREM ReferencesAlwaysHold ==
    ASSUME MaxRecords \in Nat
    PROVE  Rec!Spec => []Rec!ReferencesHold
<1>1. Rec!Init => RecInv
  BY RecStarts
<1>2. RecInv /\ [Rec!Next]_Rec!vars => RecInv'
  BY RecKeeps
<1>3. RecInv => Rec!ReferencesHold
  BY RecShows
<1>4. QED
  BY <1>1, <1>2, <1>3, PTL DEF Rec!Spec

\* Nothing given to a field is lost while forms are saved over the rows they show.
THEOREM EditsAreKept ==
    ASSUME MaxRecords \in Nat
    PROVE  Rec!Spec => []Rec!EditsKept
<1>1. Rec!Init => RecInv
  BY RecStarts
<1>2. RecInv /\ [Rec!Next]_Rec!vars => RecInv'
  BY RecKeeps
<1>3. RecInv => Rec!EditsKept
  BY DEF RecInv
<1>4. QED
  BY <1>1, <1>2, <1>3, PTL DEF Rec!Spec

-----------------------------------------------------------------------------
(* Progress: what is left to measure is pending, and what is read is noted *)

Pro == INSTANCE Progress WITH Staff <- Scored, MaxDays <- MaxDates, MaxChanges <- MaxMoves, MaxRuns <- MaxStarts

\* The key results a goal may have; a key result moves on until it is past its target.
KeyResultRows == UNION {{[target |-> t, current |-> c] : c \in 0 .. t + 1} : t \in Targets}
KeyResultSets == [KeyResults -> KeyResultRows \cup {None}]

\* A run has something to do with m: it has not listed yet, or m is left, or on its way.
Pending(r, m) ==
    \/ r.at = "list"
    \/ /\ r.at # "ended" /\ r.kind = "goals"
       /\ m \in r.todo \/ (r.at = "store" /\ r.subject = m)
    \/ /\ r.at # "ended" /\ r.kind = "scores"
       /\ \/ m[1] \in r.todo
          \/ /\ r.at \in {"rule", "store"} /\ r.subject = m[1]
             /\ m[2] \in r.rules \/ (r.at = "store" /\ r.by = m[2])
Measured(r, m) ==
    IF r.kind = "goals" THEN snapshot[m][r.date] # None ELSE score[m[1]][m[2]] # None

RunOf(r) ==
    /\ r = [at |-> r.at, kind |-> r.kind, date |-> r.date, todo |-> r.todo, rules |-> r.rules,
            subject |-> r.subject, by |-> r.by, progress |-> r.progress, evaluation |-> r.evaluation,
            failed |-> r.failed, steady |-> r.steady]
    /\ r.at \in {"list", "next", "rule", "store", "ended"} /\ r.date \in Pro!Days
    /\ \/ /\ r.kind = "goals" /\ r.at # "rule" /\ r.todo \subseteq Goals
          /\ r.at = "store" => r.subject \in Goals
       \/ /\ r.kind = "scores" /\ r.todo \subseteq Scored /\ r.rules \subseteq Rules
          /\ r.at \in {"rule", "store"} => r.subject \in Scored
          /\ r.at = "store" => r.by \in Rules /\ r.evaluation \in {"calculated", "needs_review"}
\* What was there all the time is there now; what a run has read of a goal the goal
\* had, and while it runs the goals have what is noted.
Truthful(r) ==
    r.kind = "goals" =>
        /\ r.at # "ended" => \A g \in Goals : Pro!CalculateGoalProgress(kr[g]) \in had[g][r.date]
        /\ r.at = "store" => r.progress \in had[r.subject][r.date] /\ r.progress # None
Steady(r) ==
    IF r.kind = "goals" THEN r.steady \subseteq {g \in Goals : goal[g] = "active"}
    ELSE r.steady \subseteq {e \in Scored : staff[e]} \X {u \in Rules : rule[u]}
Complete(r) == \A m \in r.steady \ r.failed : Measured(r, m) \/ Pending(r, m)
Good(r) == RunOf(r) /\ Truthful(r) /\ Steady(r) /\ Complete(r)

ProOK ==
    /\ MaxDates \in Nat \ {0} /\ today \in Pro!Days
    /\ Targets \subseteq Nat /\ None \notin Pro!Score
    /\ \A krs \in KeyResultSets : Pro!CalculateGoalProgress(krs) # None
    /\ goal = [g \in Goals |-> goal[g]]
    /\ kr \in [Goals -> KeyResultSets]
    /\ snapshot = [g \in Goals |-> [d \in Pro!Days |-> snapshot[g][d]]]
    /\ had = [g \in Goals |-> [d \in Pro!Days |-> had[g][d]]]
    /\ score \in [Scored -> [Rules -> Pro!Score \cup {None}]]
    /\ run = [w \in Runs |-> run[w]]
    /\ \A w \in Runs : run[w] = Pro!Idle \/ Good(run[w])
ProInv == ProOK /\ Pro!SnapshotWasTrue

-----------------------------------------------------------------------------
(* Progress: the steps of a run                                            *)

\* A good run stays so while only rows come.
LEMMA GoodStays ==
    ASSUME NEW r, Good(r), UNCHANGED <<goal, kr, rule, staff>>,
           \A g \in Goals : \A d \in Pro!Days :
              had[g][d] \subseteq had'[g][d] /\ (snapshot[g][d] # None => snapshot'[g][d] # None),
           \A e \in Scored, u \in Rules : score[e][u] # None => score'[e][u] # None
    PROVE  Good(r)'
<1>1. RunOf(r)'
  BY DEF Good, RunOf
<1>2. Truthful(r)'
  BY DEF Good, RunOf, Truthful
<1>3. Steady(r)'
  BY DEF Good, Steady
<1>4. Complete(r)'
  <2> SUFFICES ASSUME NEW m \in r.steady \ r.failed PROVE (Measured(r, m) \/ Pending(r, m))'
    BY DEF Complete
  <2>1. Measured(r, m) \/ Pending(r, m)
    BY DEF Good, Complete
  <2>2. CASE Pending(r, m)
    BY <2>2 DEF Pending
  <2>3. CASE Measured(r, m)
    <3>1. r.kind = "goals" => m \in Goals /\ r.date \in Pro!Days
      BY DEF Good, RunOf, Steady
    <3>2. r.kind # "goals" => m[1] \in Scored /\ m[2] \in Rules
      BY DEF Good, Steady
    <3>3. QED
      BY <2>3, <3>1, <3>2 DEF Measured
  <2>4. QED
    BY <2>1, <2>2, <2>3
<1>5. QED
  BY <1>1, <1>2, <1>3, <1>4 DEF Good

\* A step of a run, which may store a row.
LEMMA RunSteps ==
    ASSUME ProInv, NEW w \in Runs, NEW r, Pro!Step(w, r), Good(r)',
           UNCHANGED <<goal, kr, rule, staff>>, today' = today,
           snapshot' = [g \in Goals |-> [d \in Pro!Days |-> snapshot'[g][d]]],
           had' = [g \in Goals |-> [d \in Pro!Days |-> had'[g][d]]],
           score' \in [Scored -> [Rules -> Pro!Score \cup {None}]],
           \A g \in Goals : \A d \in Pro!Days :
              /\ had[g][d] \subseteq had'[g][d]
              /\ snapshot'[g][d] = snapshot[g][d] \/ (snapshot'[g][d] # None /\ snapshot'[g][d] \in had'[g][d]),
           \A e \in Scored, u \in Rules : score[e][u] # None => score'[e][u] # None
    PROVE  ProInv'
<1>1. run' = [run EXCEPT ![w] = r]
  BY DEF Pro!Step
<1>2. ASSUME NEW v \in Runs PROVE run'[v] = Pro!Idle \/ Good(run[v])'
  <2>1. CASE v = w
    <3>1. run'[v] = r
      BY <1>1, <2>1 DEF ProInv, ProOK
    <3>2. QED
      BY <3>1
  <2>2. CASE v # w
    <3>1. PICK q : q = run[v]
      OBVIOUS
    <3>2. run'[v] = q
      BY <1>1, <2>2, <3>1 DEF ProInv, ProOK
    <3>3. q = Pro!Idle \/ Good(q)
      BY <3>1 DEF ProInv, ProOK
    <3>4. \A g \in Goals : \A d \in Pro!Days :
             had[g][d] \subseteq had'[g][d] /\ (snapshot[g][d] # None => snapshot'[g][d] # None)
      OBVIOUS
    <3>5. q = Pro!Idle \/ Good(q)'
      BY <3>3, <3>4, GoodStays
    <3>6. QED
      BY <3>2, <3>5
  <2>3. QED
    BY <2>1, <2>2
<1>3. run' = [v \in Runs |-> run'[v]]
  BY <1>1 DEF ProInv, ProOK
<1>4. ProOK'
  BY <1>2, <1>3 DEF ProInv, ProOK, Pro!Days
<1>5. Pro!SnapshotWasTrue'
  BY DEF ProInv, Pro!SnapshotWasTrue
<1>6. QED
  BY <1>4, <1>5 DEF ProInv

\* A step that stores nothing.
LEMMA RunMoves ==
    ASSUME ProInv, NEW w \in Runs, NEW r, Pro!Step(w, r), Good(r),
           UNCHANGED <<goal, kr, rule, staff, today, snapshot, score, had>>
    PROVE  ProInv'
<1>1. Good(r)'
  BY DEF Good, RunOf, Truthful, Steady, Complete, Measured, Pending
<1>2. /\ snapshot' = [g \in Goals |-> [d \in Pro!Days |-> snapshot'[g][d]]]
      /\ had' = [g \in Goals |-> [d \in Pro!Days |-> had'[g][d]]]
      /\ score' \in [Scored -> [Rules -> Pro!Score \cup {None}]]
  BY DEF ProInv, ProOK
<1>3. QED
  BY <1>1, <1>2, RunSteps


LEMMA RunIs ==
    ASSUME ProInv, NEW w \in Runs, run[w].at # "idle"
    PROVE  Good(run[w])
  BY DEF ProInv, ProOK, Pro!Idle


LEMMA ListMembersKeeps ==
    ASSUME ProInv, NEW w \in Runs, Pro!ListMembers(w)
    PROVE  ProInv'
<1>1. PICK q : q = run[w]
  OBVIOUS
<1>2. q.at = "list" /\ Good(q) /\ RunOf(q)
  BY <1>1, RunIs DEF Pro!ListMembers, Good
<1>3. UNCHANGED <<goal, kr, rule, staff, today, snapshot, score, had>>
  BY DEF Pro!ListMembers, Pro!recordVars
<1>4. PICK ok \in BOOLEAN :
         Pro!Step(w, IF ok THEN Pro!Continue([q EXCEPT !.todo =
                             IF q.kind = "goals" THEN Pro!ListActiveGoals ELSE Pro!ListActiveEmployees])
                     ELSE Pro!Ended(q, IF q.kind = "goals" THEN Goals ELSE Scored \X Rules))
  BY <1>1 DEF Pro!ListMembers
<1>5. CASE ok
  <2>1. PICK r : r = Pro!Continue([q EXCEPT !.todo =
                             IF q.kind = "goals" THEN Pro!ListActiveGoals ELSE Pro!ListActiveEmployees])
    OBVIOUS
  <2>2. /\ RunOf(r) /\ r.kind = q.kind /\ r.date = q.date /\ r.steady = q.steady /\ r.failed = q.failed
        /\ r.todo = IF q.kind = "goals" THEN {g \in Goals : goal[g] = "active"} ELSE {e \in Scored : staff[e]}
        /\ r.at = IF r.todo = {} THEN "ended" ELSE "next"
    BY <1>2, <2>1 DEF RunOf, Pro!Continue, Pro!ListActiveGoals, Pro!ListActiveEmployees
  <2>3. Truthful(r) /\ Steady(r)
    BY <1>2, <2>2 DEF Good, Truthful, Steady
  <2>4. Complete(r)
    BY <2>2, <2>3 DEF Steady, Complete, Pending, RunOf
  <2>5. QED
    BY <1>3, <1>4, <1>5, <2>1, <2>2, <2>3, <2>4, RunMoves DEF Good
<1>6. CASE ~ok
  <2>1. PICK r : r = Pro!Ended(q, IF q.kind = "goals" THEN Goals ELSE Scored \X Rules)
    OBVIOUS
  <2>2. /\ RunOf(r) /\ r.kind = q.kind /\ r.date = q.date /\ r.steady = q.steady /\ r.at = "ended"
        /\ r.failed = q.failed \cup IF q.kind = "goals" THEN Goals ELSE Scored \X Rules
    BY <1>2, <2>1 DEF RunOf, Pro!Ended
  <2>3. Truthful(r) /\ Steady(r)
    BY <1>2, <2>2 DEF Good, Truthful, Steady
  <2>4. Complete(r)
    BY <2>2, <2>3 DEF Steady, Complete
  <2>5. QED
    BY <1>3, <1>4, <1>6, <2>1, <2>2, <2>3, <2>4, RunMoves DEF Good
<1>7. QED
  BY <1>5, <1>6

\* A run of goals whose goal is read, and fails or not.
LEMMA GetKeyResultsKeeps ==
    ASSUME ProInv, NEW w \in Runs, Pro!GetKeyResults(w)
    PROVE  ProInv'
<1>1. PICK q : q = run[w]
  OBVIOUS
<1>2. q.at = "next" /\ q.kind = "goals" /\ Good(q) /\ RunOf(q)
  BY <1>1, RunIs DEF Pro!GetKeyResults, Good
<1>3. UNCHANGED <<goal, kr, rule, staff, today, snapshot, score, had>>
  BY DEF Pro!GetKeyResults, Pro!recordVars
<1>4. PICK g \in q.todo, ok \in BOOLEAN :
         Pro!Step(w, IF ok THEN [[q EXCEPT !.todo = q.todo \ {g}, !.subject = g] EXCEPT
                                    !.at = "store", !.progress = Pro!CalculateGoalProgress(kr[g])]
                     ELSE Pro!PassOver([q EXCEPT !.todo = q.todo \ {g}, !.subject = g], g))
  BY <1>1 DEF Pro!GetKeyResults
<1>5. g \in Goals
  BY <1>2 DEF RunOf
<1>6. PICK p : p = [q EXCEPT !.todo = q.todo \ {g}, !.subject = g]
  OBVIOUS
<1>7. CASE ok
  <2>1. PICK r : r = [p EXCEPT !.at = "store", !.progress = Pro!CalculateGoalProgress(kr[g])]
    OBVIOUS
  <2>2. /\ RunOf(r) /\ r.kind = "goals" /\ r.date = q.date /\ r.steady = q.steady /\ r.failed = q.failed
        /\ r.todo = q.todo \ {g} /\ r.subject = g /\ r.at = "store"
        /\ r.progress = Pro!CalculateGoalProgress(kr[g])
    BY <1>2, <1>5, <1>6, <2>1 DEF RunOf
  <2>3. Truthful(r)
    BY <1>2, <1>5, <2>2 DEF Good, Truthful, ProInv, ProOK
  <2>4. Steady(r)
    BY <1>2, <2>2 DEF Good, Steady
  <2>5. Complete(r)
    BY <1>2, <2>2 DEF Good, Complete, Pending, Measured
  <2>6. QED
    BY <1>3, <1>4, <1>6, <1>7, <2>1, <2>2, <2>3, <2>4, <2>5, RunMoves DEF Good
<1>8. CASE ~ok
  <2>1. PICK r : r = Pro!PassOver(p, g)
    OBVIOUS
  <2>2. /\ RunOf(r) /\ r.kind = "goals" /\ r.date = q.date /\ r.steady = q.steady /\ r.failed = q.failed \cup {g}
        /\ r.todo = q.todo \ {g} /\ r.at = IF r.todo = {} THEN "ended" ELSE "next"
    BY <1>2, <1>5, <1>6, <2>1 DEF RunOf, Pro!PassOver, Pro!Continue
  <2>3. Truthful(r) /\ Steady(r)
    BY <1>2, <2>2 DEF Good, Truthful, Steady
  <2>4. Complete(r)
    BY <1>2, <2>2 DEF Good, Complete, Pending, Measured
  <2>5. QED
    BY <1>3, <1>4, <1>6, <1>8, <2>1, <2>2, <2>3, <2>4, RunMoves DEF Good
<1>9. QED
  BY <1>7, <1>8

LEMMA StoreSnapshotKeeps ==
    ASSUME ProInv, NEW w \in Runs, Pro!StoreSnapshot(w)
    PROVE  ProInv'
<1>1. PICK q : q = run[w]
  OBVIOUS
<1>2. q.at = "store" /\ q.kind = "goals" /\ Good(q) /\ RunOf(q)
  BY <1>1, RunIs DEF Pro!StoreSnapshot, Good
<1>3. UNCHANGED <<goal, kr, rule, staff, today, score, had>>
  BY DEF Pro!StoreSnapshot, Pro!recordVars
<1>4. PICK g : g = q.subject
  OBVIOUS
<1>5. g \in Goals /\ q.date \in Pro!Days /\ q.progress \in had[g][q.date] /\ q.progress # None
  BY <1>2, <1>4 DEF Good, RunOf, Truthful
<1>6. \/ snapshot' = [snapshot EXCEPT ![g][q.date] = q.progress] /\ Pro!Step(w, Pro!Continue(q))
      \/ UNCHANGED snapshot /\ Pro!Step(w, Pro!PassOver(q, g))
  BY <1>1, <1>4 DEF Pro!StoreSnapshot, Pro!CreateGoalSnapshot
<1>7. CASE UNCHANGED snapshot /\ Pro!Step(w, Pro!PassOver(q, g))
  <2>1. PICK r : r = Pro!PassOver(q, g)
    OBVIOUS
  <2>2. /\ RunOf(r) /\ r.kind = "goals" /\ r.date = q.date /\ r.steady = q.steady /\ r.failed = q.failed \cup {g}
        /\ r.todo = q.todo /\ r.at = IF r.todo = {} THEN "ended" ELSE "next"
    BY <1>2, <2>1 DEF RunOf, Pro!PassOver, Pro!Continue
  <2>3. Truthful(r) /\ Steady(r)
    BY <1>2, <2>2 DEF Good, Truthful, Steady
  <2>4. Complete(r)
    BY <1>2, <1>4, <2>2 DEF Good, Complete, Pending, Measured
  <2>5. QED
    BY <1>3, <1>7, <2>1, <2>2, <2>3, <2>4, RunMoves DEF Good
<1>8. CASE snapshot' = [snapshot EXCEPT ![g][q.date] = q.progress] /\ Pro!Step(w, Pro!Continue(q))
  <2>1. PICK r : r = Pro!Continue(q)
    OBVIOUS
  <2>2. /\ RunOf(r) /\ r.kind = "goals" /\ r.date = q.date /\ r.steady = q.steady /\ r.failed = q.failed
        /\ r.todo = q.todo /\ r.at = IF r.todo = {} THEN "ended" ELSE "next"
    BY <1>2, <2>1 DEF RunOf, Pro!Continue
  <2>3. /\ snapshot' = [x \in Goals |-> [d \in Pro!Days |-> snapshot'[x][d]]]
        /\ snapshot'[g][q.date] = q.progress
        /\ \A x \in Goals : \A d \in Pro!Days : x # g \/ d # q.date => snapshot'[x][d] = snapshot[x][d]
    <3>1. snapshot = [x \in Goals |-> [d \in Pro!Days |-> snapshot[x][d]]]
      BY DEF ProInv, ProOK
    <3>2. PICK s : s = [snapshot[g] EXCEPT ![q.date] = q.progress]
      OBVIOUS
    <3>3. snapshot[g] = [d \in Pro!Days |-> snapshot[g][d]]
      BY <1>5, <3>1
    <3>4. s = [d \in Pro!Days |-> IF d = q.date THEN q.progress ELSE snapshot[g][d]]
      BY <3>2, <3>3
    <3>5. snapshot' = [x \in Goals |-> IF x = g THEN s ELSE snapshot[x]]
      BY <1>8, <3>1, <3>2
    <3>6. \A x \in Goals : snapshot'[x] = IF x = g THEN s ELSE [d \in Pro!Days |-> snapshot[x][d]]
      BY <3>1, <3>5
    <3>7. \A x \in Goals : snapshot'[x] = [d \in Pro!Days |-> snapshot'[x][d]]
      BY <3>4, <3>6
    <3>8. snapshot' = [x \in Goals |-> snapshot'[x]]
      BY <3>5
    <3>9. snapshot' = [x \in Goals |-> [d \in Pro!Days |-> snapshot'[x][d]]]
      BY <3>7, <3>8
    <3>10. QED
      BY <1>5, <3>4, <3>6, <3>9
  <2>4. Good(r)'
    <3>1. RunOf(r)'
      BY <2>2 DEF RunOf
    <3>2. Truthful(r)' /\ Steady(r)'
      BY <1>2, <1>3, <2>2 DEF Good, Truthful, Steady
    <3>3. \A m \in r.steady : m \in Goals
      BY <1>2, <2>2 DEF Good, Steady
    <3>4. \A m \in r.steady \ r.failed : m = g \/ m \in r.todo \/ snapshot[m][q.date] # None
      BY <1>2, <1>4, <2>2 DEF Good, Complete, Pending, Measured
    <3>5. Complete(r)'
      BY <1>2, <1>5, <2>2, <2>3, <3>3, <3>4 DEF Complete, Pending, Measured, RunOf
    <3>6. QED
      BY <3>1, <3>2, <3>5 DEF Good
  <2>5. /\ had' = [x \in Goals |-> [d \in Pro!Days |-> had'[x][d]]]
        /\ score' \in [Scored -> [Rules -> Pro!Score \cup {None}]]
    BY <1>3 DEF ProInv, ProOK
  <2>6. \A x \in Goals : \A d \in Pro!Days :
           /\ had[x][d] \subseteq had'[x][d]
           /\ snapshot'[x][d] = snapshot[x][d] \/ (snapshot'[x][d] # None /\ snapshot'[x][d] \in had'[x][d])
    BY <1>3, <1>5, <2>3
  <2>7. QED
    BY <1>3, <1>8, <2>1, <2>3, <2>4, <2>5, <2>6, RunSteps
<1>9. QED
  BY <1>6, <1>7, <1>8


LEMMA ReadRulesKeeps ==
    ASSUME ProInv, NEW w \in Runs, Pro!ReadRules(w)
    PROVE  ProInv'
<1>1. PICK q : q = run[w]
  OBVIOUS
<1>2. q.at = "next" /\ q.kind = "scores" /\ Good(q) /\ RunOf(q)
  BY <1>1, RunIs DEF Pro!ReadRules, Good
<1>3. UNCHANGED <<goal, kr, rule, staff, today, snapshot, score, had>>
  BY DEF Pro!ReadRules, Pro!recordVars
<1>4. PICK e \in q.todo, ok \in BOOLEAN :
         LET r == [q EXCEPT !.todo = q.todo \ {e}, !.subject = e]
         IN  Pro!Step(w, IF ~ok THEN Pro!Continue([r EXCEPT !.failed = r.failed \cup ({e} \X Rules)])
                         ELSE IF Pro!ListIncentiveRules = {} THEN Pro!Continue(r)
                         ELSE [r EXCEPT !.at = "rule", !.rules = Pro!ListIncentiveRules])
  BY <1>1 DEF Pro!ReadRules
<1>5. e \in Scored
  BY <1>2 DEF RunOf
<1>6. PICK p : p = [q EXCEPT !.todo = q.todo \ {e}, !.subject = e]
  OBVIOUS
<1>7. CASE ~ok
  <2>1. PICK r : r = Pro!Continue([p EXCEPT !.failed = p.failed \cup ({e} \X Rules)])
    OBVIOUS
  <2>2. /\ RunOf(r) /\ r.kind = "scores" /\ r.date = q.date /\ r.steady = q.steady
        /\ r.failed = q.failed \cup ({e} \X Rules)
        /\ r.todo = q.todo \ {e} /\ r.at = IF r.todo = {} THEN "ended" ELSE "next"
    BY <1>2, <1>5, <1>6, <2>1 DEF RunOf, Pro!Continue
  <2>3. Truthful(r) /\ Steady(r)
    BY <1>2, <2>2 DEF Good, Truthful, Steady
  <2>4. \A m \in r.steady : m = <<m[1], m[2]>> /\ m[2] \in Rules
    BY <2>2, <2>3 DEF Steady
  <2>5. Complete(r)
    BY <1>2, <2>2, <2>4 DEF Good, Complete, Pending, Measured
  <2>6. QED
    BY <1>3, <1>4, <1>6, <1>7, <2>1, <2>2, <2>3, <2>5, RunMoves DEF Good
<1>8. CASE ok /\ Pro!ListIncentiveRules = {}
  <2>1. PICK r : r = Pro!Continue(p)
    OBVIOUS
  <2>2. /\ RunOf(r) /\ r.kind = "scores" /\ r.date = q.date /\ r.steady = q.steady /\ r.failed = q.failed
        /\ r.todo = q.todo \ {e} /\ r.at = IF r.todo = {} THEN "ended" ELSE "next"
    BY <1>2, <1>5, <1>6, <2>1 DEF RunOf, Pro!Continue
  <2>3. Truthful(r) /\ Steady(r)
    BY <1>2, <2>2 DEF Good, Truthful, Steady
  <2>4. r.steady = {}
    BY <1>8, <2>2, <2>3 DEF Steady, Pro!ListIncentiveRules
  <2>5. Complete(r)
    BY <2>4 DEF Complete
  <2>6. QED
    BY <1>3, <1>4, <1>6, <1>8, <2>1, <2>2, <2>3, <2>5, RunMoves DEF Good
<1>9. CASE ok /\ Pro!ListIncentiveRules # {}
  <2>1. PICK r : r = [p EXCEPT !.at = "rule", !.rules = Pro!ListIncentiveRules]
    OBVIOUS
  <2>2. /\ RunOf(r) /\ r.kind = "scores" /\ r.date = q.date /\ r.steady = q.steady /\ r.failed = q.failed
        /\ r.todo = q.todo \ {e} /\ r.at = "rule" /\ r.subject = e /\ r.rules = {u \in Rules : rule[u]}
    BY <1>2, <1>5, <1>6, <2>1 DEF RunOf, Pro!ListIncentiveRules
  <2>3. Truthful(r) /\ Steady(r)
    BY <1>2, <2>2 DEF Good, Truthful, Steady
  <2>4. \A m \in r.steady : m[2] \in {u \in Rules : rule[u]}
    BY <2>2, <2>3 DEF Steady
  <2>5. Complete(r)
    BY <1>2, <2>2, <2>4 DEF Good, Complete, Pending, Measured
  <2>6. QED
    BY <1>3, <1>4, <1>6, <1>9, <2>1, <2>2, <2>3, <2>5, RunMoves DEF Good
<1>10. QED
  BY <1>7, <1>8, <1>9

LEMMA EvaluateKeeps ==
    ASSUME ProInv, NEW w \in Runs, Pro!Evaluate(w)
    PROVE  ProInv'
<1>1. PICK q : q = run[w]
  OBVIOUS
<1>2. q.at = "rule" /\ q.kind = "scores" /\ Good(q) /\ RunOf(q) /\ q.subject \in Scored
  <2>1. q.at = "rule" /\ Good(q)
    BY <1>1, RunIs DEF Pro!Evaluate
  <2>2. QED
    BY <2>1 DEF Good, RunOf
<1>3. UNCHANGED <<goal, kr, rule, staff, today, snapshot, score, had>>
  BY DEF Pro!Evaluate, Pro!recordVars
<1>4. PICK u \in q.rules, ok \in BOOLEAN, status \in {"calculated", "needs_review"} :
         LET r == [q EXCEPT !.rules = q.rules \ {u}, !.by = u]
         IN  Pro!Step(w, IF ok THEN [r EXCEPT !.at = "store", !.evaluation = status]
                         ELSE Pro!PassOver(r, <<r.subject, u>>))
  BY <1>1 DEF Pro!Evaluate
<1>5. u \in Rules
  BY <1>2 DEF RunOf
<1>6. PICK p : p = [q EXCEPT !.rules = q.rules \ {u}, !.by = u]
  OBVIOUS
<1>7. \A m \in q.steady : m = <<m[1], m[2]>>
  BY <1>2 DEF Good, Steady
<1>8. CASE ok
  <2>1. PICK r : r = [p EXCEPT !.at = "store", !.evaluation = status]
    OBVIOUS
  <2>2. /\ RunOf(r) /\ r.kind = "scores" /\ r.date = q.date /\ r.steady = q.steady /\ r.failed = q.failed
        /\ r.todo = q.todo /\ r.at = "store" /\ r.subject = q.subject /\ r.rules = q.rules \ {u} /\ r.by = u
    BY <1>2, <1>5, <1>6, <2>1 DEF RunOf
  <2>3. Truthful(r) /\ Steady(r)
    BY <1>2, <2>2 DEF Good, Truthful, Steady
  <2>4. Complete(r)
    BY <1>2, <2>2 DEF Good, Complete, Pending, Measured
  <2>5. QED
    BY <1>3, <1>4, <1>6, <1>8, <2>1, <2>2, <2>3, <2>4, RunMoves DEF Good
<1>9. CASE ~ok
  <2>1. PICK r : r = Pro!PassOver(p, <<p.subject, u>>)
    OBVIOUS
  <2>2. /\ RunOf(r) /\ r.kind = "scores" /\ r.date = q.date /\ r.steady = q.steady
        /\ r.failed = q.failed \cup {<<q.subject, u>>} /\ r.todo = q.todo /\ r.subject = q.subject
        /\ r.rules = q.rules \ {u}
        /\ r.at = IF r.rules # {} THEN "rule" ELSE IF r.todo = {} THEN "ended" ELSE "next"
    BY <1>2, <1>5, <1>6, <2>1 DEF RunOf, Pro!PassOver, Pro!Continue
  <2>3. Truthful(r) /\ Steady(r)
    BY <1>2, <2>2 DEF Good, Truthful, Steady
  <2>4. Complete(r)
    BY <1>2, <1>7, <2>2 DEF Good, Complete, Pending, Measured
  <2>5. QED
    BY <1>3, <1>4, <1>6, <1>9, <2>1, <2>2, <2>3, <2>4, RunMoves DEF Good
<1>10. QED
  BY <1>8, <1>9

LEMMA StoreScoreKeeps ==
    ASSUME ProInv, NEW w \in Runs, Pro!StoreScore(w)
    PROVE  ProInv'
<1>1. PICK q : q = run[w]
  OBVIOUS
<1>2. /\ q.at = "store" /\ q.kind = "scores" /\ Good(q) /\ RunOf(q)
      /\ q.subject \in Scored /\ q.by \in Rules /\ q.evaluation \in {"calculated", "needs_review"}
  <2>1. q.at = "store" /\ q.kind = "scores" /\ Good(q)
    BY <1>1, RunIs DEF Pro!StoreScore
  <2>2. QED
    BY <2>1 DEF Good, RunOf
<1>3. UNCHANGED <<goal, kr, rule, staff, today, snapshot, had>>
  BY DEF Pro!StoreScore, Pro!recordVars
<1>4. \/ /\ score' = Pro!CreateIncentiveScore(q.subject, q.by, q.evaluation)
         /\ Pro!Step(w, IF q.rules = {} THEN Pro!Continue(q) ELSE [q EXCEPT !.at = "rule"])
      \/ UNCHANGED score /\ Pro!Step(w, Pro!PassOver(q, <<q.subject, q.by>>))
  BY <1>1 DEF Pro!StoreScore
<1>5. \A m \in q.steady : m = <<m[1], m[2]>> /\ m[1] \in Scored /\ m[2] \in Rules
  BY <1>2 DEF Good, Steady
<1>6. CASE UNCHANGED score /\ Pro!Step(w, Pro!PassOver(q, <<q.subject, q.by>>))
  <2>1. PICK r : r = Pro!PassOver(q, <<q.subject, q.by>>)
    OBVIOUS
  <2>2. /\ RunOf(r) /\ r.kind = "scores" /\ r.date = q.date /\ r.steady = q.steady
        /\ r.failed = q.failed \cup {<<q.subject, q.by>>} /\ r.todo = q.todo /\ r.subject = q.subject
        /\ r.rules = q.rules
        /\ r.at = IF r.rules # {} THEN "rule" ELSE IF r.todo = {} THEN "ended" ELSE "next"
    BY <1>2, <2>1 DEF RunOf, Pro!PassOver, Pro!Continue
  <2>3. Truthful(r) /\ Steady(r)
    BY <1>2, <2>2 DEF Good, Truthful, Steady
  <2>4. Complete(r)
    BY <1>2, <1>5, <2>2 DEF Good, Complete, Pending, Measured
  <2>5. QED
    BY <1>3, <1>6, <2>1, <2>2, <2>3, <2>4, RunMoves DEF Good
<1>7. CASE /\ score' = Pro!CreateIncentiveScore(q.subject, q.by, q.evaluation)
           /\ Pro!Step(w, IF q.rules = {} THEN Pro!Continue(q) ELSE [q EXCEPT !.at = "rule"])
  <2>1. PICK r : r = IF q.rules = {} THEN Pro!Continue(q) ELSE [q EXCEPT !.at = "rule"]
    OBVIOUS
  <2>2. /\ RunOf(r) /\ r.kind = "scores" /\ r.date = q.date /\ r.steady = q.steady
        /\ r.failed = q.failed /\ r.todo = q.todo /\ r.subject = q.subject /\ r.rules = q.rules
        /\ r.at = IF r.rules # {} THEN "rule" ELSE IF r.todo = {} THEN "ended" ELSE "next"
    BY <1>2, <2>1 DEF RunOf, Pro!Continue
  <2>3. PICK s : s = [status |-> IF score[q.subject][q.by] = None THEN q.evaluation ELSE score[q.subject][q.by].status,
                      of |-> q.evaluation]
    OBVIOUS
  <2>4. s \in Pro!Score /\ s # None
    BY <1>2, <2>3 DEF ProInv, ProOK, Pro!Score
  <2>5. score' = [score EXCEPT ![q.subject][q.by] = s]
    BY <1>7, <2>3 DEF Pro!CreateIncentiveScore
  <2>6. /\ score' \in [Scored -> [Rules -> Pro!Score \cup {None}]] /\ score'[q.subject][q.by] = s
        /\ \A e \in Scored, u \in Rules : score[e][u] # None => score'[e][u] # None
    BY <1>2, <2>4, <2>5 DEF ProInv, ProOK
  <2>7. Good(r)'
    <3>1. RunOf(r)'
      BY <2>2 DEF RunOf
    <3>2. Truthful(r)' /\ Steady(r)'
      BY <1>2, <1>3, <2>2 DEF Good, Truthful, Steady
    <3>3. \A m \in r.steady \ r.failed :
             score[m[1]][m[2]] # None \/ m[1] \in q.todo \/ (m[1] = q.subject /\ m[2] \in q.rules \cup {q.by})
      BY <1>2, <2>2 DEF Good, Complete, Pending, Measured
    <3>4. Complete(r)'
      BY <1>5, <2>2, <2>4, <2>6, <3>3 DEF Complete, Pending, Measured
    <3>5. QED
      BY <3>1, <3>2, <3>4 DEF Good
  <2>8. /\ had' = [g \in Goals |-> [d \in Pro!Days |-> had'[g][d]]]
        /\ snapshot' = [g \in Goals |-> [d \in Pro!Days |-> snapshot'[g][d]]]
    BY <1>3 DEF ProInv, ProOK
  <2>9. QED
    BY <1>3, <1>7, <2>1, <2>6, <2>7, <2>8, RunSteps
<1>8. QED
  BY <1>4, <1>6, <1>7

LEMMA StartRunKeeps ==
    ASSUME ProInv, NEW w \in Runs, Pro!StartRun(w)
    PROVE  ProInv'
<1>1. UNCHANGED <<goal, kr, rule, staff, today, snapshot, score>> /\ Pro!Had(w)
  BY DEF Pro!StartRun, Pro!recordVars
<1>2. PICK kind \in {"goals", "scores"} : Pro!Step(w, Pro!Starting(kind, today))
  BY DEF Pro!StartRun
<1>3. PICK r : r = Pro!Starting(kind, today)
  OBVIOUS
<1>4. /\ RunOf(r) /\ r.kind = kind /\ r.date = today /\ r.at = "list"
      /\ r.steady = IF kind = "goals" THEN {g \in Goals : goal[g] = "active"}
                    ELSE {e \in Scored : staff[e]} \X {u \in Rules : rule[u]}
  BY <1>3 DEF RunOf, Pro!Starting, Pro!ListActiveGoals, Pro!ListActiveEmployees, Pro!ListIncentiveRules, ProInv, ProOK
<1>5. run'[w] = r
  BY <1>2, <1>3 DEF Pro!Step, ProInv, ProOK
<1>6. had' = [g \in Goals |-> [d \in Pro!Days |->
         IF kind = "goals" /\ d = today THEN had[g][d] \cup {Pro!CalculateGoalProgress(kr[g])} ELSE had[g][d]]]
  BY <1>1, <1>4, <1>5 DEF Pro!Had
<1>7. today \in Pro!Days
  BY DEF ProInv, ProOK
<1>8. Good(r)'
  <2>1. RunOf(r)'
    BY <1>4 DEF RunOf
  <2>2. Truthful(r)'
    BY <1>1, <1>4, <1>6, <1>7 DEF Truthful
  <2>3. Steady(r)'
    BY <1>1, <1>4 DEF Steady
  <2>4. Complete(r)'
    BY <1>4 DEF Complete, Pending
  <2>5. QED
    BY <2>1, <2>2, <2>3, <2>4 DEF Good
<1>9. \A g \in Goals : \A d \in Pro!Days : had[g][d] \subseteq had'[g][d]
  BY <1>6
<1>10. /\ had' = [g \in Goals |-> [d \in Pro!Days |-> had'[g][d]]]
       /\ snapshot' = [g \in Goals |-> [d \in Pro!Days |-> snapshot'[g][d]]]
       /\ score' \in [Scored -> [Rules -> Pro!Score \cup {None}]]
  BY <1>1, <1>6 DEF ProInv, ProOK
<1>11. QED
  BY <1>1, <1>2, <1>3, <1>8, <1>9, <1>10, RunSteps


-----------------------------------------------------------------------------
(* Progress: what happens meanwhile                                        *)

\* A change of the records: the runs note what goals have now, and what is gone.
LEMMA ChangesKeep ==
    ASSUME ProInv, Pro!Changes, goal' = [g \in Goals |-> goal'[g]], kr' \in [Goals -> KeyResultSets],
           snapshot' = [g \in Goals |-> [d \in Pro!Days |-> snapshot'[g][d]]],
           \A g \in Goals : \A d \in Pro!Days :
              snapshot'[g][d] = snapshot[g][d] \/ (snapshot'[g][d] = None /\ goal'[g] # "active")
    PROVE  ProInv'
<1>1. /\ UNCHANGED <<today, score>>
      /\ run' = [w \in Runs |->
            IF run[w].at = "idle" THEN run[w]
            ELSE [run[w] EXCEPT !.steady = IF run[w].kind = "goals"
                     THEN run[w].steady \cap {g \in Goals : goal'[g] = "active"}
                     ELSE run[w].steady \cap ({e \in Scored : staff'[e]} \X {u \in Rules : rule'[u]})]]
      /\ had' = [g \in Goals |-> [d \in Pro!Days |->
            IF \E w \in Runs : run[w].at \notin {"idle", "ended"} /\ run[w].kind = "goals" /\ run[w].date = d
            THEN had[g][d] \cup {Pro!CalculateGoalProgress(kr'[g])} ELSE had[g][d]]]
  BY DEF Pro!Changes, Pro!Steadily, Pro!Noted
<1>2. \A g \in Goals : \A d \in Pro!Days : had[g][d] \subseteq had'[g][d]
  BY <1>1
<1>3. ASSUME NEW w \in Runs PROVE run'[w] = Pro!Idle \/ Good(run[w])'
  <2>1. CASE run[w] = Pro!Idle
    BY <1>1, <2>1 DEF Pro!Idle
  <2>2. CASE run[w] # Pro!Idle
    <3>1. PICK q : q = run[w]
      OBVIOUS
    <3>2. Good(q) /\ RunOf(q) /\ q.at # "idle"
      BY <2>2, <3>1 DEF ProInv, ProOK, Good, RunOf
    <3>3. PICK r : r = [q EXCEPT !.steady = IF q.kind = "goals"
                           THEN q.steady \cap {g \in Goals : goal'[g] = "active"}
                           ELSE q.steady \cap ({e \in Scored : staff'[e]} \X {u \in Rules : rule'[u]})]
      OBVIOUS
    <3>4. run'[w] = r
      BY <1>1, <3>1, <3>2, <3>3
    <3>5. /\ RunOf(r) /\ r.kind = q.kind /\ r.date = q.date /\ r.at = q.at /\ r.subject = q.subject
          /\ r.progress = q.progress /\ r.todo = q.todo /\ r.rules = q.rules /\ r.by = q.by /\ r.failed = q.failed
          /\ r.steady \subseteq q.steady
          /\ IF r.kind = "goals" THEN r.steady \subseteq {g \in Goals : goal'[g] = "active"}
             ELSE r.steady \subseteq {e \in Scored : staff'[e]} \X {u \in Rules : rule'[u]}
      BY <3>2, <3>3 DEF RunOf
    <3>6. RunOf(r)'
      BY <3>5 DEF RunOf
    <3>7. Truthful(r)'
      <4>1. q.kind = "goals" /\ q.at # "ended" =>
               \A g \in Goals : Pro!CalculateGoalProgress(kr'[g]) \in had'[g][q.date]
        <5> SUFFICES ASSUME q.kind = "goals", q.at # "ended", NEW g \in Goals
                     PROVE  Pro!CalculateGoalProgress(kr'[g]) \in had'[g][q.date]
          OBVIOUS
        <5>1. \E v \in Runs : run[v].at \notin {"idle", "ended"} /\ run[v].kind = "goals" /\ run[v].date = q.date
          BY <3>1, <3>2
        <5>2. q.date \in Pro!Days
          BY <3>2 DEF RunOf
        <5>3. had'[g][q.date] = had[g][q.date] \cup {Pro!CalculateGoalProgress(kr'[g])}
          BY <1>1, <5>1, <5>2
        <5>4. QED
          BY <5>3
      <4>2. q.kind = "goals" /\ q.at = "store" => q.progress \in had'[q.subject][q.date] /\ q.progress # None
        BY <1>2, <3>2 DEF Good, Truthful, RunOf
      <4>3. QED
        BY <3>5, <4>1, <4>2 DEF Truthful
    <3>8. Steady(r)'
      BY <3>5 DEF Steady
    <3>9. Complete(r)'
      <4> SUFFICES ASSUME NEW m \in r.steady \ r.failed PROVE (Measured(r, m) \/ Pending(r, m))'
        BY DEF Complete
      <4>1. Measured(q, m) \/ Pending(q, m)
        BY <3>2, <3>5 DEF Good, Complete
      <4>2. CASE Pending(q, m)
        BY <3>5, <4>2 DEF Pending
      <4>3. CASE Measured(q, m)
        <5>1. q.kind = "goals" => m \in Goals /\ q.date \in Pro!Days /\ goal'[m] = "active"
          BY <3>2, <3>5 DEF RunOf
        <5>2. QED
          BY <1>1, <3>5, <4>3, <5>1 DEF Measured
      <4>4. QED
        BY <4>1, <4>2, <4>3
    <3>10. Good(r)'
      BY <3>6, <3>7, <3>8, <3>9 DEF Good
    <3>11. QED
      BY <3>4, <3>10
  <2>3. QED
    BY <2>1, <2>2
<1>4. ProOK'
  BY <1>1, <1>3 DEF ProInv, ProOK, Pro!Days
<1>5. Pro!SnapshotWasTrue'
  BY <1>2 DEF ProInv, Pro!SnapshotWasTrue
<1>6. QED
  BY <1>4, <1>5 DEF ProInv

LEMMA UsersKeep ==
    ASSUME ProInv,
           \/ \E g \in Goals : Pro!SaveGoal(g) \/ Pro!DeleteGoal(g) \/ \E k \in KeyResults : Pro!SaveKeyResult(g, k)
           \/ \E u \in Rules : Pro!DeleteIncentiveRule(u)
           \/ \E e \in Scored : Pro!CreateEmployee(e)
    PROVE  ProInv'
<1>1. /\ goal = [g \in Goals |-> goal[g]] /\ kr \in [Goals -> KeyResultSets] /\ Targets \subseteq Nat
      /\ snapshot = [g \in Goals |-> [d \in Pro!Days |-> snapshot[g][d]]]
  BY DEF ProInv, ProOK
<1>2. ASSUME UNCHANGED <<goal, kr, snapshot>>, Pro!Changes PROVE ProInv'
  BY <1>1, <1>2, ChangesKeep
<1>3. CASE \E g \in Goals : Pro!SaveGoal(g)
  <2>1. goal' = [g \in Goals |-> goal'[g]] /\ UNCHANGED <<kr, snapshot>> /\ Pro!Changes
    BY <1>1, <1>3 DEF Pro!SaveGoal
  <2>2. QED
    BY <1>1, <2>1, ChangesKeep
<1>4. CASE \E g \in Goals : Pro!DeleteGoal(g)
  <2>1. PICK g \in Goals : Pro!DeleteGoal(g)
    BY <1>4
  <2>2. /\ goal' = [goal EXCEPT ![g] = "gone"] /\ kr' = [kr EXCEPT ![g] = [k \in KeyResults |-> None]]
        /\ snapshot' = [snapshot EXCEPT ![g] = [d \in Pro!Days |-> None]] /\ Pro!Changes
    BY <2>1 DEF Pro!DeleteGoal
  <2>3. goal' = [x \in Goals |-> goal'[x]] /\ goal'[g] = "gone"
    BY <1>1, <2>2
  <2>4. kr' \in [Goals -> KeyResultSets]
    <3>1. [k \in KeyResults |-> None] \in KeyResultSets
      BY DEF KeyResultSets
    <3>2. QED
      BY <1>1, <2>2, <3>1
  <2>5. /\ snapshot' = [x \in Goals |-> [d \in Pro!Days |-> snapshot'[x][d]]]
        /\ \A x \in Goals : \A d \in Pro!Days :
              snapshot'[x][d] = snapshot[x][d] \/ (snapshot'[x][d] = None /\ goal'[x] # "active")
    <3>1. snapshot' = [x \in Goals |-> IF x = g THEN [d \in Pro!Days |-> None] ELSE [d \in Pro!Days |-> snapshot[x][d]]]
      BY <1>1, <2>2
    <3>2. \A x \in Goals : snapshot'[x] = [d \in Pro!Days |-> snapshot'[x][d]]
      BY <3>1
    <3>3. QED
      BY <2>3, <3>1, <3>2
  <2>6. QED
    BY <2>2, <2>3, <2>4, <2>5, ChangesKeep
<1>5. CASE \E g \in Goals, k \in KeyResults : Pro!SaveKeyResult(g, k)
  <2>1. PICK g \in Goals, k \in KeyResults : Pro!SaveKeyResult(g, k)
    BY <1>5
  <2>2. UNCHANGED <<goal, snapshot>> /\ Pro!Changes
    BY <2>1 DEF Pro!SaveKeyResult
  <2>3. PICK S : S = KeyResultRows \cup {None}
    OBVIOUS
  <2>4. kr[g] \in [KeyResults -> S] /\ None \in S
    BY <1>1, <2>3 DEF KeyResultSets
  <2>5. PICK v \in S : kr' = [kr EXCEPT ![g][k] = v]
    <3>1. CASE \E t \in Targets : kr' = [kr EXCEPT ![g][k] = [target |-> t, current |-> 0]]
      <4>1. PICK t \in Targets : kr' = [kr EXCEPT ![g][k] = [target |-> t, current |-> 0]]
        BY <3>1
      <4>2. 0 \in 0 .. t + 1
        BY <1>1
      <4>3. [target |-> t, current |-> 0] \in S
        BY <2>3, <4>1, <4>2 DEF KeyResultRows
      <4>4. QED
        BY <4>1, <4>3
    <3>2. CASE kr' = [kr EXCEPT ![g][k] = None]
      BY <2>4, <3>2
    <3>3. CASE /\ kr[g][k] # None /\ kr[g][k].current <= kr[g][k].target
               /\ kr' = [kr EXCEPT ![g][k].current = @ + 1]
      <4>0. PICK t \in Targets : \E c \in 0 .. t + 1 : kr[g][k] = [target |-> t, current |-> c]
        BY <2>3, <2>4, <3>3 DEF KeyResultRows
      <4>1. PICK c \in 0 .. t + 1 : kr[g][k] = [target |-> t, current |-> c]
        BY <4>0
      <4>2. c + 1 \in 0 .. t + 1
        BY <1>1, <3>3, <4>1
      <4>3. [target |-> t, current |-> c + 1] \in S
        BY <2>3, <4>0, <4>1, <4>2 DEF KeyResultRows
      <4>4. kr' = [kr EXCEPT ![g][k] = [target |-> t, current |-> c + 1]]
        <5>1. PICK q : q = kr[g][k]
          OBVIOUS
        <5>2. kr' = [kr EXCEPT ![g][k] = [q EXCEPT !.current = q.current + 1]]
          BY <3>3, <5>1
        <5>3. [q EXCEPT !.current = q.current + 1] = [target |-> t, current |-> c + 1]
          BY <4>1, <5>1
        <5>4. QED
          BY <5>2, <5>3
      <4>5. QED
        BY <4>3, <4>4
    <3>4. QED
      BY <2>1, <3>1, <3>2, <3>3 DEF Pro!SaveKeyResult
  <2>6. kr' \in [Goals -> KeyResultSets]
    <3>1. KeyResultSets = [KeyResults -> S]
      BY <2>3 DEF KeyResultSets
    <3>2. QED
      BY <1>1, <2>5, <3>1
  <2>7. QED
    BY <1>1, <2>2, <2>6, ChangesKeep
<1>6. CASE (\E u \in Rules : Pro!DeleteIncentiveRule(u)) \/ \E e \in Scored : Pro!CreateEmployee(e)
  BY <1>2, <1>6 DEF Pro!DeleteIncentiveRule, Pro!CreateEmployee
<1>7. QED
  BY <1>3, <1>4, <1>5, <1>6

LEMMA ProKeeps ==
    ASSUME ProInv, [Pro!Next]_Pro!vars
    PROVE  ProInv'
<1>1. ASSUME UNCHANGED <<goal, kr, rule, staff, snapshot, score, run, had>>, today' \in Pro!Days PROVE ProInv'
  <2>2. ASSUME NEW w \in Runs PROVE run'[w] = Pro!Idle \/ Good(run[w])'
    <3>1. PICK q : q = run[w]
      OBVIOUS
    <3>2. q = Pro!Idle \/ Good(q)
      BY <3>1 DEF ProInv, ProOK
    <3>3. Good(q) => Good(q)'
      BY <1>1, GoodStays
    <3>4. QED
      BY <1>1, <3>1, <3>2, <3>3
  <2>3. QED
    BY <1>1, <2>2 DEF ProInv, ProOK, Pro!SnapshotWasTrue, Pro!Days
<1>2. CASE UNCHANGED Pro!vars
  BY <1>1, <1>2 DEF Pro!vars, Pro!recordVars, ProInv, ProOK
<1>3. CASE Pro!IngestMetricValue
  BY <1>1, <1>3 DEF Pro!IngestMetricValue, Pro!recordVars, ProInv, ProOK
<1>4. CASE Pro!Midnight
  <2>1. today' \in Pro!Days
    BY <1>4 DEF Pro!Midnight, Pro!Days, ProInv, ProOK
  <2>2. QED
    BY <1>1, <1>4, <2>1 DEF Pro!Midnight, Pro!recordVars
<1>5. CASE Pro!Crash
  BY <1>5 DEF Pro!Crash, Pro!recordVars, ProInv, ProOK, Pro!SnapshotWasTrue, Pro!Days
<1>6. CASE Pro!Next
  BY <1>3, <1>4, <1>5, <1>6, UsersKeep, StartRunKeeps, ListMembersKeeps, GetKeyResultsKeeps, StoreSnapshotKeeps,
     ReadRulesKeeps, EvaluateKeeps, StoreScoreKeeps DEF Pro!Next
<1>7. QED
  BY <1>2, <1>6

LEMMA ProStarts ==
    ASSUME MaxDates \in Nat \ {0}, Targets \subseteq Nat, None \notin Pro!Score,
           \A krs \in KeyResultSets : Pro!CalculateGoalProgress(krs) # None, Pro!Init
    PROVE  ProInv
<1>1. [k \in KeyResults |-> None] \in KeyResultSets
  BY DEF KeyResultSets
<1>2. kr \in [Goals -> KeyResultSets]
  BY <1>1 DEF Pro!Init
<1>3. 1 \in Pro!Days
  BY DEF Pro!Days
<1>4. QED
  BY <1>2, <1>3 DEF Pro!Init, ProInv, ProOK, Pro!SnapshotWasTrue

\* The snapshot of a date is a progress its goal had during a run that began on that
\* date: a run that is under way has noted what it reads, whatever changes.
THEOREM SnapshotsAreTrue ==
    ASSUME MaxDates \in Nat \ {0}, Targets \subseteq Nat, None \notin Pro!Score,
           \A krs \in KeyResultSets : Pro!CalculateGoalProgress(krs) # None
    PROVE  Pro!Spec => []Pro!SnapshotWasTrue
<1>1. Pro!Init => ProInv
  BY ProStarts
<1>2. ProInv /\ [Pro!Next]_Pro!vars => ProInv'
  BY ProKeeps
<1>3. ProInv => Pro!SnapshotWasTrue
  BY DEF ProInv
<1>4. QED
  BY <1>1, <1>2, <1>3, PTL DEF Pro!Spec

\* A run that has ended has measured whatever was there all the time, but for what
\* failed itself: until then, what is not measured is pending.
THEOREM FailuresTakeNoOthers ==
    ASSUME MaxDates \in Nat \ {0}, Targets \subseteq Nat, None \notin Pro!Score,
           \A krs \in KeyResultSets : Pro!CalculateGoalProgress(krs) # None
    PROVE  Pro!Spec => []Pro!OneFailureOneLoss
<1>1. Pro!Init => ProInv
  BY ProStarts
<1>2. ProInv /\ [Pro!Next]_Pro!vars => ProInv'
  BY ProKeeps
<1>3. ProInv => Pro!OneFailureOneLoss
  <2>1. ASSUME ProInv, NEW w \in Runs, run[w].at = "ended" PROVE Good(run[w])
    BY <2>1, RunIs
  <2>2. QED
    BY <2>1 DEF Good, Complete, Pending, Measured, Pro!OneFailureOneLoss
<1>4. QED
  BY <1>1, <1>2, <1>3, PTL DEF Pro!Spec

\* The value observed last is among the values that came.
Observation == [observed : Nat]
Latest(v, i) ==
    \A k \in DOMAIN v : v[k].observed < v[i].observed \/ (v[k].observed = v[i].observed /\ k <= i)
Observed(v) == v \in Seq(Observation) /\ (v # <<>> => \E i \in DOMAIN v : Latest(v, i))
ValueInv == today \in Nat /\ Observed(value)

LEMMA LatestIs ==
    ASSUME NEW v, Observed(v), v # <<>>
    PROVE  \E i \in DOMAIN v : /\ Pro!GetLatestMetricValue(v) = v[i] /\ Latest(v, i)
                               /\ v[i].observed \in Nat
<1>1. PICK i : i = CHOOSE j \in DOMAIN v : Latest(v, j)
  OBVIOUS
<1>2. i \in DOMAIN v /\ Latest(v, i)
  BY <1>1 DEF Observed
<1>3. Pro!GetLatestMetricValue(v) = v[i]
  BY <1>1, Zenon DEF Pro!GetLatestMetricValue, Latest
<1>4. v[i] \in Observation
  BY <1>2 DEF Observed
<1>5. QED
  BY <1>2, <1>3, <1>4 DEF Observation

\* One more value.
LEMMA LatestComes ==
    ASSUME NEW v, NEW d \in Nat, Observed(v), NEW w, w = Append(v, [observed |-> d])
    PROVE  /\ Observed(w)
           /\ v # <<>> => Pro!GetLatestMetricValue(w).observed >= Pro!GetLatestMetricValue(v).observed
<1>1. PICK o : o = [observed |-> d]
  OBVIOUS
<1>2. PICK n : n = Len(w)
  OBVIOUS
<1>3. o \in Observation /\ o.observed = d
  BY <1>1 DEF Observation
<1>4. /\ w \in Seq(Observation) /\ DOMAIN w = 1 .. n /\ DOMAIN v = 1 .. n - 1 /\ n \in Nat \ {0}
      /\ w[n] = o /\ \A k \in 1 .. n - 1 : w[k] = v[k]
  BY <1>1, <1>2, <1>3 DEF Observed
<1>5. \A k \in 1 .. n : w[k] \in Observation
  BY <1>4
<1>6. w[n].observed = d /\ \A k \in 1 .. n : w[k].observed \in Nat
  BY <1>3, <1>4, <1>5 DEF Observation
<1>7. w # <<>> /\ n \in DOMAIN w
  BY <1>4
<1>8. \E i \in DOMAIN w : Latest(w, i)
  <2>1. CASE v = <<>>
    <3>1. n = 1
      BY <1>1, <1>2, <2>1
    <3>2. Latest(w, n)
      BY <1>4, <1>6, <3>1 DEF Latest
    <3>3. QED
      BY <1>7, <3>2
  <2>2. CASE v # <<>>
    <3>1. PICK i \in 1 .. n - 1 : Latest(v, i)
      BY <1>4, <2>2 DEF Observed
    <3>2. i \in 1 .. n /\ i <= n /\ w[i] = v[i]
      BY <1>4
    <3>3. \A k \in 1 .. n : k = n \/ k \in 1 .. n - 1
      BY <1>4
    <3>4. ASSUME NEW k \in 1 .. n - 1
          PROVE  w[k].observed < w[i].observed \/ (w[k].observed = w[i].observed /\ k <= i)
      BY <1>4, <3>1, <3>2 DEF Latest
    <3>5. CASE w[i].observed <= d
      <4>1. ASSUME NEW k \in 1 .. n
            PROVE  w[k].observed < w[n].observed \/ (w[k].observed = w[n].observed /\ k <= n)
        BY <1>4, <1>6, <3>2, <3>3, <3>4, <3>5
      <4>2. Latest(w, n)
        BY <1>4, <4>1 DEF Latest
      <4>3. QED
        BY <1>7, <4>2
    <3>6. CASE d < w[i].observed
      <4>1. Latest(w, i)
        BY <1>4, <1>6, <3>2, <3>3, <3>4, <3>6 DEF Latest
      <4>2. QED
        BY <1>4, <3>2, <4>1
    <3>7. w[i].observed <= d \/ d < w[i].observed
      <4>1. w[i].observed \in Nat
        BY <1>6, <3>2
      <4>2. \A a, b \in Nat : a <= b \/ b < a
        OBVIOUS
      <4>3. d \in Nat
        OBVIOUS
      <4>4. QED
        BY <4>1, <4>2, <4>3, Zenon
    <3>8. QED
      BY <3>5, <3>6, <3>7
  <2>3. QED
    BY <2>1, <2>2
<1>9. Observed(w)
  BY <1>4, <1>8 DEF Observed
<1>10. ASSUME v # <<>>
       PROVE  Pro!GetLatestMetricValue(w).observed >= Pro!GetLatestMetricValue(v).observed
  <2>1. PICK j \in DOMAIN w : Pro!GetLatestMetricValue(w) = w[j] /\ Latest(w, j) /\ w[j].observed \in Nat
    BY <1>7, <1>9, LatestIs
  <2>2. PICK i \in DOMAIN v : Pro!GetLatestMetricValue(v) = v[i] /\ v[i].observed \in Nat
    BY <1>10, LatestIs
  <2>3. w[i] = v[i] /\ i \in DOMAIN w
    BY <1>4
  <2>4. QED
    BY <2>1, <2>2, <2>3 DEF Latest
<1>11. QED
  BY <1>9, <1>10

LEMMA ValueKeeps ==
    ASSUME ValueInv, [Pro!Next]_Pro!vars
    PROVE  /\ ValueInv'
           /\ value # <<>> => Pro!GetLatestMetricValue(value').observed >= Pro!GetLatestMetricValue(value).observed
<1>1. CASE value' = value /\ today' \in Nat
  <2>1. value # <<>> => Pro!GetLatestMetricValue(value).observed \in Nat
    BY LatestIs DEF ValueInv
  <2>2. QED
    BY <1>1, <2>1 DEF ValueInv
<1>2. CASE Pro!Midnight
  BY <1>1, <1>2 DEF Pro!Midnight, ValueInv
<1>3. CASE Pro!IngestMetricValue
  <2>1. PICK d \in 1 .. today : value' = Append(value, [observed |-> d])
    BY <1>3 DEF Pro!IngestMetricValue
  <2>2. d \in Nat /\ today' = today /\ today \in Nat /\ Observed(value)
    BY <1>3, <2>1 DEF Pro!IngestMetricValue, ValueInv
  <2>3. PICK w : w = value'
    OBVIOUS
  <2>4. /\ Observed(w)
        /\ value # <<>> => Pro!GetLatestMetricValue(w).observed >= Pro!GetLatestMetricValue(value).observed
    BY <2>1, <2>2, <2>3, LatestComes
  <2>5. QED
    BY <2>2, <2>3, <2>4 DEF ValueInv
<1>4. CASE Pro!Next /\ ~Pro!Midnight /\ ~Pro!IngestMetricValue
  <2>1. UNCHANGED <<today, value>>
    BY <1>4 DEF Pro!Next, Pro!StartRun, Pro!ListMembers, Pro!GetKeyResults, Pro!StoreSnapshot, Pro!ReadRules,
       Pro!Evaluate, Pro!StoreScore, Pro!SaveGoal, Pro!DeleteGoal, Pro!SaveKeyResult, Pro!DeleteIncentiveRule,
       Pro!CreateEmployee, Pro!Changes, Pro!Crash
  <2>2. QED
    BY <1>1, <2>1 DEF ValueInv
<1>5. CASE UNCHANGED Pro!vars
  BY <1>1, <1>5 DEF Pro!vars, ValueInv
<1>6. QED
  BY <1>2, <1>3, <1>4, <1>5

\* The latest value of a metric is never replaced by one observed before it, in
\* whatever order the values come.
THEOREM LatestIsKept == Pro!Spec => Pro!LatestNeverBackwards
<1>1. Pro!Init => ValueInv
  BY DEF Pro!Init, ValueInv, Observed
<1>2. ValueInv /\ [Pro!Next]_Pro!vars =>
         /\ ValueInv'
         /\ value # <<>> => Pro!GetLatestMetricValue(value').observed >= Pro!GetLatestMetricValue(value).observed
  BY ValueKeeps
<1>3. QED
  BY <1>1, <1>2, PTL DEF Pro!Spec, Pro!LatestNeverBackwards

LEMMA LatestIsNumber == Pro!Spec => [](value # <<>> => Pro!GetLatestMetricValue(value).observed \in Nat)
<1>1. Pro!Init => ValueInv
  BY DEF Pro!Init, ValueInv, Observed
<1>2. ValueInv /\ [Pro!Next]_Pro!vars => ValueInv'
  BY ValueKeeps
<1>3. ValueInv => (value # <<>> => Pro!GetLatestMetricValue(value).observed \in Nat)
  BY LatestIs DEF ValueInv
<1>4. QED
  BY <1>1, <1>2, <1>3, PTL DEF Pro!Spec

Wat == INSTANCE Watch WITH today <- day, staff <- active

-----------------------------------------------------------------------------
(* Watch: the summary that is kept is the first that was sent              *)

Summing == {"reports", "count", "save", "send"}
Checking == {"list", "query", "suggest"}

\* What a goroutine holds: a summary, a check or nothing.
Shaped(r) ==
    \/ /\ r = [at |-> r.at, by |-> r.by, date |-> r.date, reports |-> r.reports, staff |-> r.staff]
       /\ r.at \in Summing /\ r.date \in Wat!Days
    \/ /\ r = [at |-> r.at, by |-> r.by, todo |-> r.todo, results |-> r.results]
       /\ r.at \in Checking
    \/ r = Wat!Idle

WatOK ==
    /\ day \in Wat!Days /\ local \in {day, day + 1} \cap Wat!Days
    /\ DOMAIN summary = Wat!Days /\ DOMAIN told = Wat!Days /\ DOMAIN work = Workers
    /\ \A w \in Workers : Shaped(work[w])

Sums(w, d) == work[w].at \in Summing /\ work[w].date = d

\* Of a date whose summaries went undisturbed, one is made at a time; what is stored is
\* what is about to be sent, or what was sent first.
Undisturbed(d) ==
    /\ \A v, w \in Workers : Sums(v, d) /\ Sums(w, d) => v = w
    /\ told[d] # None => summary[d] = told[d]
    /\ told[d] = None =>
          /\ \A w \in Workers : Sums(w, d) /\ work[w].at = "send" => summary[d] = Wat!Content(work[w])
          /\ (\A w \in Workers : Sums(w, d) => work[w].at # "send") => summary[d] = None

WatInv == WatOK /\ \A d \in Wat!Days \ upset : Undisturbed(d)

\* A goroutine that goes on with the same date, or ends, disturbs nothing, if it was
\* not to send and is not yet.
LEMMA WatGoesOn ==
    ASSUME WatInv, NEW w \in Workers, NEW r, work' = [work EXCEPT ![w] = r], Shaped(r),
           UNCHANGED <<day, local, summary, told, upset>>,
           work[w].at # "send", r.at # "send",
           r.at \in Summing => work[w].at \in Summing /\ r.date = work[w].date
    PROVE  WatInv'
<1>1. work'[w] = r /\ \A v \in Workers : v # w => work'[v] = work[v]
  BY DEF WatInv, WatOK
<1>2. WatOK'
  BY <1>1 DEF WatInv, WatOK, Shaped, Wat!Days, Wat!Idle
<1>3. ASSUME NEW d \in Wat!Days \ upset, Undisturbed(d)
      PROVE  Undisturbed(d)'
  <2>1. \A v \in Workers : Sums(v, d)' => Sums(v, d)
    BY <1>1 DEF Sums
  <2>2. \A v \in Workers : (work'[v].at = "send" <=> work[v].at = "send") /\ (work[v].at = "send" => work'[v] = work[v])
    BY <1>1
  <2>3. \A v \in Workers : work[v].at = "send" => (Sums(v, d)' <=> Sums(v, d))
    BY <1>1 DEF Sums
  <2>4. QED
    BY <1>3, <2>1, <2>2, <2>3 DEF Undisturbed
<1>4. QED
  BY <1>2, <1>3 DEF WatInv

LEMMA WatSummaries ==
    ASSUME WatInv, NEW w \in Workers, Wat!Summaries(w)
    PROVE  WatInv'
<1>1. /\ Shaped(work[w]) /\ WatOK
      /\ work[w].at \in Summing =>
            /\ work[w] = [at |-> work[w].at, by |-> work[w].by, date |-> work[w].date,
                          reports |-> work[w].reports, staff |-> work[w].staff]
            /\ work[w].date \in Wat!Days
  BY DEF WatInv, WatOK, Shaped, Checking, Summing, Wat!Idle
<1>2. Shaped(Wat!Idle) /\ Wat!Idle.at = "idle"
  BY DEF Shaped, Wat!Idle
<1>3. CASE Wat!StartSummary(w)
  <2>1. PICK by \in Askers, d \in Wat!Days :
           /\ work[w] = Wat!Idle
           /\ work' = [work EXCEPT ![w] = [at |-> "reports", by |-> by, date |-> d, reports |-> {}, staff |-> 0]]
           /\ upset' = IF ~Wat!Summing(d) THEN upset ELSE upset \cup {d}
           /\ UNCHANGED <<day, local, summary, told>>
    BY <1>1, <1>3 DEF WatOK, Wat!StartSummary, Wat!Begins, Wat!Does, Wat!Upsets, Wat!rows
  <2>2. PICK r : r = [at |-> "reports", by |-> by, date |-> d, reports |-> {}, staff |-> 0]
    OBVIOUS
  <2>3. r.at = "reports" /\ r.date = d /\ Shaped(r)
    BY <2>2 DEF Shaped, Summing
  <2>4. work'[w] = r /\ \A v \in Workers : v # w => work'[v] = work[v]
    BY <1>1, <2>1, <2>2 DEF WatOK
  <2>5. WatOK'
    BY <1>1, <2>1, <2>2, <2>3, <2>4 DEF WatOK, Shaped, Wat!Days, Wat!Idle
  <2>7. ASSUME NEW c \in Wat!Days \ upset'
        PROVE  Undisturbed(c)'
    <3>1. Undisturbed(c) /\ c \notin upset
      BY <2>1, <2>7 DEF WatInv
    <3>2. c = d => \A v \in Workers : ~Sums(v, c)
      BY <2>1, <2>7 DEF Sums, Summing, Wat!Summing
    <3>3. Sums(w, c)' <=> c = d
      BY <2>3, <2>4 DEF Sums, Summing
    <3>4. \A v \in Workers : v # w => (Sums(v, c)' <=> Sums(v, c))
      BY <2>4 DEF Sums
    <3>5. ~Sums(w, c) /\ work[w].at # "send" /\ work'[w].at # "send"
      BY <1>2, <2>1, <2>3, <2>4 DEF Sums, Summing
    <3>6. QED
      BY <2>1, <2>4, <3>1, <3>2, <3>3, <3>4, <3>5 DEF Undisturbed
  <2>8. QED
    BY <2>5, <2>7 DEF WatInv
<1>4. CASE Wat!ReadReports(w)
  <2>1. PICK r : /\ work' = [work EXCEPT ![w] = r] /\ UNCHANGED <<day, local, summary, told, upset>>
                 /\ \/ r = [work[w] EXCEPT !.at = "count", !.reports = Wat!GetReportsByTenantDate(work[w].date)]
                    \/ r = Wat!Idle
    BY <1>4 DEF Wat!ReadReports, Wat!Does, Wat!rows, Wat!history
  <2>2. work[w].at = "reports"
    BY <1>4 DEF Wat!ReadReports
  <2>3. Shaped(r) /\ r.at # "send" /\ (r.at \in Summing => r.date = work[w].date)
    BY <1>1, <1>2, <2>1, <2>2 DEF Shaped, Summing
  <2>4. QED
    BY <2>1, <2>2, <2>3, WatGoesOn DEF Summing
<1>5. CASE Wat!CountActiveEmployees(w)
  <2>1. PICK r : /\ work' = [work EXCEPT ![w] = r] /\ UNCHANGED <<day, local, summary, told, upset>>
                 /\ \/ \E n : r = [work[w] EXCEPT !.at = "save", !.staff = n]
                    \/ r = Wat!Idle
    BY <1>5 DEF Wat!CountActiveEmployees, Wat!Does, Wat!rows, Wat!history
  <2>2. work[w].at = "count"
    BY <1>5 DEF Wat!CountActiveEmployees
  <2>3. Shaped(r) /\ r.at # "send" /\ (r.at \in Summing => r.date = work[w].date)
    BY <1>1, <1>2, <2>1, <2>2 DEF Shaped, Summing
  <2>4. QED
    BY <2>1, <2>2, <2>3, WatGoesOn DEF Summing
<1>6. CASE Wat!SaveSummary(w)
  <2>1. PICK d \in Wat!Days, ok \in BOOLEAN :
           /\ work[w].at = "save" /\ d = work[w].date
           /\ upset' = IF ok THEN upset ELSE upset \cup {d}
           /\ summary' = IF ok THEN Wat!CreateSummary(d, Wat!Content(work[w])) ELSE summary
           /\ work' = [work EXCEPT ![w] = [work[w] EXCEPT !.at = "send"]]
           /\ UNCHANGED <<day, local, told>>
    BY <1>1, <1>6 DEF Wat!SaveSummary, Wat!Does, Wat!Upsets, Wat!rows, Summing
  <2>2. PICK r : r = [work[w] EXCEPT !.at = "send"]
    OBVIOUS
  <2>3. r.at = "send" /\ r.date = d /\ Wat!Content(r) = Wat!Content(work[w]) /\ Shaped(r)
    BY <1>1, <2>1, <2>2 DEF Shaped, Summing, Wat!Content
  <2>4. work'[w] = r /\ \A v \in Workers : v # w => work'[v] = work[v]
    BY <1>1, <2>1, <2>2 DEF WatOK
  <2>5. /\ DOMAIN summary' = Wat!Days
        /\ \A c \in Wat!Days : c # d => summary'[c] = summary[c]
        /\ ok => summary'[d] = IF summary[d] = None THEN Wat!Content(r) ELSE summary[d]
    BY <1>1, <2>1, <2>3 DEF WatOK, Wat!CreateSummary
  <2>6. WatOK'
    BY <1>1, <2>1, <2>2, <2>3, <2>4, <2>5 DEF WatOK, Shaped, Wat!Days, Wat!Idle
  <2>7. ASSUME NEW c \in Wat!Days \ upset'
        PROVE  Undisturbed(c)'
    <3>1. Undisturbed(c) /\ c \notin upset /\ (c = d => ok)
      BY <2>1, <2>7 DEF WatInv
    <3>2. \A v \in Workers : Sums(v, c)' <=> Sums(v, c)
      BY <2>1, <2>3, <2>4 DEF Sums, Summing
    <3>3. Sums(w, d) /\ work[w].at # "send"
      BY <2>1 DEF Sums, Summing
    <3>4. CASE c = d
      <4>1. \A v \in Workers : Sums(v, d) => v = w
        BY <3>1, <3>3, <3>4 DEF Undisturbed
      <4>2. told[d] = None => summary[d] = None
        BY <3>1, <3>3, <3>4, <4>1 DEF Undisturbed
      <4>3. told[d] # None => summary'[d] = told[d]
        BY <2>5, <3>1, <3>4 DEF Undisturbed
      <4>4. told[d] = None => summary'[d] = Wat!Content(r)
        BY <2>5, <3>1, <3>4, <4>2
      <4>5. QED
        BY <2>1, <2>3, <2>4, <3>2, <3>3, <3>4, <4>1, <4>3, <4>4 DEF Undisturbed
    <3>5. CASE c # d
      <4>1. \A v \in Workers : Sums(v, c) => v # w
        BY <2>1, <3>5 DEF Sums
      <4>2. QED
        BY <2>1, <2>4, <2>5, <3>1, <3>2, <3>5, <4>1 DEF Undisturbed
    <3>6. QED
      BY <3>4, <3>5
  <2>8. QED
    BY <2>6, <2>7 DEF WatInv
<1>7. CASE Wat!SendSummary(w)
  <2>1. PICK d \in Wat!Days, ok \in BOOLEAN, r \in {Wat!Check("triggers"), Wat!Idle} :
           /\ work[w].at = "send" /\ d = work[w].date
           /\ upset' = IF ok THEN upset ELSE upset \cup {d}
           /\ told' = IF ok /\ told[d] = None THEN [told EXCEPT ![d] = Wat!Content(work[w])] ELSE told
           /\ work' = [work EXCEPT ![w] = r]
           /\ UNCHANGED <<day, local, summary>>
    BY <1>1, <1>7 DEF Wat!SendSummary, Wat!Does, Wat!Upsets, Wat!rows, Summing
  <2>2. Shaped(r) /\ r.at \notin Summing
    BY <1>2, <2>1 DEF Shaped, Summing, Checking, Wat!Check
  <2>3. work'[w] = r /\ \A v \in Workers : v # w => work'[v] = work[v]
    BY <1>1, <2>1 DEF WatOK
  <2>4. /\ DOMAIN told' = Wat!Days
        /\ \A c \in Wat!Days : c # d => told'[c] = told[c]
        /\ ok => told'[d] = IF told[d] = None THEN Wat!Content(work[w]) ELSE told[d]
    BY <1>1, <2>1 DEF WatOK
  <2>5. WatOK'
    BY <1>1, <2>1, <2>2, <2>3, <2>4 DEF WatOK, Shaped, Wat!Days, Wat!Idle
  <2>6. ASSUME NEW c \in Wat!Days \ upset'
        PROVE  Undisturbed(c)'
    <3>1. Undisturbed(c) /\ c \notin upset /\ (c = d => ok)
      BY <2>1, <2>6 DEF WatInv
    <3>2. \A v \in Workers : Sums(v, c)' <=> v # w /\ Sums(v, c)
      BY <2>2, <2>3 DEF Sums
    <3>3. Sums(w, d) /\ work[w].at = "send"
      BY <2>1 DEF Sums, Summing
    <3>4. CASE c = d
      <4>1. \A v \in Workers : ~Sums(v, c)'
        BY <3>1, <3>2, <3>3, <3>4 DEF Undisturbed
      <4>2. told[d] = None => summary[d] = Wat!Content(work[w])
        BY <3>1, <3>3, <3>4 DEF Undisturbed
      <4>3. told'[d] = summary[d]
        BY <2>4, <3>1, <3>4, <4>2 DEF Undisturbed
      <4>4. QED
        BY <2>1, <3>4, <4>1, <4>3 DEF Undisturbed
    <3>5. CASE c # d
      <4>1. \A v \in Workers : Sums(v, c) => v # w
        BY <2>1, <3>5 DEF Sums
      <4>2. QED
        BY <2>1, <2>3, <2>4, <3>1, <3>2, <3>5, <4>1 DEF Undisturbed
    <3>6. QED
      BY <3>4, <3>5
  <2>7. QED
    BY <2>5, <2>6 DEF WatInv
<1>8. QED
  BY <1>3, <1>4, <1>5, <1>6, <1>7 DEF Wat!Summaries

LEMMA WatChecks ==
    ASSUME WatInv, NEW w \in Workers, Wat!Checks(w)
    PROVE  WatInv'
<1>1. /\ work[w].at \in Checking =>
            work[w] = [at |-> work[w].at, by |-> work[w].by, todo |-> work[w].todo, results |-> work[w].results]
  BY DEF WatInv, WatOK, Shaped, Checking, Summing, Wat!Idle
<1>2. Shaped(Wat!Idle) /\ Wat!Idle.at = "idle"
  BY DEF Shaped, Wat!Idle
<1>3. PICK r :
         /\ work' = [work EXCEPT ![w] = r] /\ UNCHANGED <<day, local, summary, told, upset>>
         /\ \/ work[w] = Wat!Idle /\ \E by : r = Wat!Check(by)
            \/ work[w].at \in Checking /\ r = Wat!Idle
            \/ work[w].at = "list" /\ \E todo : r = [work[w] EXCEPT !.at = "query", !.todo = todo]
            \/ work[w].at = "query" /\ \E todo, results : r = [work[w] EXCEPT !.todo = todo, !.results = results]
            \/ work[w].at = "query" /\ \E todo : r = [work[w] EXCEPT !.at = "suggest", !.todo = todo]
            \/ work[w].at = "suggest" /\ \E todo : r = [work[w] EXCEPT !.todo = todo]
  <2>1. CASE Wat!StartCheck(w)
    BY <2>1 DEF Wat!StartCheck, Wat!Begins, Wat!Does, Wat!rows, Wat!history
  <2>2. CASE Wat!ListEmployees(w)
    BY <2>2 DEF Wat!ListEmployees, Wat!Does, Wat!rows, Wat!history, Checking
  <2>3. CASE Wat!Query(w)
    <3>1. UNCHANGED <<day, local, summary, told, upset>> /\ work[w].at = "query"
      BY <2>3 DEF Wat!Query, Wat!rows, Wat!history
    <3>2. PICK todo, results : work' = [work EXCEPT ![w] = [work[w] EXCEPT !.todo = todo, !.results = results]]
      BY <2>3 DEF Wat!Query, Wat!Does
    <3>3. PICK r : r = [work[w] EXCEPT !.todo = todo, !.results = results]
      OBVIOUS
    <3>4. work' = [work EXCEPT ![w] = r] /\ \E t, s : r = [work[w] EXCEPT !.todo = t, !.results = s]
      BY <3>2, <3>3
    <3>5. QED
      BY <3>1, <3>4
  <2>4. CASE Wat!Tell(w)
    BY <2>4 DEF Wat!Tell, Wat!Does, Wat!rows, Wat!history, Checking
  <2>5. CASE Wat!Suggest(w)
    BY <2>5 DEF Wat!Suggest, Wat!Does, Wat!rows, Wat!history, Checking
  <2>6. QED
    BY <2>1, <2>2, <2>3, <2>4, <2>5 DEF Wat!Checks
<1>4. Shaped(r) /\ r.at \notin Summing /\ r.at # "send"
  <2>1. CASE \E by : r = Wat!Check(by)
    BY <2>1 DEF Shaped, Checking, Summing, Wat!Check
  <2>2. CASE r = Wat!Idle
    BY <1>2, <2>2 DEF Summing
  <2>3. CASE work[w].at = "list" /\ \E todo : r = [work[w] EXCEPT !.at = "query", !.todo = todo]
    BY <1>1, <2>3 DEF Shaped, Checking, Summing
  <2>4. CASE work[w].at = "query" /\ \E todo, results : r = [work[w] EXCEPT !.todo = todo, !.results = results]
    BY <1>1, <2>4 DEF Shaped, Checking, Summing
  <2>5. CASE work[w].at = "query" /\ \E todo : r = [work[w] EXCEPT !.at = "suggest", !.todo = todo]
    BY <1>1, <2>5 DEF Shaped, Checking, Summing
  <2>6. CASE work[w].at = "suggest" /\ \E todo : r = [work[w] EXCEPT !.todo = todo]
    BY <1>1, <2>6 DEF Shaped, Checking, Summing
  <2>7. QED
    BY <1>3, <2>1, <2>2, <2>3, <2>4, <2>5, <2>6
<1>5. QED
  <2>1. work[w].at # "send"
    BY <1>2, <1>3 DEF Checking
  <2>2. QED
    BY <1>3, <1>4, <2>1, WatGoesOn

LEMMA WatElse ==
    ASSUME MaxDays \in Nat,
           WatInv, Wat!Midnight \/ Wat!CreateSuggestion \/ Wat!Review \/ Wat!Crash
                   \/ (\E e \in Newcomers : Wat!CreateEmployee(e))
                   \/ (\E e \in Staff : Wat!Submit(e) \/ \E d \in Wat!Days : Wat!Analyze(e, d))
                   \/ UNCHANGED Wat!vars
    PROVE  WatInv'
<1>1. CASE Wat!Crash
  <2>1. /\ \A w \in Workers : work'[w] = Wat!Idle
        /\ DOMAIN work' = Workers
        /\ upset' = upset \cup {d \in Wat!Days : Wat!Summing(d)}
        /\ UNCHANGED <<day, local, summary, told>>
    BY <1>1 DEF Wat!Crash, Wat!rows
  <2>2. Shaped(Wat!Idle) /\ Wat!Idle.at = "idle"
    BY DEF Shaped, Wat!Idle
  <2>3. WatOK'
    BY <2>1, <2>2 DEF WatInv, WatOK, Shaped, Wat!Days, Wat!Idle
  <2>4. ASSUME NEW d \in Wat!Days \ upset'
        PROVE  Undisturbed(d)'
    <3>1. Undisturbed(d) /\ \A w \in Workers : ~Sums(w, d)
      BY <2>1, <2>4 DEF WatInv, Sums, Summing, Wat!Summing
    <3>2. \A w \in Workers : ~Sums(w, d)'
      BY <2>1, <2>2 DEF Sums, Summing
    <3>3. QED
      BY <2>1, <3>1, <3>2 DEF Undisturbed
  <2>5. QED
    BY <2>3, <2>4 DEF WatInv
<1>2. ASSUME UNCHANGED <<summary, work, told, upset>>,
             (UNCHANGED <<day, local>>) \/ Wat!Midnight
      PROVE  WatInv'
  <2>1. /\ day' \in Wat!Days
        /\ local' \in {day', day' + 1} \cap Wat!Days
    BY <1>2 DEF WatInv, WatOK, Wat!Midnight, Wat!Days
  <2>2. WatOK'
    BY <1>2, <2>1 DEF WatInv, WatOK, Shaped, Wat!Days, Wat!Idle
  <2>3. \A d \in Wat!Days \ upset : Undisturbed(d)'
    BY <1>2 DEF WatInv, Undisturbed, Sums
  <2>4. QED
    BY <1>2, <2>2, <2>3 DEF WatInv
<1>3. QED
  BY <1>1, <1>2 DEF Wat!Midnight, Wat!CreateSuggestion, Wat!Review, Wat!CreateEmployee, Wat!Submit, Wat!Analyze,
     Wat!vars, Wat!rows, Wat!history, Wat!bounds

LEMMA WatBegins == ASSUME MaxDays \in Nat \ {0}, Wat!Init PROVE WatInv
<1>1. /\ summary = [d \in Wat!Days |-> None] /\ told = [d \in Wat!Days |-> None]
      /\ \A w \in Workers : work[w] = Wat!Idle
      /\ DOMAIN work = Workers /\ day = 1 /\ local = 1
  BY DEF Wat!Init
<1>2. Wat!Idle.at = "idle" /\ Shaped(Wat!Idle)
  BY DEF Wat!Idle, Shaped
<1>3. WatOK
  <2>1. 1 \in Wat!Days /\ 1 \in {1, 1 + 1}
    BY DEF Wat!Days
  <2>2. day \in Wat!Days /\ local \in {day, day + 1} \cap Wat!Days
    BY <1>1, <2>1
  <2>3. \A w \in Workers : Shaped(work[w])
    BY <1>1, <1>2, Zenon
  <2>4. DOMAIN summary = Wat!Days /\ DOMAIN told = Wat!Days /\ DOMAIN work = Workers
    BY <1>1
  <2>5. QED
    BY <2>2, <2>3, <2>4 DEF WatOK
<1>4. \A d \in Wat!Days : Undisturbed(d)
  BY <1>1, <1>2 DEF Undisturbed, Sums, Summing
<1>5. QED
  BY <1>3, <1>4 DEF WatInv

\* However many summaries of a date follow each other, the one the boss was first sent
\* is the one that is kept, unless two overlapped, or one failed or was cut off.
THEOREM StoredWasTold ==
    ASSUME MaxDays \in Nat \ {0}
    PROVE  Wat!Spec => []Wat!StoredIsTold
<1>1. Wat!Init => WatInv
  BY WatBegins
<1>2. WatInv /\ [Wat!Next]_Wat!vars => WatInv'
  BY WatSummaries, WatChecks, WatElse DEF Wat!Next
<1>3. WatInv => Wat!StoredIsTold
  BY DEF WatInv, Undisturbed, Wat!StoredIsTold
<1>4. QED
  BY <1>1, <1>2, <1>3, PTL DEF Wat!Spec

-----------------------------------------------------------------------------
(* Watch: what the boss is told of an employee                             *)

LEMMA WatCounts == \A S : Wat!Cardinality(S) = Cardinality(S)
  BY DEF Wat!Cardinality, Cardinality, Wat!IsFiniteSet, IsFiniteSet

LEMMA LeastNumber == ASSUME NEW T \in SUBSET Nat, T # {} PROVE \E n \in T : \A m \in T : n <= m
<1>1. PICK n \in T : \A m \in T : <<m, n>> \notin OpToRel(<, Nat)
  BY NatLessThanWellFounded, WFMin
<1>2. \A m \in T : ~(m < n)
  BY <1>1 DEF OpToRel
<1>3. QED
  BY <1>2

LEMMA MaxIs ==
    ASSUME NEW S \in SUBSET Int, NEW m \in S, \A x \in S : x <= m
    PROVE  Wat!Max(S) = m
<1>1. \A x \in S : (\A y \in S : x >= y) => x = m
  OBVIOUS
<1>2. QED
  BY <1>1 DEF Wat!Max

LEMMA MaxThere ==
    ASSUME NEW S \in SUBSET Int, S # {}, NEW b \in Int, \A x \in S : x <= b
    PROVE  Wat!Max(S) \in S /\ \A x \in S : x <= Wat!Max(S)
<1>1. DEFINE T == {n \in Nat : b - n \in S}
<1>2. PICK x \in S : TRUE
  OBVIOUS
<1>3. b - x \in T
  BY <1>2
<1>4. PICK n \in T : \A m \in T : n <= m
  BY <1>3, LeastNumber
<1>5. \A y \in S : b - y \in T
  OBVIOUS
<1>6. b - n \in S /\ \A y \in S : y <= b - n
  BY <1>4, <1>5
<1>7. PICK m : m = b - n
  OBVIOUS
<1>8. m \in S /\ \A y \in S : y <= m
  BY <1>6, <1>7
<1>9. QED
  BY <1>8, MaxIs

\* The days the statement counts, those after the last report and before today, are
\* the days missed without a break.
LEMMA MissedAreCounted ==
    ASSUME MaxDays \in Nat, Window \in Nat, day \in Wat!Days, NEW e
    PROVE  Wat!GetConsecutiveMissDays(e) = Wat!MissedWithoutBreak(e)
<1>1. DEFINE S == Wat!Since(e, day - Window) \cup {day - Window}
             D == {d \in Wat!Missed(e) : d >= Wat!Max(S)}
<1>2. S \in SUBSET Int /\ S # {} /\ \A x \in S : x <= MaxDays
  BY DEF Wat!Since, Wat!Days
<1>3. PICK m : m = Wat!Max(S)
  OBVIOUS
<1>4. m \in S /\ m \in Int /\ \A x \in S : x <= m
  <2>1. \A T \in SUBSET Int : T # {} /\ (\A x \in T : x <= MaxDays) =>
           Wat!Max(T) \in T /\ \A x \in T : x <= Wat!Max(T)
    BY MaxThere
  <2>2. PICK T : T = S
    OBVIOUS
  <2>3. Wat!Max(T) \in T /\ \A x \in T : x <= Wat!Max(T)
    BY <1>2, <2>1, <2>2
  <2>4. QED
    BY <1>2, <1>3, <2>2, <2>3
<1>5. Wat!GetConsecutiveMissDays(e) = Cardinality(D)
  BY WatCounts DEF Wat!GetConsecutiveMissDays
<1>6. D = {d \in Wat!Missed(e) : d >= m}
  BY <1>3
<1>7. day \in 1 .. MaxDays /\ day - Window <= m
  BY <1>4 DEF Wat!Days
<1>8. CASE Wat!Since(e, day) # {}
  <2>1. PICK d \in Wat!Since(e, day) : d >= day /\ d \in S /\ d \in Int
    BY <1>7, <1>8 DEF Wat!Since, Wat!Days
  <2>2. m >= day
    BY <1>4, <1>7, <2>1
  <2>3. D = {}
    BY <1>4, <1>6, <1>7, <2>2 DEF Wat!Missed
  <2>4. QED
    BY <1>5, <1>8, <2>3, FS_EmptySet DEF Wat!MissedWithoutBreak
<1>9. CASE Wat!Since(e, day) = {}
  <2>1. DEFINE first == IF m \in Wat!Since(e, day - Window) THEN m + 1 ELSE m
               N == {n \in 0 .. Window : \A d \in Wat!Days :
                        d \in (day - n) .. (day - 1) => report[e][d] = "none"}
  <2>2. \A d \in Wat!Since(e, day - Window) : d < day
    BY <1>7, <1>9 DEF Wat!Since, Wat!Days
  <2>3. first \in Int /\ first <= day /\ day - Window <= first
    BY <1>4, <1>7, <2>2
  <2>4. D = first .. (day - 1)
    <3>1. \A d \in D : d \in first .. (day - 1)
      BY <1>4, <1>6, <1>7, <2>3 DEF Wat!Missed
    <3>2. \A d \in first .. (day - 1) : d \in D
      <4>1. ASSUME NEW d \in first .. (day - 1)
            PROVE  d \notin Wat!Since(e, day - Window)
        BY <1>4, <1>7, <2>3
      <4>2. \A d \in first .. (day - 1) :
               d \in Int /\ m <= d /\ d \in (day - Window) .. (day - 1)
        BY <1>4, <1>7, <2>3
      <4>3. \A d \in first .. (day - 1) : d \in Wat!Missed(e)
        BY <4>1, <4>2 DEF Wat!Missed
      <4>4. QED
        BY <1>4, <1>6, <4>2, <4>3
    <3>3. QED
      BY <3>1, <3>2
  <2>5. Cardinality(D) = day - first
    <3>1. PICK f : f = first
      OBVIOUS
    <3>2. f \in Int /\ f <= day /\ D = f .. (day - 1)
      BY <2>3, <2>4, <3>1
    <3>3. Cardinality(f .. (day - 1)) = day - f
      BY <1>7, <3>2, FS_Interval
    <3>4. QED
      BY <3>1, <3>2, <3>3
  <2>6. day - first \in N
    <3>1. ASSUME NEW d \in Wat!Days, d \in (day - (day - first)) .. (day - 1)
          PROVE  report[e][d] = "none"
      <4>1. d \in D
        <5>1. PICK f : f = first
          OBVIOUS
        <5>2. f \in Int /\ d \in f .. (day - 1)
          BY <1>7, <2>3, <3>1, <5>1
        <5>3. QED
          BY <2>4, <5>1, <5>2
      <4>2. QED
        BY <1>6, <1>7, <3>1, <4>1 DEF Wat!Missed, Wat!Since, Wat!Days
    <3>2. QED
      BY <1>7, <2>3, <3>1
  <2>7. \A n \in N : n <= day - first
    <3>1. SUFFICES ASSUME NEW n \in N, n > day - first PROVE FALSE
      BY <1>7, <2>3
    <3>2. CASE m \in Wat!Since(e, day - Window)
      <4>1. m \in Wat!Days /\ report[e][m] # "none" /\ m < day /\ first = m + 1
        BY <2>2, <3>2 DEF Wat!Since
      <4>2. m \in (day - n) .. (day - 1)
        BY <1>4, <1>7, <3>1, <4>1
      <4>3. QED
        BY <3>1, <4>1, <4>2
    <3>3. CASE m \notin Wat!Since(e, day - Window)
      BY <1>4, <1>7, <3>1, <3>3
    <3>4. QED
      BY <3>2, <3>3
  <2>8. N \in SUBSET Int
    OBVIOUS
  <2>9. PICK k : k = day - first
    OBVIOUS
  <2>10. Wat!Max(N) = k
    BY <2>6, <2>7, <2>8, <2>9, MaxIs
  <2>11. Wat!MissedWithoutBreak(e) = Wat!Max(N)
    BY <1>9 DEF Wat!MissedWithoutBreak
  <2>12. QED
    BY <1>5, <2>5, <2>9, <2>10, <2>11
<1>10. QED
  BY <1>8, <1>9

\* A numbering of a set of dates, the latest first.
Ordered(s, n, S) ==
    /\ s \in [1 .. n -> S]
    /\ \A i, j \in 1 .. n : i < j => s[i] > s[j]
    /\ \A d \in S : \E i \in 1 .. n : s[i] = d

LEMMA OrderedThere ==
    ASSUME NEW b \in Nat, NEW S \in SUBSET (1 .. b)
    PROVE  \E n \in Nat : \E s : Ordered(s, n, S)
<1>1. DEFINE Bad == {m \in Nat : \E U \in SUBSET (1 .. m) : ~ \E n \in Nat : \E s : Ordered(s, n, U)}
<1>2. SUFFICES ASSUME Bad # {} PROVE FALSE
  <2>1. CASE Bad = {}
    BY <2>1
  <2>2. QED
    BY <1>2, <2>1
<1>3. PICK m \in Bad : \A k \in Bad : m <= k
  <2>1. PICK B : B = Bad
    OBVIOUS
  <2>2. \E m \in B : \A k \in B : m <= k
    BY <1>2, <2>1, LeastNumber
  <2>3. QED
    BY <2>1, <2>2
<1>4. PICK U \in SUBSET (1 .. m) : ~ \E n \in Nat : \E s : Ordered(s, n, U)
  BY <1>3
<1>5. m \in Nat
  BY <1>3
<1>6. m # 0 /\ m \in U
  <2>1. CASE m = 0
    <3>1. U = {} /\ 1 .. 0 = {}
      BY <1>4, <2>1
    <3>2. Ordered(<<>>, 0, U)
      BY <3>1 DEF Ordered
    <3>3. QED
      BY <1>4, <3>2
  <2>2. CASE m # 0 /\ m \notin U
    <3>1. m - 1 \in Nat /\ U \in SUBSET (1 .. (m - 1))
      BY <1>4, <1>5, <2>2
    <3>2. m - 1 \in Bad
      BY <1>4, <3>1
    <3>3. QED
      BY <1>3, <1>5, <3>2
  <2>3. QED
    BY <2>1, <2>2
<1>7. PICK V : V = U \ {m}
  OBVIOUS
<1>8. m - 1 \in Nat /\ V \in SUBSET (1 .. (m - 1)) /\ U = V \cup {m} /\ \A d \in V : d < m /\ d \in Int
  BY <1>4, <1>5, <1>6, <1>7
<1>9. PICK n \in Nat : \E s : Ordered(s, n, V)
  <2>1. m - 1 \notin Bad
    <3>1. PICK B : B = Bad
      OBVIOUS
    <3>2. \A k \in B : m <= k
      BY <1>3, <3>1
    <3>3. m - 1 \notin B
      BY <1>5, <3>2
    <3>4. QED
      BY <3>1, <3>3
  <2>2. QED
    BY <1>8, <2>1
<1>18. PICK s : Ordered(s, n, V)
  BY <1>9
<1>10. PICK t : t = [i \in 1 .. (n + 1) |-> IF i = 1 THEN m ELSE s[i - 1]]
  OBVIOUS
<1>11. \A i \in 1 .. (n + 1) : i # 1 => i - 1 \in 1 .. n /\ t[i] = s[i - 1] /\ s[i - 1] \in V
  BY <1>18, <1>10 DEF Ordered
<1>12. t[1] = m /\ 1 \in 1 .. (n + 1)
  BY <1>9, <1>10
<1>13. t \in [1 .. (n + 1) -> U]
  BY <1>8, <1>10, <1>11, <1>12
<1>14. ASSUME NEW i \in 1 .. (n + 1), NEW j \in 1 .. (n + 1), i < j
       PROVE  t[i] > t[j]
  <2>1. j # 1 /\ t[j] \in V
    BY <1>11, <1>14
  <2>2. CASE i = 1
    BY <1>8, <1>5, <1>12, <2>1, <2>2
  <2>3. CASE i # 1
    <3>1. i - 1 \in 1 .. n /\ j - 1 \in 1 .. n /\ i - 1 < j - 1
      BY <1>9, <1>14, <2>1, <2>3
    <3>2. s[i - 1] > s[j - 1]
      BY <1>18, <3>1 DEF Ordered
    <3>3. QED
      BY <1>11, <2>1, <2>3, <3>2
  <2>4. QED
    BY <2>2, <2>3
<1>15. ASSUME NEW d \in U
       PROVE  \E i \in 1 .. (n + 1) : t[i] = d
  <2>1. CASE d = m
    BY <1>12, <2>1
  <2>2. CASE d \in V
    <3>1. PICK i \in 1 .. n : s[i] = d
      BY <1>18, <2>2 DEF Ordered
    <3>2. i + 1 \in 1 .. (n + 1) /\ i + 1 # 1 /\ (i + 1) - 1 = i
      BY <1>9
    <3>3. QED
      BY <1>11, <3>1, <3>2
  <2>3. QED
    BY <1>8, <2>1, <2>2
<1>16. n + 1 \in Nat /\ Ordered(t, n + 1, U)
  BY <1>9, <1>13, <1>14, <1>15 DEF Ordered
<1>17. QED
  BY <1>4, <1>16

\* A set of the dates from one place of a numbering to another.
From(s, i, j, Part) ==
    /\ \A k \in i .. j : s[k] \in Part
    /\ \A d \in Part : \E k \in i .. j : d = s[k]

\* The dates from one place of a numbering to another are as many as the places.
LEMMA OrderedCounts ==
    ASSUME NEW n \in Nat, NEW s, NEW S \in SUBSET Int, Ordered(s, n, S),
           NEW i \in Nat \ {0}, NEW j \in Nat, j <= n, NEW Part, From(s, i, j, Part)
    PROVE  IsFiniteSet(Part) /\ Cardinality(Part) = IF i > j THEN 0 ELSE j - i + 1
<1>1. DEFINE f == [k \in i .. j |-> s[k]]
<1>2. \A k \in i .. j : k \in 1 .. n
  OBVIOUS
<1>3. \A k, l \in i .. j : k # l => f[k] # f[l]
  <2>1. \A k, l \in 1 .. n : s[k] \in Int /\ s[l] \in Int /\ (k < l => s[k] > s[l])
    BY DEF Ordered
  <2>2. \A k, l \in i .. j : k # l => k < l \/ l < k
    OBVIOUS
  <2>3. \A k, l \in i .. j : k # l => s[k] # s[l]
    BY <1>2, <2>1, <2>2
  <2>4. QED
    BY <2>3
<1>4. f \in Bijection(i .. j, Part)
  BY <1>3 DEF From, Bijection, Injection, Surjection, IsInjective
<1>5. ExistsBijection(i .. j, Part)
  BY <1>4 DEF ExistsBijection
<1>6. IsFiniteSet(i .. j) /\ Cardinality(i .. j) = IF i > j THEN 0 ELSE j - i + 1
  BY FS_Interval
<1>7. QED
  BY <1>5, <1>6, FS_Bijection

LEMMA LatestFirstIs ==
    ASSUME MaxDays \in Nat, NEW S \in SUBSET Wat!Days
    PROVE  \E n \in Nat : n = Cardinality(S) /\ IsFiniteSet(S) /\ Ordered(Wat!LatestFirst(S), n, S)
<1>1. S \in SUBSET (1 .. MaxDays) /\ S \in SUBSET Int
  BY DEF Wat!Days
<1>2. PICK n \in Nat : \E s : Ordered(s, n, S)
  BY <1>1, OrderedThere
<1>10. PICK s : Ordered(s, n, S)
  BY <1>2
<1>3. IsFiniteSet(S) /\ Cardinality(S) = n
  <2>1. From(s, 1, n, S)
    BY <1>10 DEF Ordered, From
  <2>2. 1 \in Nat \ {0} /\ n <= n /\ (IF 1 > n THEN 0 ELSE n - 1 + 1) = n
    OBVIOUS
  <2>3. QED
    BY <1>1, <1>10, <2>1, <2>2, OrderedCounts
<1>4. PICK t : t = Wat!LatestFirst(S)
  OBVIOUS
<1>5. t \in [1 .. n -> S] /\ \A i, j \in 1 .. n : i < j => t[i] > t[j]
  <2>1. t = CHOOSE r \in [1 .. n -> S] : \A i, j \in DOMAIN r : i < j => r[i] > r[j]
    BY <1>3, <1>4, WatCounts DEF Wat!LatestFirst
  <2>2. s \in [1 .. n -> S] /\ \A i, j \in DOMAIN s : i < j => s[i] > s[j]
    BY <1>10 DEF Ordered
  <2>3. t \in [1 .. n -> S] /\ \A i, j \in DOMAIN t : i < j => t[i] > t[j]
    BY <2>1, <2>2
  <2>4. QED
    BY <2>3
<1>6. t \in Injection(1 .. n, S)
  <2>1. \A i \in 1 .. n : t[i] \in S
    BY <1>5
  <2>2. \A i, j \in 1 .. n : t[i] = t[j] => i = j
    <3>1. SUFFICES ASSUME NEW i \in 1 .. n, NEW j \in 1 .. n, t[i] = t[j], i < j
                   PROVE  FALSE
      OBVIOUS
    <3>2. t[i] > t[j] /\ t[i] \in Int /\ t[j] \in Int
      BY <1>1, <1>5, <2>1, <3>1
    <3>3. QED
      BY <3>1, <3>2
  <2>3. QED
    BY <1>5, <2>2 DEF Injection, IsInjective
<1>7. t \in Surjection(1 .. n, S)
  <2>1. Cardinality(1 .. n) = n
    BY FS_Interval
  <2>2. QED
    BY <1>3, <1>6, <2>1, FS_Injection
<1>8. Ordered(t, n, S)
  BY <1>5, <1>7 DEF Surjection, Ordered
<1>9. QED
  BY <1>3, <1>4, <1>8

\* As many negative sentiments in a row as make an alert are found among the latest
\* if, and only if, there were as many negative reports in a row.
LEMMA MoodIsRight ==
    ASSUME MaxDays \in Nat, day \in Wat!Days, Window \in Nat, Looked \in Nat, InARow \in Nat \ {0},
           NEW e, \A d \in Wat!Days : report[e][d] \in Wat!Sentiments
    PROVE  Wat!hasSentimentDrop(Wat!GetRecentSentiments(e)) <=> Wat!Sad(e)
<1>1. PICK S : S = {d \in Wat!Since(e, day - Window) : report[e][d] # "new"}
  OBVIOUS
<1>2. /\ S \in SUBSET Wat!Days /\ S \in SUBSET Int
      /\ \A d \in Wat!Days : d \in S <=> d >= day - Window /\ report[e][d] \in {"negative", "other"}
  BY <1>1 DEF Wat!Since, Wat!Days, Wat!Sentiments
<1>3. PICK N \in Nat : Ordered(Wat!LatestFirst(S), N, S)
  BY <1>2, LatestFirstIs
<1>4. PICK s : s = Wat!LatestFirst(S)
  OBVIOUS
<1>5. /\ Ordered(s, N, S) /\ s \in [1 .. N -> S]
      /\ \A i, j \in 1 .. N : i < j => s[i] > s[j]
      /\ \A d \in S : \E i \in 1 .. N : s[i] = d
      /\ \A i \in 1 .. N : s[i] \in S /\ s[i] \in Wat!Days /\ s[i] \in Int
  BY <1>2, <1>3, <1>4 DEF Ordered
<1>6. Len(s) = N
  <2>1. s \in Seq(S)
    BY <1>5
  <2>2. DOMAIN s = 1 .. Len(s) /\ DOMAIN s = 1 .. N /\ Len(s) \in Nat
    BY <1>5, <2>1
  <2>3. \A a, b \in Nat : 1 .. a = 1 .. b => a = b
    <3>1. \A a, b \in Nat : a < b => b \in 1 .. b /\ b \notin 1 .. a
      OBVIOUS
    <3>2. \A a, b \in Nat : a < b \/ b < a \/ a = b
      OBVIOUS
    <3>3. QED
      BY <3>1, <3>2
  <2>4. QED
    BY <2>2, <2>3
<1>7. PICK n : n = IF Looked <= N THEN Looked ELSE N
  OBVIOUS
<1>8. n \in Nat /\ n <= N /\ n <= Looked /\ \A k \in Nat : k <= N /\ k <= Looked => k <= n
  BY <1>7
<1>9. Wat!Min({Looked, Len(s)}) = n
  <2>1. Wat!Min({Looked, N}) = n
    BY <1>7 DEF Wat!Min
  <2>2. QED
    BY <1>6, <2>1
<1>10. PICK v : v = [i \in 1 .. n |-> report[e][s[i]]]
  OBVIOUS
<1>11. Wat!GetRecentSentiments(e) = v
  BY <1>1, <1>4, <1>9, <1>10 DEF Wat!GetRecentSentiments
<1>12. Len(v) = n
  BY <1>8, <1>10
<1>13. Wat!hasSentimentDrop(v) <=>
          \E i \in 1 .. n - InARow + 1 : \A k \in i .. i + InARow - 1 : report[e][s[k]] = "negative"
  <2>1. \A i \in 1 .. n - InARow + 1 : \A k \in i .. i + InARow - 1 : k \in 1 .. n /\ v[k] = report[e][s[k]]
    BY <1>8, <1>10
  <2>2. QED
    BY <1>12, <2>1 DEF Wat!hasSentimentDrop
<1>14. ASSUME NEW first \in Wat!Days, NEW last \in Wat!Days, first >= day - Window
       PROVE  Wat!Analysed(e, first, last) = {d \in S : first <= d /\ d <= last}
  BY <1>2, <1>14 DEF Wat!Analysed, Wat!Days
<1>18. \A i, j \in 1 .. N : i <= j <=> s[j] <= s[i]
  <2>1. \A i, j \in 1 .. N : i <= j => s[j] <= s[i]
    <3>1. SUFFICES ASSUME NEW i \in 1 .. N, NEW j \in 1 .. N, i <= j PROVE s[j] <= s[i]
      OBVIOUS
    <3>2. i = j \/ i < j
      BY <3>1
    <3>3. s[i] \in Int /\ s[j] \in Int /\ (i < j => s[i] > s[j])
      BY <1>5
    <3>4. QED
      BY <3>2, <3>3
  <2>2. \A i, j \in 1 .. N : j < i => ~(s[j] <= s[i])
    <3>1. SUFFICES ASSUME NEW i \in 1 .. N, NEW j \in 1 .. N, j < i PROVE ~(s[j] <= s[i])
      OBVIOUS
    <3>2. s[i] \in Int /\ s[j] \in Int /\ s[j] > s[i]
      BY <1>5, <3>1
    <3>3. QED
      BY <3>2
  <2>3. \A i, j \in 1 .. N : i <= j \/ j < i
    OBVIOUS
  <2>4. QED
    BY <2>1, <2>2, <2>3
<1>20. \A i \in Nat \ {0}, j \in Nat : i <= j /\ j <= N => \A P : From(s, i, j, P) => Cardinality(P) = j - i + 1
  BY <1>2, <1>5, OrderedCounts
<1>19. ASSUME NEW j \in 1 .. N
       PROVE  Cardinality(Wat!Analysed(e, s[j], MaxDays)) = j
  <2>1. s[j] \in Wat!Days /\ s[j] >= day - Window /\ MaxDays \in Wat!Days
    BY <1>2, <1>5 DEF Wat!Days
  <2>2. Wat!Analysed(e, s[j], MaxDays) = {d \in S : s[j] <= d /\ d <= MaxDays}
    BY <1>14, <2>1
  <2>3. \A k \in 1 .. N : k \in 1 .. j <=> s[j] <= s[k] /\ s[k] <= MaxDays
    BY <1>5, <1>18 DEF Wat!Days
  <2>4. \A k \in 1 .. j : k \in 1 .. N
    OBVIOUS
  <2>5. \A k \in 1 .. j : s[k] \in Wat!Analysed(e, s[j], MaxDays)
    BY <1>5, <2>2, <2>3, <2>4
  <2>6. \A d \in Wat!Analysed(e, s[j], MaxDays) : \E k \in 1 .. j : d = s[k]
    BY <1>5, <2>2, <2>3
  <2>8. 1 \in Nat \ {0} /\ j \in Nat /\ j <= N /\ 1 <= j
    OBVIOUS
  <2>9. Cardinality(Wat!Analysed(e, s[j], MaxDays)) = j - 1 + 1
    BY <1>20, <2>5, <2>6, <2>8 DEF From
  <2>10. QED
    BY <2>8, <2>9
<1>15. ASSUME Wat!hasSentimentDrop(v)
       PROVE  Wat!Sad(e)
  <2>1. PICK i \in 1 .. n - InARow + 1 : \A k \in i .. i + InARow - 1 : report[e][s[k]] = "negative"
    BY <1>13, <1>15
  <2>2. PICK j : j = i + InARow - 1
    OBVIOUS
  <2>3. i \in 1 .. N /\ j \in 1 .. N /\ i <= j /\ j <= n /\ j - i + 1 = InARow
    BY <1>8, <2>1, <2>2
  <2>4. PICK first, last : first = s[j] /\ last = s[i]
    OBVIOUS
  <2>5. first \in S /\ first \in Wat!Days /\ last \in Wat!Days /\ first >= day - Window
    BY <1>2, <1>5, <2>3, <2>4
  <2>6. /\ \A k \in i .. j : s[k] \in Wat!Analysed(e, first, last)
        /\ \A d \in Wat!Analysed(e, first, last) : \E k \in i .. j : d = s[k]
    <3>1. Wat!Analysed(e, first, last) = {d \in S : first <= d /\ d <= last}
      BY <1>14, <2>5
    <3>2. \A k \in 1 .. N : k \in i .. j <=> first <= s[k] /\ s[k] <= last
      BY <1>18, <2>3, <2>4
    <3>3. \A k \in i .. j : k \in 1 .. N
      BY <2>3
    <3>4. \A k \in i .. j : s[k] \in Wat!Analysed(e, first, last)
      BY <1>5, <3>1, <3>2, <3>3
    <3>5. \A d \in Wat!Analysed(e, first, last) : \E k \in i .. j : d = s[k]
      BY <1>5, <3>1, <3>2
    <3>6. QED
      BY <3>4, <3>5
  <2>7. Cardinality(Wat!Analysed(e, first, last)) = InARow
    <3>1. i \in Nat \ {0} /\ j \in Nat /\ j <= N
      BY <2>3
    <3>2. QED
      BY <1>20, <2>3, <2>6, <3>1 DEF From
  <2>8. first \in Wat!Analysed(e, first, last)
    BY <2>3, <2>4, <2>6
  <2>9. \A d \in Wat!Analysed(e, first, last) : report[e][d] = "negative"
    BY <2>1, <2>2, <2>6
  <2>10. Cardinality(Wat!Analysed(e, first, MaxDays)) <= Looked
    <3>1. Cardinality(Wat!Analysed(e, first, MaxDays)) = j
      BY <1>19, <2>3, <2>4
    <3>2. QED
      BY <1>8, <2>3, <3>1
  <2>11. QED
    BY <2>5, <2>7, <2>8, <2>9, <2>10, WatCounts DEF Wat!Sad
<1>16. ASSUME Wat!Sad(e)
       PROVE  Wat!hasSentimentDrop(v)
  <2>1. PICK first, last \in Wat!Days : 
           /\ first \in Wat!Analysed(e, first, last)
           /\ Cardinality(Wat!Analysed(e, first, last)) = InARow
           /\ \A d \in Wat!Analysed(e, first, last) : report[e][d] = "negative"
           /\ first >= day - Window
           /\ Cardinality(Wat!Analysed(e, first, MaxDays)) <= Looked
    BY <1>16, WatCounts DEF Wat!Sad
  <2>2. Wat!Analysed(e, first, last) = {d \in S : first <= d /\ d <= last}
    BY <1>14, <2>1
  <2>3. first \in S /\ first <= last
    BY <2>1, <2>2
  <2>4. PICK j \in 1 .. N : s[j] = first
    BY <1>5, <2>3
  <2>5. j <= n
    <3>1. j <= Looked
      BY <1>19, <2>1, <2>4
    <3>2. QED
      BY <1>8, <3>1
  <2>6. PICK K : K = {k \in 1 .. j : s[k] <= last}
    OBVIOUS
  <2>7. K \in SUBSET Nat /\ j \in K
    BY <2>3, <2>4, <2>6
  <2>8. PICK p \in K : \A k \in K : p <= k
    BY <2>7, LeastNumber
  <2>9. p \in 1 .. j /\ p \in 1 .. N /\ s[p] <= last
    BY <2>6, <2>8
  <2>10. \A k \in p .. j : k \in 1 .. N
    BY <2>9
  <2>11. \A k \in p .. j : s[k] \in Wat!Analysed(e, first, last)
    <3>1. SUFFICES ASSUME NEW k \in p .. j PROVE s[k] \in Wat!Analysed(e, first, last)
      OBVIOUS
    <3>2. k \in 1 .. N /\ s[k] \in S /\ s[k] \in Int /\ s[p] \in Int /\ last \in Int
      BY <1>5, <2>9, <2>10 DEF Wat!Days
    <3>3. p <= k /\ k <= j
      BY <2>9
    <3>4. s[k] <= s[p] /\ s[j] <= s[k]
      BY <1>18, <2>9, <3>2, <3>3
    <3>5. QED
      BY <2>2, <2>4, <2>9, <3>2, <3>4
  <2>12. \A d \in Wat!Analysed(e, first, last) : \E k \in p .. j : d = s[k]
    <3>1. SUFFICES ASSUME NEW d \in Wat!Analysed(e, first, last) PROVE \E k \in p .. j : d = s[k]
      OBVIOUS
    <3>2. PICK k \in 1 .. N : d = s[k]
      BY <1>5, <2>2, <3>1
    <3>3. k <= j /\ s[k] <= last
      BY <1>18, <2>2, <2>4, <3>1, <3>2
    <3>4. k \in K /\ k \in Nat /\ p \in Nat
      BY <2>6, <2>9, <3>2, <3>3
    <3>5. k \in p .. j
      BY <2>8, <3>3, <3>4
    <3>6. QED
      BY <3>2, <3>5
  <2>13. InARow = j - p + 1
    <3>1. p \in Nat \ {0} /\ j \in Nat /\ j <= N /\ p <= j
      BY <2>9
    <3>2. QED
      BY <1>20, <2>1, <2>11, <2>12, <3>1 DEF From
  <2>14. p \in 1 .. n - InARow + 1 /\ j = p + InARow - 1
    BY <1>8, <2>5, <2>9, <2>13
  <2>15. \A k \in p .. p + InARow - 1 : report[e][s[k]] = "negative"
    BY <2>1, <2>11, <2>14
  <2>16. QED
    BY <1>13, <2>14, <2>15
<1>17. QED
  BY <1>11, <1>15, <1>16

Reported == report \in [Staff -> [Wat!Days -> Wat!Sentiments]]

\* What is asked is about employees.
Asked == \A w \in Workers : work[w].at = "query" => \A m \in work[w].todo : m[1] \in Staff

WatchInv == WatInv /\ Reported /\ Asked

LEMMA ReportsComeIn ==
    ASSUME Moods \subseteq Wat!Sentiments, Reported, [Wat!Next]_Wat!vars
    PROVE  Reported'
<1>1. CASE report' = report
  BY <1>1 DEF Reported
<1>2. ASSUME NEW e \in Staff, Wat!Submit(e)
      PROVE  Reported'
  <2>1. report' = [report EXCEPT ![e][local] = "new"]
    BY <1>2 DEF Wat!Submit
  <2>2. PICK l : l = [report[e] EXCEPT ![local] = "new"]
    OBVIOUS
  <2>3. l \in [Wat!Days -> Wat!Sentiments] /\ report' = [report EXCEPT ![e] = l]
    BY <2>1, <2>2 DEF Reported, Wat!Sentiments
  <2>4. QED
    BY <2>3 DEF Reported
<1>3. ASSUME NEW e \in Staff, NEW d \in Wat!Days, Wat!Analyze(e, d)
      PROVE  Reported'
  <2>1. PICK sentiment \in Moods : report' = [report EXCEPT ![e][d] = sentiment]
    BY <1>3 DEF Wat!Analyze
  <2>2. PICK l : l = [report[e] EXCEPT ![d] = sentiment]
    OBVIOUS
  <2>3. l \in [Wat!Days -> Wat!Sentiments] /\ report' = [report EXCEPT ![e] = l]
    BY <2>1, <2>2 DEF Reported
  <2>4. QED
    BY <2>3 DEF Reported
<1>4. CASE Wat!Next /\ ~(\E e \in Staff : Wat!Submit(e) \/ \E d \in Wat!Days : Wat!Analyze(e, d))
  <2>1. report' = report
    BY <1>4 DEF Wat!Next, Wat!Midnight, Wat!CreateSuggestion, Wat!Review, Wat!Crash, Wat!CreateEmployee,
       Wat!Summaries, Wat!StartSummary, Wat!ReadReports, Wat!CountActiveEmployees, Wat!SaveSummary,
       Wat!SendSummary, Wat!Checks, Wat!StartCheck, Wat!ListEmployees, Wat!Query, Wat!Tell, Wat!Suggest, Wat!rows
  <2>2. QED
    BY <1>1, <2>1
<1>5. CASE UNCHANGED Wat!vars
  BY <1>1, <1>5 DEF Wat!vars, Wat!rows
<1>6. QED
  BY <1>2, <1>3, <1>4, <1>5 DEF Wat!Next

\* A step of a goroutine is its own.
LEMMA StepsAreOnes == \A v \in Workers : Wat!Summaries(v) \/ Wat!Checks(v) => \E r : work' = [work EXCEPT ![v] = r]
<1>1. \A v \in Workers : Wat!Summaries(v) => \E r : work' = [work EXCEPT ![v] = r]
  BY DEF Wat!Does, Wat!Begins, Wat!Summaries, Wat!StartSummary, Wat!ReadReports, Wat!CountActiveEmployees,
     Wat!SaveSummary, Wat!SendSummary
<1>2. \A v \in Workers : Wat!Query(v) => \E r : work' = [work EXCEPT ![v] = r]
  BY DEF Wat!Does, Wat!Query
<1>3. \A v \in Workers : Wat!Checks(v) => \E r : work' = [work EXCEPT ![v] = r]
  BY <1>2 DEF Wat!Does, Wat!Begins, Wat!Checks, Wat!StartCheck, Wat!ListEmployees, Wat!Tell, Wat!Suggest
<1>4. QED
  BY <1>1, <1>3

\* The queries of a goroutine grow by a step of its own, which answers one of them.
LEMMA OnlyAnswersAreAdded ==
    ASSUME WatInv, [Wat!Next]_Wat!vars, NEW w \in Workers, work[w].at = "query", work'[w].at = "query"
    PROVE  Wat!Query(w) \/ (work'[w].results = work[w].results /\ work'[w].todo = work[w].todo)
<1>1. DOMAIN work = Workers
  BY DEF WatInv, WatOK
<1>2. CASE work' = work
  BY <1>2
<1>3. ASSUME NEW v \in Workers, v # w, \E r : work' = [work EXCEPT ![v] = r]
      PROVE  work'[w] = work[w]
  BY <1>1, <1>3
<1>4. \A v \in Workers : Wat!Summaries(v) \/ Wat!Checks(v) => \E r : work' = [work EXCEPT ![v] = r]
  BY StepsAreOnes
<1>5. ~Wat!Summaries(w)
  <2>1. ~Wat!StartSummary(w)
    <3>1. Wat!StartSummary(w) => work[w] = Wat!Idle
      BY DEF Wat!Begins, Wat!StartSummary
    <3>2. QED
      BY <3>1 DEF Wat!Idle
  <2>2. ~Wat!ReadReports(w) /\ ~Wat!CountActiveEmployees(w)
    BY DEF Wat!ReadReports, Wat!CountActiveEmployees
  <2>3. ~Wat!SaveSummary(w) /\ ~Wat!SendSummary(w)
    BY DEF Wat!SaveSummary, Wat!SendSummary
  <2>4. QED
    BY <2>1, <2>2, <2>3 DEF Wat!Summaries
<1>6. ~Wat!StartCheck(w) /\ ~Wat!ListEmployees(w) /\ ~Wat!Suggest(w)
  BY DEF Wat!Begins, Wat!Idle, Wat!StartCheck, Wat!ListEmployees, Wat!Suggest
<1>7. ~Wat!Tell(w)
  <2>1. SUFFICES ASSUME Wat!Tell(w) PROVE FALSE
    OBVIOUS
  <2>2. /\ work[w] = [at |-> work[w].at, by |-> work[w].by, todo |-> work[w].todo, results |-> work[w].results]
    BY DEF WatInv, WatOK, Shaped, Summing, Wat!Idle
  <2>3. work'[w] = Wat!Idle \/ \E todo : work'[w] = [work[w] EXCEPT !.at = "suggest", !.todo = todo]
    BY <1>1, <2>1 DEF Wat!Tell, Wat!Does
  <2>4. CASE work'[w] = Wat!Idle
    BY <2>4 DEF Wat!Idle
  <2>5. ASSUME NEW todo, work'[w] = [work[w] EXCEPT !.at = "suggest", !.todo = todo]
        PROVE  FALSE
    BY <2>2, <2>5
  <2>6. QED
    BY <2>3, <2>4, <2>5
<1>8. ~Wat!Crash
  BY DEF Wat!Crash, Wat!Idle
<1>9. QED
  BY <1>2, <1>3, <1>4, <1>5, <1>6, <1>7, <1>8
     DEF Wat!Next, Wat!Checks, Wat!Midnight, Wat!CreateSuggestion, Wat!Review, Wat!CreateEmployee, Wat!Submit,
         Wat!Analyze, Wat!vars

\* A query is answered with what is found of an employee that was listed.
LEMMA Answers ==
    ASSUME WatInv, NEW w \in Workers, Wat!Query(w)
    PROVE  /\ work'[w].todo \subseteq work[w].todo /\ work'[w].at = "query"
           /\ \E m \in work[w].todo :
                 \A r \in work'[w].results : r \notin work[w].results /\ r.answered =>
                    r.who = m[1] /\ r.query = m[2] /\ r.found = Wat!Found(m[1], m[2])
<1>1. DOMAIN work = Workers /\ work[w].at = "query"
  BY DEF WatInv, WatOK, Wat!Query
<1>2. work[w] = [at |-> work[w].at, by |-> work[w].by, todo |-> work[w].todo, results |-> work[w].results]
  BY <1>1 DEF WatInv, WatOK, Shaped, Summing, Wat!Idle
<1>3. PICK m \in work[w].todo : \E ok \in BOOLEAN :
         LET result(n) == [who |-> m[1], query |-> m[2], found |-> n, answered |-> ok]
         IN  work' = [work EXCEPT ![w] = [work[w] EXCEPT !.todo = work[w].todo \ {m}, !.results =
                IF ok THEN work[w].results \cup {result(Wat!Found(m[1], m[2]))}
                ELSE IF m[2] = "days" THEN work[w].results \cup {result(0)} ELSE work[w].results]]
  BY DEF Wat!Query, Wat!Does
<1>4. PICK ok \in BOOLEAN :
         work' = [work EXCEPT ![w] = [work[w] EXCEPT !.todo = work[w].todo \ {m}, !.results =
            IF ok THEN work[w].results \cup
                  {[who |-> m[1], query |-> m[2], found |-> Wat!Found(m[1], m[2]), answered |-> ok]}
            ELSE IF m[2] = "days" THEN work[w].results \cup
                  {[who |-> m[1], query |-> m[2], found |-> 0, answered |-> ok]}
            ELSE work[w].results]]
  BY <1>3
<1>5. PICK results :
         /\ work' = [work EXCEPT ![w] = [work[w] EXCEPT !.todo = work[w].todo \ {m}, !.results = results]]
         /\ results = IF ok THEN work[w].results \cup
                        {[who |-> m[1], query |-> m[2], found |-> Wat!Found(m[1], m[2]), answered |-> ok]}
                      ELSE IF m[2] = "days" THEN work[w].results \cup
                        {[who |-> m[1], query |-> m[2], found |-> 0, answered |-> ok]}
                      ELSE work[w].results
  BY <1>4
<1>6. work'[w].todo = work[w].todo \ {m} /\ work'[w].results = results /\ work'[w].at = "query"
  BY <1>1, <1>2, <1>5
<1>7. ASSUME NEW r \in results, r \notin work[w].results, r.answered
      PROVE  r.who = m[1] /\ r.query = m[2] /\ r.found = Wat!Found(m[1], m[2])
  <2>1. CASE ok = TRUE
    <3>1. r = [who |-> m[1], query |-> m[2], found |-> Wat!Found(m[1], m[2]), answered |-> ok]
      BY <1>5, <1>7, <2>1
    <3>2. QED
      BY <3>1
  <2>2. CASE ok = FALSE
    <3>1. r = [who |-> m[1], query |-> m[2], found |-> 0, answered |-> ok]
      BY <1>5, <1>7, <2>2
    <3>2. QED
      BY <1>7, <2>2, <3>1
  <2>3. QED
    BY <2>1, <2>2
<1>8. QED
  BY <1>6, <1>7

\* Employees are asked about once they are listed.
LEMMA OthersDoNotAsk ==
    ASSUME WatInv, [Wat!Next]_Wat!vars, NEW w \in Workers, work[w].at # "query", work'[w].at = "query"
    PROVE  Wat!ListEmployees(w)
<1>1. DOMAIN work = Workers
  BY DEF WatInv, WatOK
<1>2. ~(work'[w] = work[w])
  OBVIOUS
<1>3. ~Wat!Crash
  BY DEF Wat!Crash, Wat!Idle
<1>4. ASSUME NEW v \in Workers, Wat!Summaries(v) \/ Wat!Checks(v)
      PROVE  v = w
  <2>1. \E r : work' = [work EXCEPT ![v] = r]
    BY <1>4, StepsAreOnes
  <2>2. QED
    BY <1>1, <1>2, <2>1
<1>5. Wat!Summaries(w) \/ Wat!Checks(w)
  BY <1>2, <1>3, <1>4
     DEF Wat!Next, Wat!Midnight, Wat!CreateSuggestion, Wat!Review, Wat!CreateEmployee, Wat!Submit,
         Wat!Analyze, Wat!vars
<1>6. /\ Shaped(work[w])
  BY DEF WatInv, WatOK
<1>7. CASE Wat!Summaries(w)
  <2>1. CASE Wat!StartSummary(w)
    <3>1. PICK by, d : work' = [work EXCEPT ![w] = [at |-> "reports", by |-> by, date |-> d, reports |-> {}, staff |-> 0]]
      BY <2>1 DEF Wat!StartSummary, Wat!Begins, Wat!Does
    <3>2. QED
      BY <1>1, <3>1
  <2>2. CASE Wat!ReadReports(w)
    <3>1. PICK x, r : /\ work' = [work EXCEPT ![w] = r] /\ work[w].at = "reports"
                      /\ r = [work[w] EXCEPT !.at = "count", !.reports = x] \/ r = Wat!Idle
      BY <2>2 DEF Wat!ReadReports, Wat!Does
    <3>2. r = Wat!Idle \/ r.at = "count"
      BY <1>6, <3>1 DEF Wat!Idle, Shaped, Checking
    <3>3. r.at # "query"
      BY <3>2 DEF Wat!Idle
    <3>4. QED
      BY <1>1, <3>1, <3>3
  <2>3. CASE Wat!CountActiveEmployees(w)
    <3>1. PICK x, r : /\ work' = [work EXCEPT ![w] = r] /\ work[w].at = "count"
                      /\ r = [work[w] EXCEPT !.at = "save", !.staff = x] \/ r = Wat!Idle
      BY <2>3 DEF Wat!CountActiveEmployees, Wat!Does
    <3>2. r = Wat!Idle \/ r.at = "save"
      BY <1>6, <3>1 DEF Wat!Idle, Shaped, Checking
    <3>3. r.at # "query"
      BY <3>2 DEF Wat!Idle
    <3>4. QED
      BY <1>1, <3>1, <3>3
  <2>4. CASE Wat!SaveSummary(w)
    <3>1. PICK r : /\ work' = [work EXCEPT ![w] = r] /\ work[w].at = "save"
                   /\ r = [work[w] EXCEPT !.at = "send"]
      BY <2>4 DEF Wat!SaveSummary, Wat!Does
    <3>2. r.at # "query"
      BY <1>6, <3>1 DEF Wat!Idle, Shaped, Checking
    <3>3. QED
      BY <1>1, <3>1, <3>2
  <2>5. CASE Wat!SendSummary(w)
    <3>1. PICK r : /\ work' = [work EXCEPT ![w] = r]
                   /\ r = Wat!Check("triggers") \/ r = Wat!Idle
      BY <2>5 DEF Wat!SendSummary, Wat!Does
    <3>2. r.at # "query"
      BY <3>1 DEF Wat!Idle, Wat!Check
    <3>3. QED
      BY <1>1, <3>1, <3>2
  <2>6. QED
    BY <1>7, <2>1, <2>2, <2>3, <2>4, <2>5 DEF Wat!Summaries
<1>8. CASE Wat!StartCheck(w)
  <2>1. PICK by : work' = [work EXCEPT ![w] = Wat!Check(by)]
    BY <1>8 DEF Wat!StartCheck, Wat!Begins, Wat!Does
  <2>2. QED
    BY <1>1, <2>1 DEF Wat!Check
<1>9. CASE Wat!Suggest(w)
  <2>1. work[w].at = "suggest"
    BY <1>9 DEF Wat!Suggest
  <2>2. PICK todo, r : work' = [work EXCEPT ![w] = r] /\ (r = Wat!Idle \/ r = [work[w] EXCEPT !.todo = todo])
    BY <1>9 DEF Wat!Suggest, Wat!Does
  <2>3. r.at # "query"
    BY <1>6, <2>1, <2>2 DEF Wat!Idle, Shaped, Summing
  <2>4. QED
    BY <1>1, <2>2, <2>3
<1>10. ~Wat!Query(w) /\ ~Wat!Tell(w)
  BY DEF Wat!Query, Wat!Tell
<1>11. QED
  BY <1>5, <1>7, <1>8, <1>9, <1>10 DEF Wat!Checks

LEMMA WatchKeeps ==
    ASSUME MaxDays \in Nat, Moods \subseteq {"negative", "other"}, WatchInv, [Wat!Next]_Wat!vars
    PROVE  WatchInv'
<1>1. WatInv'
  BY WatSummaries, WatChecks, WatElse DEF WatchInv, Wat!Next
<1>2. Reported'
  <2>1. Moods \subseteq Wat!Sentiments
    BY DEF Wat!Sentiments
  <2>2. QED
    BY <2>1, ReportsComeIn DEF WatchInv
<1>3. ASSUME NEW w \in Workers, work'[w].at = "query", NEW m \in work'[w].todo
      PROVE  m[1] \in Staff
  <2>1. CASE work[w].at = "query"
    <3>1. work'[w].todo \subseteq work[w].todo
      BY <1>3, <2>1, Answers, OnlyAnswersAreAdded DEF WatchInv
    <3>2. QED
      BY <1>3, <2>1, <3>1 DEF WatchInv, Asked
  <2>2. CASE work[w].at # "query"
    <3>1. Wat!ListEmployees(w)
      BY <1>3, <2>2, OthersDoNotAsk DEF WatchInv
    <3>2. work[w].at = "list" /\ work[w] = [at |-> work[w].at, by |-> work[w].by, todo |-> work[w].todo,
                                           results |-> work[w].results]
      BY <3>1 DEF WatchInv, WatInv, WatOK, Shaped, Summing, Wat!Idle, Wat!ListEmployees
    <3>3. \/ work'[w] = Wat!Idle
          \/ work'[w] = [work[w] EXCEPT !.at = "query", !.todo = Wat!ListActiveEmployees \X Wat!Queries[work[w].by]]
      BY <3>1 DEF WatchInv, WatInv, WatOK, Wat!ListEmployees, Wat!Does
    <3>4. work'[w].todo = Wat!ListActiveEmployees \X Wat!Queries[work[w].by]
      <4>1. work'[w] # Wat!Idle
        BY <1>3 DEF Wat!Idle
      <4>2. PICK todo : todo = Wat!ListActiveEmployees \X Wat!Queries[work[w].by]
        OBVIOUS
      <4>3. work'[w] = [work[w] EXCEPT !.at = "query", !.todo = todo]
        BY <3>3, <4>1, <4>2
      <4>4. QED
        BY <3>2, <4>2, <4>3
    <3>5. QED
      BY <1>3, <3>4 DEF Wat!ListActiveEmployees
  <2>3. QED
    BY <2>1, <2>2
<1>4. Asked'
  BY <1>3 DEF Asked
<1>5. QED
  BY <1>1, <1>2, <1>4 DEF WatchInv

\* When a goroutine is told what is missed, it is so, and when it is told a mood, too.
LEMMA AnswersAreTrue ==
    ASSUME MaxDays \in Nat, Window \in Nat, Looked \in Nat, InARow \in Nat \ {0},
           WatchInv, [Wat!Next]_Wat!vars
    PROVE  Wat!AlertsAreTrue
<1>1. SUFFICES ASSUME NEW w \in Workers, work[w].at = "query", work'[w].at = "query",
                      NEW r \in work'[w].results, r \notin work[w].results, r.answered
               PROVE  /\ r.query = "missed" => r.found = Wat!MissedWithoutBreak(r.who)
                      /\ r.query = "mood" => (Wat!Fires(r) <=> Wat!Sad(r.who))
  BY DEF Wat!AlertsAreTrue, Wat!Added
<1>2. Wat!Query(w)
  BY <1>1, OnlyAnswersAreAdded DEF WatchInv
<1>3. PICK m \in work[w].todo : r.who = m[1] /\ r.query = m[2] /\ r.found = Wat!Found(m[1], m[2])
  BY <1>1, <1>2, Answers DEF WatchInv
<1>4. r.who \in Staff /\ day \in Wat!Days /\ \A d \in Wat!Days : report[r.who][d] \in Wat!Sentiments
  BY <1>1, <1>3 DEF WatchInv, Asked, Reported, WatInv, WatOK
<1>5. ASSUME r.query = "missed"
      PROVE  r.found = Wat!MissedWithoutBreak(r.who)
  <2>1. r.found = Wat!GetConsecutiveMissDays(r.who)
    BY <1>3, <1>5 DEF Wat!Found
  <2>2. QED
    BY <1>4, <2>1, MissedAreCounted
<1>6. ASSUME r.query = "mood"
      PROVE  Wat!Fires(r) <=> Wat!Sad(r.who)
  <2>1. r.found = IF Wat!hasSentimentDrop(Wat!GetRecentSentiments(r.who)) THEN 1 ELSE 0
    BY <1>3, <1>6 DEF Wat!Found
  <2>2. Wat!Fires(r) <=> r.found >= 1
    BY <1>6 DEF Wat!Fires, Wat!Threshold
  <2>3. Wat!hasSentimentDrop(Wat!GetRecentSentiments(r.who)) <=> Wat!Sad(r.who)
    BY <1>4, MoodIsRight
  <2>4. QED
    BY <2>1, <2>2, <2>3
<1>7. QED
  BY <1>5, <1>6

\* What is found of an employee's reports is so when it is read: the days missed in a
\* row are those up to yesterday, and as many, and negative reports in a row are found
\* if there were, and only then.
THEOREM AlertsAreRight ==
    ASSUME MaxDays \in Nat \ {0}, Window \in Nat, Looked \in Nat, InARow \in Nat \ {0},
           Moods \subseteq {"negative", "other"}
    PROVE  Wat!Spec => [][Wat!AlertsAreTrue]_Wat!vars
<1>1. Wat!Init => WatchInv
  <2>1. SUFFICES ASSUME Wat!Init PROVE WatchInv
    OBVIOUS
  <2>2. WatInv
    BY <2>1, WatBegins
  <2>3. Reported /\ Asked
    BY <2>1 DEF Wat!Init, Reported, Asked, Wat!Sentiments, Wat!Idle
  <2>4. QED
    BY <2>2, <2>3 DEF WatchInv
<1>2. WatchInv /\ [Wat!Next]_Wat!vars => WatchInv' /\ Wat!AlertsAreTrue
  BY WatchKeeps, AnswersAreTrue
<1>3. QED
  BY <1>1, <1>2, PTL DEF Wat!Spec

=============================================================================
