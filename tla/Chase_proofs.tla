---------------------------- MODULE Chase_proofs ----------------------------
(***************************************************************************)
(* Proofs about Chase: for any number of employees and of chases that run  *)
(* at the same time, any escalation, and with every fault switched on or   *)
(* off unless a theorem says otherwise.                                    *)
(***************************************************************************)
EXTENDS Chase, WellFoundedInduction, TLAPS

-----------------------------------------------------------------------------
(* The last logged step                                                    *)

\* A finite set of steps has a greatest element: MAX(step) is defined.
LEMMA GreatestStep ==
    ASSUME NEW top \in Nat, NEW S \in SUBSET (0..top), S # {}
    PROVE  \E n \in S : \A m \in S : m <= n
<1> DEFINE U == {k \in Nat : \A m \in S : m <= k}
<1>1. U \subseteq Nat /\ U # {}
  <2>1. top \in U
    OBVIOUS
  <2>2. QED
    BY <2>1
<1>2. PICK n \in U : \A k \in U : ~ (<<k, n>> \in OpToRel(<, Nat))
  <2> HIDE DEF U
  <2>1. QED
    BY <1>1, WFMin, NatLessThanWellFounded, Zenon
<1>3. \A k \in U : ~ (k < n)
  <2> HIDE DEF U
  <2>1. QED
    BY <1>1, <1>2, Zenon DEF OpToRel
<1>4. n \in Nat /\ \A m \in S : m <= n
  OBVIOUS
<1>5. n \in S
  <2>1. CASE n = 0
    <3>1. PICK m \in S : TRUE
      OBVIOUS
    <3>2. m \in Nat /\ m <= n
      BY <1>4
    <3>3. QED
      BY <2>1, <3>2
  <2>2. CASE n # 0
    <3>1. n - 1 \in Nat /\ n - 1 < n
      BY <2>2, <1>4
    <3>2. n - 1 \notin U
      <4> HIDE DEF U
      <4>1. QED
        BY <3>1, <1>3
    <3>3. PICK m \in S : ~ (m <= n - 1)
      BY <3>1, <3>2
    <3>4. m = n
      BY <3>1, <3>3, <1>4
    <3>5. QED
      BY <3>3, <3>4
  <2>3. QED
    BY <2>1, <2>2
<1>6. QED
  BY <1>4, <1>5

LEMMA StepsType == Steps \subseteq Nat \ {0} /\ Len(Escalation) \in Nat
                   /\ Steps = 1..Len(Escalation)
BY EscalationAssumption DEF Steps

\* The step a run chooses follows the greatest logged one.
LEMMA LastStepIsMax ==
    ASSUME NEW e \in Employees
    PROVE  /\ LastStep(e) \in LoggedSteps(e) \cup {0}
           /\ \A m \in LoggedSteps(e) : m <= LastStep(e)
           /\ LastStep(e) + 1 \notin LoggedSteps(e)
<1>1. PICK top \in Nat : Steps = 1..top
  BY StepsType
<1>2. LoggedSteps(e) \cup {0} \in SUBSET (0..top)
  BY <1>1 DEF LoggedSteps
<1>3. \E n \in LoggedSteps(e) \cup {0} : \A m \in LoggedSteps(e) \cup {0} : m <= n
  BY <1>2, GreatestStep, LoggedSteps(e) \cup {0} # {}
<1>4. \E n \in LoggedSteps(e) \cup {0} : \A m \in LoggedSteps(e) : m <= n
  BY <1>3
<1>5. /\ LastStep(e) \in LoggedSteps(e) \cup {0}
      /\ \A m \in LoggedSteps(e) : m <= LastStep(e)
  BY <1>4 DEF LastStep
<1>6. QED
  BY <1>2, <1>5

\* A step that is not skipped is a step of the escalation.
LEMMA EffectiveStep ==
    ASSUME NEW e, NEW n, Effective(e, n) # "skip_today"
    PROVE  n \in Steps
BY DEF Effective

-----------------------------------------------------------------------------
(* Types                                                                   *)

\* Changing the record of one run.
LEMMA RunAtType ==
    ASSUME NEW loc \in {"idle", "next", "send", "log", "named"},
           NEW k \in Callers \cup {"none", "api"},
           NEW t \in SUBSET Employees, NEW e \in Employees \cup {Nil},
           NEW n \in Steps \cup {0},
           NEW l \in SUBSET Employees, NEW d \in SUBSET Employees
    PROVE  RunAt(loc, k, t, e, n, l, d) \in RunStates
BY DEF RunAt, RunStates

LEMMA NoRunType == NoRun \in RunStates
BY StepsType DEF NoRun, RunAt, RunStates

LEMMA StartType ==
    ASSUME TypeOK, NEW r \in Runs, NEW next \in RunStates, StartRun(r, next)
    PROVE  /\ run' \in [Runs -> RunStates]
           /\ starts' \in 0..MaxStarts
           /\ trigger' \in 0..(MaxHour + 1)
BY BoundsAssumption DEF TypeOK, StartRun

\* The fields of a run that is somewhere in its loop.
LEMMA RunFields ==
    ASSUME TypeOK, NEW r \in Runs
    PROVE  /\ run[r].kind \in Callers \cup {"none", "api"}
           /\ run[r].todo \in SUBSET Employees
           /\ run[r].emp \in Employees \cup {Nil}
           /\ run[r].step \in Steps \cup {0}
           /\ run[r].listed \in SUBSET Employees
           /\ run[r].reached \in SUBSET Employees
BY DEF TypeOK, RunStates

\* A run that sends or logs has an employee and a step of the escalation.
Busy ==
    \A r \in Runs :
        /\ run[r].pc \in {"send", "log", "named"} => run[r].emp \in Employees
        /\ run[r].pc \in {"send", "log"} => run[r].step \in Steps

TypeInv == TypeOK /\ Busy

LEMMA TypeInit == Init => TypeInv
BY NoRunType, BoundsAssumption DEF Init, TypeInv, TypeOK, Busy, NoRun, RunAt

LEMMA TypeNext == TypeInv /\ [Next]_vars => TypeInv'
<1> SUFFICES ASSUME TypeInv, [Next]_vars PROVE TypeInv'
  OBVIOUS
<1> USE DEF TypeInv
<1>1. ASSUME NEW r \in Runs, NEW k \in Callers, List(r, k)
      PROVE  TypeInv'
  <2>1. RunAt("next", k, WithoutReport, Nil, 0, WithoutReport, {}) \in RunStates
    BY RunAtType DEF WithoutReport
  <2>2. StartRun(r, RunAt("next", k, WithoutReport, Nil, 0, WithoutReport, {}))
    BY <1>1 DEF List
  <2>3. TypeOK'
    BY <1>1, <2>1, <2>2, StartType DEF List, TypeOK
  <2>4. Busy'
    BY <1>1, <2>2 DEF StartRun, RunAt, Busy, TypeOK
  <2>5. QED
    BY <2>3, <2>4
<1>2. ASSUME NEW r \in Runs, NEW e \in Employees, GetStep(r, e)
      PROVE  TypeInv'
  <2> DEFINE n == LastStep(e) + 1
  <2>1. CASE /\ Effective(e, n) # "skip_today"
             /\ run' = [run EXCEPT ![r] = TakeNext(r, "send", e, n)]
    <3>1. n \in Steps
      BY <2>1, EffectiveStep
    <3> HIDE DEF n
    <3>2. TakeNext(r, "send", e, n) \in RunStates
      BY <3>1, RunFields, RunAtType DEF TakeNext
    <3>3. TypeOK'
      BY <1>2, <2>1, <3>2 DEF GetStep, TypeOK, history
    <3>4. Busy'
      BY <2>1, <3>1 DEF TakeNext, RunAt, Busy, TypeOK
    <3>5. QED
      BY <3>3, <3>4
  <2>2. CASE run' = [run EXCEPT ![r] = TakeNext(r, "next", e, 0)]
    <3>1. TakeNext(r, "next", e, 0) \in RunStates
      BY RunFields, RunAtType DEF TakeNext
    <3>2. TypeOK'
      BY <1>2, <2>2, <3>1 DEF GetStep, TypeOK, history
    <3>3. Busy'
      BY <2>2 DEF TakeNext, RunAt, Busy, TypeOK
    <3>4. QED
      BY <3>2, <3>3
  <2>3. QED
    BY <1>2, <2>1, <2>2 DEF GetStep
<1>3. ASSUME NEW r \in Runs, Send(r)
      PROVE  TypeInv'
  <2> DEFINE e == run[r].emp  n == run[r].step
  <2>1. e \in Employees /\ n \in Steps
    BY <1>3 DEF Send, Busy
  <2>2. CASE /\ Sent(r, e, n)
             /\ run' = [run EXCEPT ![r] = RunAt("log", run[r].kind, run[r].todo,
                                e, n, run[r].listed, run[r].reached \cup {e})]
             /\ UNCHANGED failed
    <3>1. RunAt("log", run[r].kind, run[r].todo, e, n, run[r].listed,
                run[r].reached \cup {e}) \in RunStates
      BY <2>1, RunFields, RunAtType
    <3>2. sent' \in [Runs \X Employees \X Steps -> Nat]
      BY <2>1, <2>2 DEF Sent, TypeOK
    <3> HIDE DEF e, n
    <3>3. TypeOK'
      BY <1>3, <2>2, <3>1, <3>2 DEF Send, TypeOK
    <3>4. Busy'
      BY <2>1, <2>2 DEF RunAt, Busy, TypeOK
    <3>5. QED
      BY <3>3, <3>4
  <2>3. CASE /\ run' = [run EXCEPT ![r] = At(r, "next", e, 0)]
             /\ failed' = failed \cup {<<e, n>>}
             /\ UNCHANGED sent
    <3>1. At(r, "next", e, 0) \in RunStates
      BY <2>1, RunFields, RunAtType DEF At
    <3> HIDE DEF e, n
    <3>2. TypeOK'
      BY <1>3, <2>1, <2>3, <3>1 DEF Send, TypeOK
    <3>3. Busy'
      BY <2>3 DEF At, RunAt, Busy, TypeOK
    <3>4. QED
      BY <3>2, <3>3
  <2>4. QED
    BY <1>3, <2>2, <2>3 DEF Send
<1>4. ASSUME NEW r \in Runs, Log(r)
      PROVE  TypeInv'
  <2>1. run[r].emp \in Employees /\ run[r].step \in Steps
    BY <1>4 DEF Log, Busy
  <2>2. At(r, "next", run[r].emp, 0) \in RunStates
    BY <2>1, RunFields, RunAtType DEF At
  <2>3. TypeOK'
    BY <1>4, <2>1, <2>2 DEF Log, TypeOK, history
  <2>4. Busy'
    BY <1>4 DEF Log, At, RunAt, Busy, TypeOK
  <2>5. QED
    BY <2>3, <2>4
<1>5. ASSUME NEW r \in Runs, Finish(r)
      PROVE  TypeInv'
  <2>1. PICK c \in SUBSET Employees :
            claims' = claims \cup {[claimed |-> c, reached |-> run[r].reached]}
    BY <1>5, RunFields DEF Finish, WithoutReport
  <2>2. TypeOK'
    BY <1>5, <2>1, NoRunType, RunFields DEF Finish, TypeOK
  <2>3. Busy'
    BY <1>5 DEF Finish, NoRun, RunAt, Busy, TypeOK
  <2>4. QED
    BY <2>2, <2>3
<1>6. ASSUME NEW r \in Runs, NEW e \in Employees, NamedCount(r, e)
      PROVE  TypeInv'
  <2>1. RunAt("named", "api", {}, e, 0, {}, {}) \in RunStates
    BY RunAtType
  <2>2. TypeOK'
    BY <1>6, <2>1, StartType DEF NamedCount, TypeOK
  <2>3. Busy'
    BY <1>6 DEF NamedCount, StartRun, RunAt, Busy, TypeOK
  <2>4. QED
    BY <2>2, <2>3
<1>7. ASSUME NEW r \in Runs, NamedSend(r)
      PROVE  TypeInv'
  <2>1. run[r].emp \in Employees
    BY <1>7 DEF NamedSend, Busy
  <2>2. Busy'
    BY <1>7 DEF NamedSend, NoRun, RunAt, Busy, TypeOK
  <2>3. QED
    BY <1>7, <2>1, <2>2, NoRunType DEF NamedSend, TypeOK
<1>8. ASSUME Crash
      PROVE  TypeInv'
  BY <1>8, NoRunType DEF Crash, TypeOK, Busy, NoRun, RunAt, history
<1>9. ASSUME NEW e \in Employees, Submit(e)
      PROVE  TypeInv'
  BY <1>9 DEF Submit, TypeOK, Busy, history
<1>10. CASE Tick
  BY <1>10, BoundsAssumption DEF Tick, TypeOK, Busy, history
<1>11. CASE UNCHANGED vars
  BY <1>11 DEF vars, TypeOK, Busy
<1>12. QED
  BY <1>1, <1>2, <1>3, <1>4, <1>5, <1>6, <1>7, <1>8, <1>9, <1>10, <1>11
     DEF Next, RunStep

\* Every variable of the chase always holds a value of its type.
THEOREM ChaseTypeCorrect == Spec => []TypeOK
<1>1. TypeInv => TypeOK
  BY DEF TypeInv
<1>2. QED
  BY TypeInit, TypeNext, <1>1, PTL DEF Spec

-----------------------------------------------------------------------------
(* The steps of the escalation are taken in order                          *)

\* A run that sends or logs a step has all earlier ones behind it.
EarlierLogged ==
    \A r \in Runs : run[r].pc \in {"send", "log"} =>
        1..(run[r].step - 1) \subseteq LoggedSteps(run[r].emp)

OrderInv == StepsInOrder /\ EarlierLogged

\* Rows of chase_logs are never removed.
LEMMA LogGrows == TypeInv /\ [Next]_vars => logged \subseteq logged'
BY DEF Next, RunStep, List, GetStep, Send, Log, Finish, NamedCount, NamedSend,
       Submit, Tick, Crash, vars, history

LEMMA OrderInit == Init => OrderInv
BY DEF Init, OrderInv, StepsInOrder, EarlierLogged, LoggedSteps, NoRun, RunAt

LEMMA OrderNext == TypeInv /\ OrderInv /\ [Next]_vars => OrderInv'
<1> SUFFICES ASSUME TypeInv, OrderInv, [Next]_vars PROVE OrderInv'
  OBVIOUS
<1> USE StepsType DEF TypeInv, OrderInv
<1>1. \A e \in Employees : LoggedSteps(e) \subseteq LoggedSteps(e)'
  BY LogGrows DEF LoggedSteps
\* Runs that stay where they are keep their earlier steps.
<1>2. ASSUME NEW r \in Runs,
             \A q \in Runs \ {r} : run'[q] = run[q],
             run'[r].pc \in {"send", "log"} =>
                 (1..(run[r].step - 1) \subseteq LoggedSteps(run[r].emp))'
      PROVE  EarlierLogged'
  <2>1. ASSUME NEW q \in Runs, q # r, run'[q].pc \in {"send", "log"}
        PROVE  (1..(run[q].step - 1) \subseteq LoggedSteps(run[q].emp))'
    <3>1. run'[q] = run[q] /\ run[q].emp \in Employees
      BY <1>2, <2>1 DEF Busy
    <3>2. 1..(run[q].step - 1) \subseteq LoggedSteps(run[q].emp)
      BY <2>1, <3>1 DEF EarlierLogged
    <3>3. QED
      BY <3>1, <3>2, <1>1
  <2>2. QED
    BY <1>2, <2>1 DEF EarlierLogged
<1>3. ASSUME UNCHANGED logged PROVE StepsInOrder'
  BY <1>3 DEF StepsInOrder, LoggedSteps
<1>4. ASSUME NEW r \in Runs, NEW k \in Callers, List(r, k)
      PROVE  OrderInv'
  <2>1. UNCHANGED logged /\ run'[r].pc = "next"
        /\ \A q \in Runs \ {r} : run'[q] = run[q]
    BY <1>4 DEF List, StartRun, RunAt, TypeOK
  <2>2. QED
    BY <1>2, <1>3, <2>1
<1>5. ASSUME NEW r \in Runs, NEW e \in Employees, GetStep(r, e)
      PROVE  OrderInv'
  <2> DEFINE n == LastStep(e) + 1
  <2>1. UNCHANGED logged /\ \A q \in Runs \ {r} : run'[q] = run[q]
    BY <1>5 DEF GetStep, TypeOK, history
  <2>2. CASE run' = [run EXCEPT ![r] = TakeNext(r, "next", e, 0)]
    <3>1. run'[r].pc = "next"
      BY <2>2 DEF TakeNext, RunAt, TypeOK
    <3>2. QED
      BY <1>2, <1>3, <2>1, <3>1
  <2>3. CASE run' = [run EXCEPT ![r] = TakeNext(r, "send", e, n)]
    <3>1. 1..LastStep(e) \subseteq LoggedSteps(e)
      BY LastStepIsMax DEF StepsInOrder
    <3>2. LastStep(e) \in Nat
      <4>1. LoggedSteps(e) \subseteq Steps
        BY DEF LoggedSteps
      <4>2. QED
        BY <4>1, LastStepIsMax
    <3>3. run'[r].emp = e /\ run'[r].step = n
      BY <2>3 DEF TakeNext, RunAt, TypeOK
    <3>4. (1..(run[r].step - 1) \subseteq LoggedSteps(run[r].emp))'
      BY <3>1, <3>2, <3>3, <1>1
    <3>5. QED
      BY <1>2, <1>3, <2>1, <3>3, <3>4
  <2>4. QED
    BY <1>5, <2>2, <2>3 DEF GetStep
<1>6. ASSUME NEW r \in Runs, Send(r)
      PROVE  OrderInv'
  <2>1. UNCHANGED logged /\ \A q \in Runs \ {r} : run'[q] = run[q]
    BY <1>6 DEF Send, TypeOK
  <2>2. \/ run'[r].pc = "next"
        \/ (run'[r].emp = run[r].emp /\ run'[r].step = run[r].step)
    BY <1>6 DEF Send, At, RunAt, TypeOK
  <2>3. /\ 1..(run[r].step - 1) \subseteq LoggedSteps(run[r].emp)
        /\ run[r].emp \in Employees
    BY <1>6 DEF Send, EarlierLogged, Busy
  <2>4. QED
    BY <1>1, <1>2, <1>3, <2>1, <2>2, <2>3
<1>7. ASSUME NEW r \in Runs, Log(r)
      PROVE  OrderInv'
  <2>1. run'[r].pc = "next" /\ \A q \in Runs \ {r} : run'[q] = run[q]
    BY <1>7 DEF Log, At, RunAt, TypeOK
  <2>2. PICK e \in Employees, n \in Steps :
            /\ e = run[r].emp /\ n = run[r].step
            /\ 1..(n - 1) \subseteq LoggedSteps(e)
    BY <1>7 DEF Log, Busy, EarlierLogged
  <2>3. logged' \subseteq logged \cup {<<e, n>>}
    BY <1>7, <2>2 DEF Log
  <2>4. ASSUME NEW f \in Employees, NEW m \in LoggedSteps(f)'
        PROVE  1..m \subseteq LoggedSteps(f)'
    <3>1. CASE m \in LoggedSteps(f)
      BY <3>1, <1>1 DEF StepsInOrder
    <3>2. CASE m \notin LoggedSteps(f)
      <4>1. f = e /\ m = n /\ <<e, n>> \in logged'
        BY <2>3, <2>4, <3>2 DEF LoggedSteps
      <4>2. n \in LoggedSteps(e)'
        BY <2>4, <4>1
      <4>3. 1..n \subseteq (1..(n - 1)) \cup {n}
        BY <2>2
      <4>4. QED
        BY <4>1, <4>2, <4>3, <2>2, <1>1
    <3>3. QED
      BY <3>1, <3>2
  <2>5. StepsInOrder'
    BY <2>4 DEF StepsInOrder
  <2>6. QED
    BY <1>2, <2>1, <2>5
<1>8. ASSUME NEW r \in Runs, Finish(r) \/ NamedSend(r)
      PROVE  OrderInv'
  <2>1. UNCHANGED logged /\ run'[r].pc = "idle"
        /\ \A q \in Runs \ {r} : run'[q] = run[q]
    BY <1>8 DEF Finish, NamedSend, NoRun, RunAt, TypeOK
  <2>2. QED
    BY <1>2, <1>3, <2>1
<1>9. ASSUME NEW r \in Runs, NEW e \in Employees, NamedCount(r, e)
      PROVE  OrderInv'
  <2>1. UNCHANGED logged /\ run'[r].pc = "named"
        /\ \A q \in Runs \ {r} : run'[q] = run[q]
    BY <1>9 DEF NamedCount, StartRun, RunAt, TypeOK
  <2>2. QED
    BY <1>2, <1>3, <2>1
<1>10. ASSUME Crash
       PROVE  OrderInv'
  <2>1. EarlierLogged'
    BY <1>10 DEF Crash, EarlierLogged, NoRun, RunAt
  <2>2. QED
    BY <1>3, <1>10, <2>1 DEF Crash
<1>11. ASSUME UNCHANGED <<run, logged>>
       PROVE  OrderInv'
  BY <1>11 DEF StepsInOrder, EarlierLogged, LoggedSteps
<1>12. QED
  BY <1>4, <1>5, <1>6, <1>7, <1>8, <1>9, <1>10, <1>11
     DEF Next, RunStep, Submit, Tick, vars, history

\* Whatever runs overlap, fail or crash, no employee is at a step of the
\* escalation without all earlier ones in the log.
THEOREM ChaseStepsInOrder == Spec => []StepsInOrder
<1>1. OrderInv => StepsInOrder
  BY DEF OrderInv
<1>2. QED
  BY TypeInit, TypeNext, OrderInit, OrderNext, <1>1, PTL DEF Spec

-----------------------------------------------------------------------------
(* Messages and the log                                                    *)

\* Only the sending of a run's own employee and step is counted for it.
LEMMA OnlySendCounts ==
    ASSUME TypeInv, [Next]_vars
    PROVE  /\ \A k \in Runs \X Employees \X Steps : sent'[k] >= sent[k]
           /\ \A r \in Runs, e \in Employees, n \in Steps :
                sent'[<<r, e, n>>] # sent[<<r, e, n>>] =>
                    /\ run[r].pc = "send" /\ run[r].emp = e /\ run[r].step = n
                    /\ sent'[<<r, e, n>>] = sent[<<r, e, n>>] + 1
                    /\ run'[r].pc = "log" /\ run'[r].emp = e /\ run'[r].step = n
<1> USE DEF TypeInv
<1>1. CASE UNCHANGED sent
  BY <1>1 DEF TypeOK
<1>2. ASSUME NEW r \in Runs, Send(r), ~ UNCHANGED sent
      PROVE  /\ Sent(r, run[r].emp, run[r].step)
             /\ run[r].pc = "send"
             /\ run[r].emp \in Employees /\ run[r].step \in Steps
             /\ run'[r].pc = "log" /\ run'[r].emp = run[r].emp
             /\ run'[r].step = run[r].step
  BY <1>2 DEF Send, Busy, RunAt, TypeOK
<1>3. \/ UNCHANGED sent
      \/ \E r \in Runs : Send(r)
  BY DEF Next, RunStep, List, GetStep, Log, Finish, NamedCount, NamedSend,
         Submit, Tick, Crash, vars, history
<1>4. ASSUME NEW q \in Runs, Send(q), ~ UNCHANGED sent
      PROVE  /\ \A k \in Runs \X Employees \X Steps : sent'[k] >= sent[k]
             /\ \A r \in Runs, e \in Employees, n \in Steps :
                  sent'[<<r, e, n>>] # sent[<<r, e, n>>] =>
                    /\ r = q /\ run[r].emp = e /\ run[r].step = n
                    /\ sent'[<<r, e, n>>] = sent[<<r, e, n>>] + 1
  <2>1. PICK j \in Runs \X Employees \X Steps :
            j = <<q, run[q].emp, run[q].step>> /\ sent' = [sent EXCEPT ![j] = @ + 1]
    BY <1>2, <1>4 DEF Sent
  <2>2. \A k \in Runs \X Employees \X Steps :
            /\ sent[k] \in Nat
            /\ sent'[k] = IF k = j THEN sent[k] + 1 ELSE sent[k]
    BY <2>1 DEF TypeOK
  <2>3. QED
    BY <2>1, <2>2
<1>5. QED
  BY <1>1, <1>2, <1>3, <1>4

\* A run about to log has sent the message.
LogCarriesSent ==
    \A r \in Runs : run[r].pc = "log" => sent[<<r, run[r].emp, run[r].step>>] > 0

SentInv == LoggedMeansSent /\ LogCarriesSent

LEMMA SentInit == Init => SentInv
BY DEF Init, SentInv, LoggedMeansSent, LogCarriesSent, NoRun, RunAt

\* Where a run is about to log after a step, and what that step logs.
LEMMA LogOrigin ==
    ASSUME TypeInv, [Next]_vars
    PROVE  /\ \A r \in Runs : run'[r].pc = "log" =>
                 \/ run'[r] = run[r]
                 \/ /\ run[r].pc = "send"
                    /\ run'[r].emp = run[r].emp /\ run'[r].step = run[r].step
                    /\ Sent(r, run[r].emp, run[r].step)
           /\ \A e \in Employees, n \in Steps : <<e, n>> \in logged' =>
                 \/ <<e, n>> \in logged
                 \/ \E r \in Runs : run[r].pc = "log" /\ run[r].emp = e /\ run[r].step = n
<1> USE DEF TypeInv
<1>1. ASSUME NEW r \in Runs, NEW k \in Callers, List(r, k)
      PROVE  UNCHANGED logged /\ \A q \in Runs : run'[q].pc = "log" => run'[q] = run[q]
  BY <1>1 DEF List, StartRun, RunAt, TypeOK
<1>2. ASSUME NEW r \in Runs, NEW e \in Employees, GetStep(r, e)
      PROVE  UNCHANGED logged /\ \A q \in Runs : run'[q].pc = "log" => run'[q] = run[q]
  BY <1>2 DEF GetStep, TakeNext, RunAt, TypeOK, history
<1>3. ASSUME NEW r \in Runs, Send(r)
      PROVE  /\ UNCHANGED logged /\ run[r].pc = "send"
             /\ \A q \in Runs \ {r} : run'[q] = run[q]
             /\ run'[r].pc = "log" =>
                  /\ run'[r].emp = run[r].emp /\ run'[r].step = run[r].step
                  /\ Sent(r, run[r].emp, run[r].step)
  BY <1>3 DEF Send, At, RunAt, TypeOK
<1>4. ASSUME NEW r \in Runs, Log(r)
      PROVE  /\ logged' \subseteq logged \cup {<<run[r].emp, run[r].step>>}
             /\ run[r].pc = "log"
             /\ \A q \in Runs : run'[q].pc = "log" => run'[q] = run[q]
  BY <1>4 DEF Log, At, RunAt, TypeOK
<1>5. ASSUME NEW r \in Runs, Finish(r) \/ NamedSend(r)
      PROVE  UNCHANGED logged /\ \A q \in Runs : run'[q].pc = "log" => run'[q] = run[q]
  BY <1>5 DEF Finish, NamedSend, NoRun, RunAt, TypeOK
<1>6. ASSUME NEW r \in Runs, NEW e \in Employees, NamedCount(r, e)
      PROVE  UNCHANGED logged /\ \A q \in Runs : run'[q].pc = "log" => run'[q] = run[q]
  BY <1>6 DEF NamedCount, StartRun, RunAt, TypeOK
<1>7. ASSUME Crash
      PROVE  UNCHANGED logged /\ \A q \in Runs : run'[q].pc # "log"
  BY <1>7 DEF Crash, NoRun, RunAt
<1>8. ASSUME UNCHANGED <<run, logged>>
      PROVE  UNCHANGED logged /\ \A q \in Runs : run'[q] = run[q]
  BY <1>8
<1>9. QED
  BY <1>1, <1>2, <1>3, <1>4, <1>5, <1>6, <1>7, <1>8
     DEF Next, RunStep, Submit, Tick, vars, history

LEMMA SentNext == TypeInv /\ SentInv /\ [Next]_vars => SentInv'
<1> SUFFICES ASSUME TypeInv, SentInv, [Next]_vars PROVE SentInv'
  OBVIOUS
<1>1. \A r \in Runs, e \in Employees, n \in Steps :
        sent[<<r, e, n>>] > 0 => sent'[<<r, e, n>>] > 0
  BY OnlySendCounts DEF TypeInv, TypeOK
<1>2. LoggedMeansSent'
  <2> SUFFICES ASSUME NEW e \in Employees, NEW n \in Steps, <<e, n>> \in logged'
               PROVE  \E r \in Runs : sent'[<<r, e, n>>] > 0
    BY DEF LoggedMeansSent
  <2>1. \E r \in Runs : sent[<<r, e, n>>] > 0
    BY LogOrigin DEF SentInv, LoggedMeansSent, LogCarriesSent
  <2>2. QED
    BY <2>1, <1>1
<1>3. LogCarriesSent'
  <2> SUFFICES ASSUME NEW r \in Runs, run'[r].pc = "log"
               PROVE  sent'[<<r, run'[r].emp, run'[r].step>>] > 0
    BY DEF LogCarriesSent
  <2>1. CASE run'[r] = run[r]
    <3>1. run[r].emp \in Employees /\ run[r].step \in Steps
      BY <2>1 DEF TypeInv, Busy
    <3>2. QED
      BY <2>1, <3>1, <1>1 DEF SentInv, LogCarriesSent
  <2>2. CASE /\ run[r].pc = "send"
             /\ run'[r].emp = run[r].emp /\ run'[r].step = run[r].step
             /\ Sent(r, run[r].emp, run[r].step)
    <3>1. run[r].emp \in Employees /\ run[r].step \in Steps
      BY <2>2 DEF TypeInv, Busy
    <3>2. QED
      BY <2>2, <3>1 DEF Sent, TypeInv, TypeOK
  <2>3. QED
    BY <2>1, <2>2, LogOrigin
<1>4. QED
  BY <1>2, <1>3 DEF SentInv

\* A row of chase_logs stands for a message that was really sent.
THEOREM ChaseLoggedMeansSent == Spec => []LoggedMeansSent
<1>1. SentInv => LoggedMeansSent
  BY DEF SentInv
<1>2. QED
  BY TypeInit, TypeNext, SentInit, SentNext, <1>1, PTL DEF Spec

-----------------------------------------------------------------------------
(* No run repeats itself                                                   *)

\* What a run has sent is logged, about to be, or its log was lost; hence the
\* run chooses the same step again only in the last case.
SentOnce ==
    \A r \in Runs, e \in Employees, n \in Steps :
        <<e, n>> \notin unlogged =>
            /\ sent[<<r, e, n>>] <= 1
            /\ sent[<<r, e, n>>] = 1 =>
                 \/ <<e, n>> \in logged
                 \/ run[r].pc = "log" /\ run[r].emp = e /\ run[r].step = n
            /\ run[r].pc = "send" /\ run[r].emp = e /\ run[r].step = n
                 => sent[<<r, e, n>>] = 0

LEMMA SentOnceInit == Init => SentOnce
BY DEF Init, SentOnce, NoRun, RunAt

LEMMA SentOnceNext == TypeInv /\ SentOnce /\ [Next]_vars => SentOnce'
<1> SUFFICES ASSUME TypeInv, SentOnce, [Next]_vars,
                    NEW r \in Runs, NEW e \in Employees, NEW n \in Steps,
                    <<e, n>> \notin unlogged'
             PROVE  /\ sent'[<<r, e, n>>] <= 1
                    /\ sent'[<<r, e, n>>] = 1 =>
                         \/ <<e, n>> \in logged'
                         \/ run'[r].pc = "log" /\ run'[r].emp = e /\ run'[r].step = n
                    /\ run'[r].pc = "send" /\ run'[r].emp = e /\ run'[r].step = n
                         => sent'[<<r, e, n>>] = 0
  BY DEF SentOnce
<1> DEFINE At1 == run[r].pc = "log" /\ run[r].emp = e /\ run[r].step = n
\* A run leaves "log" by writing the row or losing it, and comes to "send" by
\* choosing a step that no row has.
<1>1. /\ At1 => \/ <<e, n>> \in logged'
                \/ run'[r].pc = "log" /\ run'[r].emp = e /\ run'[r].step = n
      /\ run'[r].pc = "send" /\ run'[r].emp = e /\ run'[r].step = n =>
           \/ run'[r] = run[r]
           \/ run[r].pc = "next" /\ <<e, n>> \notin logged
      /\ <<e, n>> \notin unlogged
  <2> USE DEF TypeInv
  <2>1. ASSUME NEW q \in Runs, NEW k \in Callers, List(q, k)
        PROVE  <1>1!1 /\ <1>1!2 /\ <1>1!3
    BY <2>1 DEF List, StartRun, RunAt, TypeOK
  <2>2. ASSUME NEW q \in Runs, NEW f \in Employees, GetStep(q, f)
        PROVE  <1>1!1 /\ <1>1!2 /\ <1>1!3
    <3>1. CASE run' = [run EXCEPT ![q] = TakeNext(q, "next", f, 0)]
      BY <2>2, <3>1 DEF GetStep, TakeNext, RunAt, TypeOK, history
    <3>2. CASE run' = [run EXCEPT ![q] = TakeNext(q, "send", f, LastStep(f) + 1)]
      <4>1. <<f, LastStep(f) + 1>> \notin logged \/ LastStep(f) + 1 \notin Steps
        BY LastStepIsMax DEF LoggedSteps
      <4>2. QED
        BY <2>2, <3>2, <4>1 DEF GetStep, TakeNext, RunAt, TypeOK, history
    <3>3. QED
      BY <2>2, <3>1, <3>2 DEF GetStep
  <2>3. ASSUME NEW q \in Runs, Send(q) PROVE <1>1!1 /\ <1>1!2 /\ <1>1!3
    BY <2>3 DEF Send, At, RunAt, TypeOK
  <2>4. ASSUME NEW q \in Runs, Log(q) PROVE <1>1!1 /\ <1>1!2 /\ <1>1!3
    BY <2>4 DEF Log, At, RunAt, TypeOK
  <2>5. ASSUME NEW q \in Runs, Finish(q) \/ NamedSend(q)
        PROVE  <1>1!1 /\ <1>1!2 /\ <1>1!3
    BY <2>5 DEF Finish, NamedSend, NoRun, RunAt, TypeOK
  <2>6. ASSUME NEW q \in Runs, NEW f \in Employees, NamedCount(q, f)
        PROVE  <1>1!1 /\ <1>1!2 /\ <1>1!3
    BY <2>6 DEF NamedCount, StartRun, RunAt, TypeOK
  <2>7. ASSUME UNCHANGED <<run, unlogged>> PROVE <1>1!1 /\ <1>1!2 /\ <1>1!3
    BY <2>7
  <2>8. CASE Crash
    BY <2>8 DEF Crash, NoRun, RunAt, TypeOK
  <2>9. QED
    BY <2>1, <2>2, <2>3, <2>4, <2>5, <2>6, <2>7, <2>8
       DEF Next, RunStep, Submit, Tick, vars, history
<1>2. logged \subseteq logged'
  BY LogGrows
<1>3. sent[<<r, e, n>>] \in Nat
  BY DEF TypeInv, TypeOK
<1>4. CASE sent'[<<r, e, n>>] = sent[<<r, e, n>>]
  <2>1. run[r].pc = "next" /\ <<e, n>> \notin logged => sent[<<r, e, n>>] = 0
    BY <1>1, <1>3 DEF SentOnce
  <2>2. QED
    BY <1>1, <1>2, <1>3, <1>4, <2>1 DEF SentOnce
<1>5. CASE sent'[<<r, e, n>>] # sent[<<r, e, n>>]
  BY <1>1, <1>5, <1>3, OnlySendCounts DEF SentOnce
<1>6. QED
  BY <1>4, <1>5

\* A run sends the same step of a day to an employee twice only after the log
\* of that step was lost: other repetitions come from overlap.
THEOREM ChaseRepeatsOnlyByOverlap == Spec => []RepeatedOnlyByOverlap
<1>1. TypeInv /\ SentOnce => RepeatedOnlyByOverlap
  BY DEF SentOnce, RepeatedOnlyByOverlap, TypeInv, TypeOK
<1>2. TypeInv /\ SentOnce /\ [Next]_vars => SentOnce'
  BY SentOnceNext
<1>3. QED
  BY TypeInit, TypeNext, SentOnceInit, <1>1, <1>2, PTL DEF Spec

\* An employee a run has reached is not on its list any more.
ReachedOnce ==
    \A r \in Runs :
        /\ run[r].reached \cap run[r].todo = {}
        /\ run[r].pc \in {"send", "log"} => run[r].emp \notin run[r].todo
        /\ run[r].pc = "send" => run[r].emp \notin run[r].reached

LEMMA ReachedInit == Init => ReachedOnce
BY DEF Init, ReachedOnce, NoRun, RunAt

LEMMA ReachedNext == TypeInv /\ ReachedOnce /\ [Next]_vars => ReachedOnce'
<1> SUFFICES ASSUME TypeInv, ReachedOnce, [Next]_vars PROVE ReachedOnce'
  OBVIOUS
<1> USE DEF TypeInv, ReachedOnce
<1>1. ASSUME NEW r \in Runs, NEW k \in Callers, List(r, k) PROVE ReachedOnce'
  BY <1>1 DEF List, StartRun, RunAt, TypeOK
<1>2. ASSUME NEW r \in Runs, NEW e \in Employees, GetStep(r, e) PROVE ReachedOnce'
  BY <1>2 DEF GetStep, TakeNext, RunAt, TypeOK
<1>3. ASSUME NEW r \in Runs, Send(r) PROVE ReachedOnce'
  BY <1>3 DEF Send, At, RunAt, TypeOK
<1>4. ASSUME NEW r \in Runs, Log(r) PROVE ReachedOnce'
  BY <1>4 DEF Log, At, RunAt, TypeOK
<1>5. ASSUME NEW r \in Runs, Finish(r) \/ NamedSend(r) PROVE ReachedOnce'
  BY <1>5 DEF Finish, NamedSend, NoRun, RunAt, TypeOK
<1>6. ASSUME NEW r \in Runs, NEW e \in Employees, NamedCount(r, e) PROVE ReachedOnce'
  BY <1>6 DEF NamedCount, StartRun, RunAt, TypeOK
<1>7. CASE Crash
  BY <1>7 DEF Crash, NoRun, RunAt
<1>8. CASE UNCHANGED run
  BY <1>8
<1>9. QED
  BY <1>1, <1>2, <1>3, <1>4, <1>5, <1>6, <1>7, <1>8
     DEF Next, RunStep, Submit, Tick, vars, history

\* A run gives every employee of its list at most one message, however many
\* steps other runs add meanwhile.
THEOREM ChaseOneMessagePerRun == Spec => OneMessagePerRun
<1> DEFINE Reached == \A r \in Runs, e \in Employees, n \in Steps :
         sent'[<<r, e, n>>] # sent[<<r, e, n>>] => e \notin run[r].reached
<1>1. TypeInv /\ ReachedOnce /\ [Next]_vars => Reached
  BY OnlySendCounts DEF ReachedOnce
<1> HIDE DEF Reached
<1>2. Spec => [][Reached]_vars
  BY TypeInit, TypeNext, ReachedInit, ReachedNext, <1>1, PTL DEF Spec
<1>3. QED
  BY <1>2 DEF OneMessagePerRun, Reached

=============================================================================
