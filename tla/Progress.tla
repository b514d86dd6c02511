------------------------------ MODULE Progress ------------------------------
(***************************************************************************)
(* The jobs that measure, and what they measure: goal_snapshots stores the *)
(* progress of every active goal each night, incentive_calc scores every   *)
(* employee by every rule each month (cmd/brain/scheduler_jobs.go 309 and  *)
(* 404, internal/brain/incentive_engine.go).  A run reads a list once and  *)
(* then, for each member, reads, calls the LLM and stores, while goals,    *)
(* key results, rules and employees change under it; what fails for one    *)
(* member is logged and passed over.  Runs overlap: a catch-up, the cron   *)
(* and a manual start are goroutines of their own.  Beside them, values of *)
(* a metric arrive in any order (internal/api/metrics_handlers.go).        *)
(*                                                                         *)
(* One tenant, one period and one metric; a day is a date of UTC.          *)
(***************************************************************************)
EXTENDS Naturals, Sequences, FiniteSets, FiniteSetsExt

CONSTANTS
    Goals, KeyResults,  \* of a goal
    Targets,            \* of a key result
    Staff, Rules,
    Runs,               \* goroutines that run a job
    None,
    MaxDays,     \* bound: dates
    MaxValues,   \* bound: values of the metric
    MaxChanges,  \* bound: changes by users
    MaxRuns,     \* bound: runs started
    MaxFaults    \* bound: statements and LLM calls that fail, crashes

VARIABLES
    today,
    goal,      \* the status of each goal
    kr,        \* its key results
    snapshot,  \* goal_snapshots: the progress of a goal by date
    rule,      \* is_active
    staff,     \* the employees there are so far
    score,     \* incentive_scores of the period, by employee and rule
    value,     \* metric_values, in the order they came
    run,
    changes, started, faults,
    had        \* history: the progress each goal had during runs of a date

recordVars == <<goal, kr, rule, staff>>
vars == <<today, recordVars, snapshot, score, value, run, changes, started, faults, had>>

Days == 1 .. MaxDays
Idle == [at |-> "idle"]

Init ==
    /\ today = 1
    /\ goal = [g \in Goals |-> "active"]
    /\ kr = [g \in Goals |-> [k \in KeyResults |-> None]]
    /\ snapshot = [g \in Goals |-> [d \in Days |-> None]]
    /\ rule = [u \in Rules |-> TRUE]
    /\ staff \in [Staff -> BOOLEAN]
    /\ score = [e \in Staff |-> [u \in Rules |-> None]]
    /\ value = <<>>
    /\ run = [w \in Runs |-> Idle]
    /\ changes = 0 /\ started = 0 /\ faults = 0
    /\ had = [g \in Goals |-> [d \in Days |-> {}]]

-----------------------------------------------------------------------------
(* Progress and statements                                                 *)

\* The percentage of a key result; one without a target counts as nothing.
Percent(r) ==
    IF r.target = 0 THEN 0
    ELSE IF r.current > r.target THEN 100 ELSE (100 * r.current) \div r.target

\* The mean of the key results in hundredths of a percent, rounded.
CalculateGoalProgress(krs) ==
    LET set == {k \in KeyResults : krs[k] # None}
        n == Cardinality(set)
    IN  IF n = 0 THEN 0
        ELSE (200 * MapThenSumSet(LAMBDA k : Percent(krs[k]), set) + n) \div (2 * n)

ListActiveGoals == {g \in Goals : goal[g] = "active"}
ListActiveEmployees == {e \in Staff : staff[e]}
ListIncentiveRules == {u \in Rules : rule[u]}

\* The row replaces the goal's row of the date.
CreateGoalSnapshot(g, d, progress) == [snapshot EXCEPT ![g][d] = progress]

\* The row replaces the rule's row of the employee and the period, but for its
\* status.
CreateIncentiveScore(e, u, status) ==
    [score EXCEPT ![e][u] =
        [status |-> IF score[e][u] = None THEN status ELSE score[e][u].status, of |-> status]]

\* A mutation: the value that came last.
LatestArrived(values) == values[Len(values)]

\* The value observed last; of two observed at a time, PostgreSQL may return
\* either, and the model takes the later.
GetLatestMetricValue(values) ==
    values[CHOOSE i \in DOMAIN values : \A k \in DOMAIN values :
        \/ values[k].observed < values[i].observed
        \/ values[k].observed = values[i].observed /\ k <= i]

-----------------------------------------------------------------------------
(* A run of a job                                                          *)

\* A run at its first list: what it is to measure, and what has been there to be
\* measured ever since.
Starting(kind, date) ==
    [at |-> "list", kind |-> kind, date |-> date, todo |-> {}, rules |-> {}, subject |-> None,
     by |-> None, progress |-> 0, evaluation |-> "none", failed |-> {},
     steady |-> IF kind = "goals" THEN ListActiveGoals ELSE ListActiveEmployees \X ListIncentiveRules]

Step(w, r) == run' = [run EXCEPT ![w] = r]
Ended(r, failed) == [r EXCEPT !.at = "ended", !.failed = @ \cup failed]
Breaks(ok) == ~ok => faults < MaxFaults
Counts(ok) == faults' = faults + (IF ok THEN 0 ELSE 1)

\* Every member left is measured; the run ends when none is.
Continue(r) == [r EXCEPT !.at = IF r.todo = {} THEN "ended" ELSE "next"]

\* A mutation: the run stops at the first member that fails.
PassOverNone(r, m) ==
    [r EXCEPT !.at = "ended", !.todo = {}, !.rules = {}, !.failed = @ \cup {m}]

\* The member m failed: it is logged, and the run goes on with the others.
PassOver(r, m) ==
    IF r.kind = "goals" \/ r.rules = {} THEN Continue([r EXCEPT !.failed = @ \cup {m}])
    ELSE [r EXCEPT !.at = "rule", !.failed = @ \cup {m}]

Had(w) == had' = [g \in Goals |-> [d \in Days |->
    IF run'[w].kind = "goals" /\ d = run'[w].date
    THEN had[g][d] \cup {CalculateGoalProgress(kr[g])} ELSE had[g][d]]]

\* A run of a job starts: the goals' tenants are listed and the date is taken, or
\* the employees are listed.
StartRun(w) ==
    /\ run[w].at \in {"idle", "ended"} /\ started < MaxRuns
    /\ \E kind \in (IF Goals = {} THEN {} ELSE {"goals"}) \cup (IF Staff = {} THEN {} ELSE {"scores"}) :
          Step(w, Starting(kind, today))
    /\ started' = started + 1
    /\ Had(w)
    /\ UNCHANGED <<today, recordVars, snapshot, score, value, changes, faults>>

\* The active goals, or employees, are read, once.
ListMembers(w) ==
    /\ run[w].at = "list"
    /\ \E ok \in BOOLEAN :
          /\ Breaks(ok) /\ Counts(ok)
          /\ Step(w, IF ok
                     THEN Continue([run[w] EXCEPT !.todo =
                              IF run[w].kind = "goals" THEN ListActiveGoals ELSE ListActiveEmployees])
                     ELSE Ended(run[w], IF run[w].kind = "goals" THEN Goals ELSE Staff \X Rules))
    /\ UNCHANGED <<today, recordVars, snapshot, score, value, changes, started, had>>

\* The key results of the next goal are read.
GetKeyResults(w) ==
    /\ run[w].at = "next" /\ run[w].kind = "goals"
    /\ \E g \in run[w].todo, ok \in BOOLEAN :
          LET r == [run[w] EXCEPT !.todo = @ \ {g}, !.subject = g]
          IN  /\ Breaks(ok) /\ Counts(ok)
              /\ Step(w, IF ok THEN [r EXCEPT !.at = "store", !.progress = CalculateGoalProgress(kr[g])]
                         ELSE PassOver(r, g))
    /\ UNCHANGED <<today, recordVars, snapshot, score, value, changes, started, had>>

\* A mutation: the day of the snapshot is the day it is stored.
StoreSnapshotNow(w) ==
    LET r == run[w]  g == r.subject IN
    /\ r.at = "store" /\ r.kind = "goals" /\ goal[g] # "gone"
    /\ snapshot' = CreateGoalSnapshot(g, today, r.progress)
    /\ Step(w, Continue(r))
    /\ UNCHANGED <<today, recordVars, score, value, changes, started, faults, had>>

\* Its snapshot is stored under the date the run began with; the row of a goal
\* deleted in between is refused.
StoreSnapshot(w) ==
    LET r == run[w]  g == r.subject IN
    /\ r.at = "store" /\ r.kind = "goals"
    /\ \E ok \in BOOLEAN :
          /\ Breaks(ok) /\ Counts(ok)
          /\ IF ok /\ goal[g] # "gone"
             THEN snapshot' = CreateGoalSnapshot(g, r.date, r.progress) /\ Step(w, Continue(r))
             ELSE UNCHANGED snapshot /\ Step(w, PassOver(r, g))
    /\ UNCHANGED <<today, recordVars, score, value, changes, started, had>>

\* The rules are read anew for every employee; without rules there is no score.
ReadRules(w) ==
    /\ run[w].at = "next" /\ run[w].kind = "scores"
    /\ \E e \in run[w].todo, ok \in BOOLEAN :
          LET r == [run[w] EXCEPT !.todo = @ \ {e}, !.subject = e]
          IN  /\ Breaks(ok) /\ Counts(ok)
              /\ Step(w, IF ~ok THEN Continue([r EXCEPT !.failed = @ \cup ({e} \X Rules)])
                         ELSE IF ListIncentiveRules = {} THEN Continue(r)
                         ELSE [r EXCEPT !.at = "rule", !.rules = ListIncentiveRules])
    /\ UNCHANGED <<today, recordVars, snapshot, score, value, changes, started, had>>

\* The LLM scores the employee by the next rule; a call that fails and an answer
\* that is no JSON are passed over.
Evaluate(w) ==
    /\ run[w].at = "rule"
    /\ \E u \in run[w].rules, ok \in BOOLEAN, status \in {"calculated", "needs_review"} :
          LET r == [run[w] EXCEPT !.rules = @ \ {u}, !.by = u]
          IN  /\ Breaks(ok) /\ Counts(ok)
              /\ Step(w, IF ok THEN [r EXCEPT !.at = "store", !.evaluation = status]
                         ELSE PassOver(r, <<r.subject, u>>))
    /\ UNCHANGED <<today, recordVars, snapshot, score, value, changes, started, had>>

\* The score is stored.
StoreScore(w) ==
    LET r == run[w] IN
    /\ r.at = "store" /\ r.kind = "scores"
    /\ \E ok \in BOOLEAN :
          /\ Breaks(ok) /\ Counts(ok)
          /\ IF ok
             THEN /\ score' = CreateIncentiveScore(r.subject, r.by, r.evaluation)
                  /\ Step(w, IF r.rules = {} THEN Continue(r) ELSE [r EXCEPT !.at = "rule"])
             ELSE UNCHANGED score /\ Step(w, PassOver(r, <<r.subject, r.by>>))
    /\ UNCHANGED <<today, recordVars, snapshot, value, changes, started, had>>

-----------------------------------------------------------------------------
(* What happens meanwhile                                                  *)

\* What is no longer there to be measured.
Steadily ==
    run' = [w \in Runs |->
        IF run[w].at = "idle" THEN run[w]
        ELSE [run[w] EXCEPT !.steady = IF run[w].kind = "goals"
                 THEN @ \cap {g \in Goals : goal'[g] = "active"}
                 ELSE @ \cap ({e \in Staff : staff'[e]} \X {u \in Rules : rule'[u]})]]

\* The progress the goals have now is one they had during the runs under way.
Noted ==
    had' = [g \in Goals |-> [d \in Days |->
        IF \E w \in Runs : /\ run[w].at \notin {"idle", "ended"} /\ run[w].kind = "goals"
                           /\ run[w].date = d
        THEN had[g][d] \cup {CalculateGoalProgress(kr'[g])} ELSE had[g][d]]]

Changes ==
    /\ changes < MaxChanges /\ changes' = changes + 1
    /\ Steadily /\ Noted
    /\ UNCHANGED <<today, score, value, started, faults>>

\* A goal is activated or set back.
SaveGoal(g) ==
    /\ goal[g] # "gone"
    /\ goal' = [goal EXCEPT ![g] = IF @ = "active" THEN "draft" ELSE "active"]
    /\ UNCHANGED <<kr, rule, staff, snapshot>>
    /\ Changes

\* A goal is deleted, and its key results and snapshots with it.
DeleteGoal(g) ==
    /\ goal[g] # "gone"
    /\ goal' = [goal EXCEPT ![g] = "gone"]
    /\ kr' = [kr EXCEPT ![g] = [k \in KeyResults |-> None]]
    /\ snapshot' = [snapshot EXCEPT ![g] = [d \in Days |-> None]]
    /\ UNCHANGED <<rule, staff>>
    /\ Changes

\* A key result is added, deleted or moves on.
SaveKeyResult(g, k) ==
    /\ goal[g] # "gone"
    /\ \/ kr[g][k] = None /\ \E t \in Targets : kr' = [kr EXCEPT ![g][k] = [target |-> t, current |-> 0]]
       \/ kr[g][k] # None /\ kr' = [kr EXCEPT ![g][k] = None]
       \/ /\ kr[g][k] # None /\ kr[g][k].current <= kr[g][k].target
          /\ kr' = [kr EXCEPT ![g][k].current = @ + 1]
    /\ UNCHANGED <<goal, rule, staff, snapshot>>
    /\ Changes

\* A rule is set inactive.
DeleteIncentiveRule(u) ==
    /\ rule[u] /\ rule' = [rule EXCEPT ![u] = FALSE]
    /\ UNCHANGED <<goal, kr, staff, snapshot>>
    /\ Changes

\* An employee comes; no statement sets one inactive.
CreateEmployee(e) ==
    /\ ~staff[e] /\ staff' = [staff EXCEPT ![e] = TRUE]
    /\ UNCHANGED <<goal, kr, rule, snapshot>>
    /\ Changes

\* A value of the metric comes, observed now or, as observed_at may say, before.
IngestMetricValue ==
    /\ Len(value) < MaxValues
    /\ \E d \in 1 .. today : value' = Append(value, [observed |-> d])
    /\ UNCHANGED <<today, recordVars, snapshot, score, run, changes, started, faults, had>>

Midnight ==
    /\ today < MaxDays
    /\ today' = today + 1
    /\ UNCHANGED <<recordVars, snapshot, score, value, run, changes, started, faults, had>>

\* The process ends in the middle of the runs.
Crash ==
    /\ \E w \in Runs : run[w].at \notin {"idle", "ended"}
    /\ faults < MaxFaults /\ faults' = faults + 1
    /\ run' = [w \in Runs |-> Idle]
    /\ UNCHANGED <<today, recordVars, snapshot, score, value, changes, started, had>>

Next ==
    \/ \E w \in Runs :
          \/ StartRun(w) \/ ListMembers(w) \/ GetKeyResults(w) \/ StoreSnapshot(w)
          \/ ReadRules(w) \/ Evaluate(w) \/ StoreScore(w)
    \/ \E g \in Goals : SaveGoal(g) \/ DeleteGoal(g) \/ \E k \in KeyResults : SaveKeyResult(g, k)
    \/ \E u \in Rules : DeleteIncentiveRule(u)
    \/ \E e \in Staff : CreateEmployee(e)
    \/ IngestMetricValue \/ Midnight \/ Crash

Spec == Init /\ [][Next]_vars

-----------------------------------------------------------------------------
(* Properties                                                              *)

Hundredths == 0 .. 10000
Pairs == Staff \X Rules
Members == Goals \cup Pairs
KeyResult == [target : Targets, current : Nat]
Score == [status : {"calculated", "needs_review"}, of : {"calculated", "needs_review"}]
RunRecord ==
    [at : {"list", "next", "rule", "store", "ended"}, kind : {"goals", "scores"}, date : Days,
     todo : SUBSET (Goals \cup Staff), rules : SUBSET Rules, subject : Goals \cup Staff \cup {None},
     by : Rules \cup {None}, progress : Hundredths,
     evaluation : {"none", "calculated", "needs_review"},
     failed : SUBSET Members, steady : SUBSET Members]

\* Every variable holds a value of its type.
TypeOK ==
    /\ today \in Days
    /\ goal \in [Goals -> {"draft", "active", "gone"}]
    /\ kr \in [Goals -> [KeyResults -> KeyResult \cup {None}]]
    /\ snapshot \in [Goals -> [Days -> Hundredths \cup {None}]]
    /\ rule \in [Rules -> BOOLEAN] /\ staff \in [Staff -> BOOLEAN]
    /\ score \in [Staff -> [Rules -> Score \cup {None}]]
    /\ value \in Seq([observed : Days])
    /\ \A w \in Runs : run[w] = Idle \/ run[w] \in RunRecord
    /\ changes \in 0 .. MaxChanges /\ started \in 0 .. MaxRuns /\ faults \in 0 .. MaxFaults
    /\ had \in [Goals -> [Days -> SUBSET Hundredths]]

\* The snapshot of a date is a progress its goal had during a run that began on
\* that date: neither midnight between the reading and the row, nor a run of
\* another date, nor a change of the goal meanwhile puts another number there
\* (scheduler_jobs.go:319).
SnapshotWasTrue ==
    \A g \in Goals, d \in Days : snapshot[g][d] # None => snapshot[g][d] \in had[g][d]

\* A run that has ended has measured every member that was there all the time,
\* each goal or each employee by each rule, but for those whose own reading, LLM
\* call or row failed: the failure of one takes no other with it
\* (scheduler_jobs.go:330, incentive_engine.go:169).
OneFailureOneLoss ==
    \A w \in Runs : run[w].at = "ended" =>
        \A m \in run[w].steady \ run[w].failed :
            IF run[w].kind = "goals" THEN snapshot[m][run[w].date] # None
            ELSE score[m[1]][m[2]] # None

\* The latest value of a metric is never replaced by one observed before it,
\* however late the values come (metrics.sql.go:85).
LatestNeverBackwards ==
    [][value # <<>> =>
          GetLatestMetricValue(value').observed >= GetLatestMetricValue(value).observed]_vars

(* What documents and comments say.                                        *)

\* A score the LLM is not sure of waits for a review: "needs_review"
\* (incentive_engine.go:197).  A row that exists keeps the status of its first
\* evaluation, whatever the last one says.
ReviewIsAsked ==
    \A e \in Staff, u \in Rules : score[e][u] # None => score[e][u].status = score[e][u].of
=============================================================================
