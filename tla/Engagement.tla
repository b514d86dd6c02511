----------------------------- MODULE Engagement -----------------------------
(***************************************************************************)
(* One consulting engagement: internal/brain/consulting.go with the        *)
(* dispatcher, the API and bot commands that call it and the daily job     *)
(* engagement_tracker.  The rows of engagements and engagement_actions are *)
(* shared by the requests, each a goroutine whose SQL statements and LLM   *)
(* calls are its steps; no statement looks at the phase or the status it   *)
(* overwrites.  A statement that fails is logged and the request goes on.  *)
(*                                                                         *)
(* Time has two instants a day: the even one at which the job starts, and  *)
(* the odd one of all that happens until the next start.  A check calls    *)
(* the LLM, so its write never happens at the instant the job starts.      *)
(*                                                                         *)
(* progress_pct and the lessons a close stores are left out: no decision   *)
(* of the engine reads them.                                               *)
(***************************************************************************)
EXTENDS Naturals, FiniteSets, FiniteSetsExt

CONSTANTS
    Requests,      \* goroutines of the API and the bot
    Tracker,       \* the goroutine of the job
    MaxQuestions,  \* tierMaxQuestions of the engagement's tier
    MaxRows,       \* bound: rows of engagement_actions
    MaxTurns,      \* bound: requests, days and crashes
    MaxDay,        \* bound: days
    KindOf,        \* what each action of the LLM's plans is
    MaxFaults      \* bound: failed statements, crashes, and days down

ASSUME NatAssumption ==
    {MaxQuestions, MaxRows, MaxTurns, MaxDay, MaxFaults} \subseteq Nat /\ MaxQuestions > 0
ASSUME TrackerAssumption == Tracker \notin Requests

VARIABLES
    eng,     \* the row of engagements
    rows,    \* the rows of engagement_actions, in order of creation
    pc,      \* where each goroutine is
    loc,     \* what each goroutine has read
    day,     \* the days since the engagement was started
    grants,  \* history: how often each action was approved
    effects, \* history: how often each action was carried out
    accepted,\* history: the answers whose request returned no error
    checked, \* history: the day of the last write of next_check_at
    amiss,   \* history: what overlapped, answers or executions
    faults,  \* history: the number of faults
    turns    \* history: the number of requests, days and crashes

vars == <<eng, rows, pc, loc, day, grants, effects, accepted, checked,
          amiss, faults, turns>>
history == <<grants, effects, accepted, checked, amiss>>

Procs == Requests \cup {Tracker}
Rows == 1 .. MaxRows
Turns == 1 .. MaxTurns

\* What carrying out an action comes to: a row or a message; "Recognition sent"
\* and "suggestion noted", successes without effect; or never a success, as for
\* reassign_task, adjust_target and unknown types.
Kinds == {"effect", "note", "manual"}
Statuses == {"pending", "approved", "rejected", "done", "failed"}
NoRow == [status |-> "none", plan |-> 0]
ASSUME KindAssumption == KindOf \in [Rows -> Kinds]

RowRecords ==
    [status : Statuses, plan : Turns] \cup {NoRow}

Never == 0         \* next_check_at is NULL; a written one is odd
DayLength == 2

\* The engagement's row: diagnosis_questions as their number, diagnosis_answers
\* as the turns that gave them, the plan by the turn it was made in.
Engagements ==
    [phase : {"none", "diagnosis", "plan", "tracking", "closed"},
     questions : 0 .. MaxQuestions, answers : SUBSET Turns,
     plan : 0 .. MaxTurns, items : 0 .. MaxRows, next : Nat]

Locations ==
    {"idle", "asking", "planning", "creating", "reviewing",
     "executing", "marking", "scheduling", "checking", "closing"}

\* What a goroutine remembers: its turn; the questions and answers it loaded;
\* the actions it has still to create, review or execute; the status to write.
Locals ==
    [turn : 0 .. MaxTurns, questions : 0 .. MaxQuestions, answers : SUBSET Turns,
     left : 0 .. MaxRows, todo : SUBSET Rows, write : Statuses]
Nothing ==
    [turn |-> 0, questions |-> 0, answers |-> {}, left |-> 0, todo |-> {},
     write |-> "pending"]

Used == {a \in Rows : rows[a].status # "none"}
WithStatus(s) == {a \in Rows : rows[a].status = s}

Answering == {p \in Procs : pc[p] \in {"asking", "planning", "creating"}}
Executing == {p \in Procs : pc[p] \in {"executing", "marking", "scheduling"}}

\* The rows that plans in progress have still to create.
Promised == MapThenSumSet(LAMBDA p : loc[p].left, Procs)

-----------------------------------------------------------------------------
Init ==
    /\ eng = [phase |-> "none", questions |-> 0, answers |-> {}, plan |-> 0,
              items |-> 0, next |-> Never]
    /\ rows = [a \in Rows |-> NoRow]
    /\ pc = [p \in Procs |-> "idle"]
    /\ loc = [p \in Procs |-> Nothing]
    /\ day = 0
    /\ grants = [a \in Rows |-> 0]
    /\ effects = [a \in Rows |-> 0]
    /\ accepted = {}
    /\ checked = 0
    /\ amiss = {}
    /\ faults = 0
    /\ turns = 0

\* A statement takes effect, or fails and is logged.
Fault == faults < MaxFaults /\ faults' = faults + 1
Written(ok) == IF ok THEN UNCHANGED faults ELSE Fault

Turn ==
    /\ turns < MaxTurns
    /\ turns' = turns + 1

Goes(p, where) == pc' = [pc EXCEPT ![p] = where]
Returns(p) ==
    /\ pc' = [pc EXCEPT ![p] = "idle"]
    /\ loc' = [loc EXCEPT ![p] = Nothing]

Idle(p) ==
    /\ pc[p] = "idle"
    /\ eng.phase # "none"

\* StartEngagement: the row is created and then its first question stored; the
\* id and the question are returned whether or not that worked.
Start(ok) ==
    /\ eng.phase = "none"
    /\ eng' = [eng EXCEPT !.phase = "diagnosis", !.questions = IF ok THEN 1 ELSE 0]
    /\ Written(ok)
    /\ UNCHANGED <<rows, pc, loc, day, history, turns>>

-----------------------------------------------------------------------------
(* AnswerQuestion.  The whole arrays are read, extended and written back    *)
(* around one LLM call; analysis and plan each need another.               *)

AnswerStart(p) ==
    /\ p \in Requests /\ Idle(p) /\ Turn
    /\ loc' = [loc EXCEPT ![p] = [Nothing EXCEPT
                  !.turn = turns', !.questions = eng.questions, !.answers = eng.answers]]
    /\ Goes(p, "asking")
    /\ amiss' = IF Answering # {} THEN amiss \cup {"answers"} ELSE amiss
    /\ UNCHANGED <<eng, rows, day, grants, effects, accepted, checked, faults>>

\* A mutation: the last answer is only used, and not stored.
DiagnosedForgets(p, more, ok) ==
    /\ eng' = IF ok THEN [eng EXCEPT !.questions = loc[p].questions + more,
                                    !.answers = loc[p].answers]
                    ELSE eng
    /\ Written(ok)

\* UpdateEngagementDiagnosis with the loaded questions, or one more, and the
\* loaded answers and the new one.
Diagnosed(p, more, ok) ==
    /\ eng' = IF ok THEN [eng EXCEPT !.questions = loc[p].questions + more,
                                    !.answers = loc[p].answers \cup {loc[p].turn}]
                    ELSE eng
    /\ Written(ok)

\* A mutation: one question more than the tier allows.
AskOneMore(p, ok) ==
    /\ pc[p] = "asking"
    /\ loc[p].questions <= MaxQuestions
    /\ Diagnosed(p, 1, ok)
    /\ accepted' = accepted \cup {loc[p].turn}
    /\ Returns(p)
    /\ UNCHANGED <<rows, day, grants, effects, checked, turns, amiss>>

\* The LLM has another question: it is returned to the user.
AskNext(p, ok) ==
    /\ pc[p] = "asking"
    /\ loc[p].questions < MaxQuestions
    /\ Diagnosed(p, 1, ok)
    /\ accepted' = accepted \cup {loc[p].turn}
    /\ Returns(p)
    /\ UNCHANGED <<rows, day, grants, effects, checked, turns, amiss>>

\* Enough questions, or the LLM says so, fails or answers no JSON.
EnoughAsked(p, ok) ==
    /\ pc[p] = "asking"
    /\ Diagnosed(p, 0, ok)
    /\ loc' = [loc EXCEPT ![p] = [Nothing EXCEPT !.turn = loc[p].turn]]
    /\ Goes(p, "planning")
    /\ UNCHANGED <<rows, day, history, turns>>

\* The LLM fails at the analysis, whose column decides nothing, or at the plan:
\* an error, the answer is stored and the phase is as it was.
PlanFails(p) ==
    /\ pc[p] = "planning"
    /\ Returns(p)
    /\ UNCHANGED <<eng, rows, day, history, turns, faults>>

\* UpdateEngagementPlan with the n actions of the LLM's plan.
MakePlan(p, n, ok) ==
    /\ pc[p] = "planning"
    /\ Cardinality(Used) + Promised + n <= MaxRows
    /\ eng' = IF ok THEN [eng EXCEPT !.plan = loc[p].turn, !.items = n] ELSE eng
    /\ Written(ok)
    /\ loc' = [loc EXCEPT ![p].left = n]
    /\ Goes(p, "creating")
    /\ UNCHANGED <<rows, day, history, turns>>

\* CreateEngagementAction, for one action of the plan.
CreateRow(p, ok) ==
    /\ pc[p] = "creating"
    /\ loc[p].left > 0
    /\ rows' = IF ok
               THEN [rows EXCEPT ![Min(Rows \ Used)] =
                        [status |-> "pending", plan |-> loc[p].turn]]
               ELSE rows
    /\ Written(ok)
    /\ loc' = [loc EXCEPT ![p].left = loc[p].left - 1]
    /\ UNCHANGED <<eng, pc, day, history, turns>>

\* UpdateEngagementPhase: the plan is returned to the user.
PlanReady(p, ok) ==
    /\ pc[p] = "creating"
    /\ loc[p].left = 0
    /\ eng' = IF ok THEN [eng EXCEPT !.phase = "plan"] ELSE eng
    /\ Written(ok)
    /\ accepted' = accepted \cup {loc[p].turn}
    /\ Returns(p)
    /\ UNCHANGED <<rows, day, grants, effects, checked, turns, amiss>>

-----------------------------------------------------------------------------
(* Approving and rejecting.  The API reviews one action whatever its       *)
(* status; /consult approve reviews those that were pending when it listed *)
(* them.                                                                   *)

Mark(a, s) == rows' = [rows EXCEPT ![a].status = s]
Granted(a, s) ==
    grants' = IF s = "approved" THEN [grants EXCEPT ![a] = @ + 1] ELSE grants

ReviewAction(a, s) ==
    /\ a \in Used /\ Turn
    /\ Mark(a, s)
    /\ Granted(a, s)
    /\ UNCHANGED <<eng, pc, loc, day, effects, accepted, checked, amiss, faults>>

ReviewStart(p, s) ==
    /\ p \in Requests /\ Idle(p) /\ Turn
    /\ WithStatus("pending") # {}
    /\ loc' = [loc EXCEPT ![p] = [Nothing EXCEPT !.todo = WithStatus("pending"), !.write = s]]
    /\ Goes(p, "reviewing")
    /\ UNCHANGED <<eng, rows, day, history, faults>>

ReviewNext(p, ok) ==
    /\ pc[p] = "reviewing"
    /\ LET a == Min(loc[p].todo)
           rest == loc[p].todo \ {a}
           s == loc[p].write
       IN /\ IF ok THEN Mark(a, s) /\ Granted(a, s) ELSE UNCHANGED <<rows, grants>>
          /\ IF rest = {} THEN Returns(p)
             ELSE loc' = [loc EXCEPT ![p].todo = rest] /\ pc' = pc
    /\ Written(ok)
    /\ UNCHANGED <<eng, day, effects, accepted, checked, turns, amiss>>

-----------------------------------------------------------------------------
(* ExecuteApproved: the actions approved at one moment are carried out one *)
(* after the other, each marked afterwards.                                *)

\* A mutation: what has not been reviewed is executed too.
ListedPending == WithStatus("approved") \cup WithStatus("pending")

Listed == WithStatus("approved")

ExecuteStart(p) ==
    /\ p \in Requests /\ Idle(p) /\ Turn
    /\ loc' = [loc EXCEPT ![p] = [Nothing EXCEPT !.todo = Listed]]
    /\ Goes(p, "executing")
    /\ amiss' = IF Executing # {} THEN amiss \cup {"executions"} ELSE amiss
    /\ UNCHANGED <<eng, rows, day, grants, effects, accepted, checked, faults>>

\* A mutation: the result is not looked at.
OutcomeUnseen(done) == "done"

\* Dispatcher.Execute: what it came to decides how the row will be marked.
Outcome(done) == IF done THEN "done" ELSE "failed"

Dispatch(p, done) ==
    /\ pc[p] = "executing"
    /\ loc[p].todo # {}
    /\ LET a == Min(loc[p].todo)
       IN /\ KindOf[a] = "manual" => ~done
          /\ effects' = IF done /\ KindOf[a] = "effect"
                        THEN [effects EXCEPT ![a] = @ + 1] ELSE effects
    /\ loc' = [loc EXCEPT ![p].write = Outcome(done)]
    /\ Goes(p, "marking")
    /\ UNCHANGED <<eng, rows, day, grants, accepted, checked, amiss, turns, faults>>

MarkDone(p, ok) ==
    /\ pc[p] = "marking"
    /\ LET a == Min(loc[p].todo)
       IN /\ IF ok THEN Mark(a, loc[p].write) ELSE UNCHANGED rows
          /\ loc' = [loc EXCEPT ![p].todo = @ \ {a}, ![p].write = "pending"]
    /\ Written(ok)
    /\ Goes(p, "executing")
    /\ UNCHANGED <<eng, day, history, turns>>

TrackFrom(p, ok) ==
    /\ pc[p] = "executing"
    /\ loc[p].todo = {}
    /\ eng' = IF ok THEN [eng EXCEPT !.phase = "tracking"] ELSE eng
    /\ Written(ok)
    /\ Goes(p, "scheduling")
    /\ UNCHANGED <<rows, loc, day, history, turns>>

\* A mutation: the next check is two days away.
NextCheckLate == (DayLength * day + 1) + 2 * DayLength

\* UpdateEngagementProgress: next_check_at is this time tomorrow.
NextCheck == (DayLength * day + 1) + DayLength

Scheduled(p, ok) ==
    /\ eng' = IF ok THEN [eng EXCEPT !.next = NextCheck] ELSE eng
    /\ checked' = IF ok THEN day ELSE checked
    /\ Written(ok)
    /\ Returns(p)
    /\ UNCHANGED <<rows, day, grants, effects, accepted, turns, amiss>>

ScheduleCheck(p, ok) == pc[p] = "scheduling" /\ Scheduled(p, ok)

-----------------------------------------------------------------------------
(* CheckProgress, for the API and for the job, and CloseEngagement.        *)

CheckStart(p) ==
    /\ p \in Requests /\ Idle(p) /\ Turn
    /\ Goes(p, "checking")
    /\ UNCHANGED <<eng, rows, loc, day, history, faults>>

CheckEnd(p, ok) == pc[p] = "checking" /\ Scheduled(p, ok)

CloseStart(p) ==
    /\ p \in Requests /\ Idle(p) /\ Turn
    /\ Goes(p, "closing")
    /\ UNCHANGED <<eng, rows, loc, day, history, faults>>

CloseEnd(p, ok) ==
    /\ pc[p] = "closing"
    /\ eng' = IF ok THEN [eng EXCEPT !.phase = "closed"] ELSE eng
    /\ Written(ok)
    /\ Returns(p)
    /\ UNCHANGED <<rows, day, history, turns>>

\* ListEngagementsForTracking.
Due(now) ==
    /\ eng.phase = "tracking"
    /\ eng.next = Never \/ eng.next <= now

\* The next day's 11:00: the job starts and lists the engagements that are due.
\* The process may be down then.
NextDay(up) ==
    /\ day < MaxDay
    /\ pc[Tracker] = "idle"
    /\ up \/ \A p \in Procs : pc[p] = "idle"
    /\ Turn
    /\ day' = day + 1
    /\ pc' = IF up /\ Due(DayLength * day') THEN [pc EXCEPT ![Tracker] = "checking"] ELSE pc
    /\ Written(up)
    /\ UNCHANGED <<eng, rows, loc, history>>

\* The process dies and starts again: the goroutines are gone, the rows stay.
Crash ==
    /\ \E p \in Procs : pc[p] # "idle"
    /\ Turn
    /\ pc' = [p \in Procs |-> "idle"]
    /\ loc' = [p \in Procs |-> Nothing]
    /\ Fault
    /\ UNCHANGED <<eng, rows, day, history>>

-----------------------------------------------------------------------------
Answer(p) ==
    \/ AnswerStart(p)
    \/ PlanFails(p)
    \/ \E ok \in BOOLEAN :
        \/ AskNext(p, ok)
        \/ EnoughAsked(p, ok)
        \/ \E n \in 0 .. MaxRows : MakePlan(p, n, ok)
        \/ CreateRow(p, ok)
        \/ PlanReady(p, ok)

Execute(p) ==
    \/ ExecuteStart(p)
    \/ \E done \in BOOLEAN : Dispatch(p, done)
    \/ \E ok \in BOOLEAN : MarkDone(p, ok) \/ TrackFrom(p, ok) \/ ScheduleCheck(p, ok)

Review(p) ==
    \/ \E s \in {"approved", "rejected"} : ReviewStart(p, s)
    \/ \E ok \in BOOLEAN : ReviewNext(p, ok)

CheckOrClose(p) ==
    \/ CheckStart(p)
    \/ CloseStart(p)
    \/ \E ok \in BOOLEAN : CheckEnd(p, ok) \/ CloseEnd(p, ok)

Next ==
    \/ \E ok \in BOOLEAN : Start(ok)
    \/ \E p \in Procs : Answer(p) \/ Execute(p) \/ Review(p) \/ CheckOrClose(p)
    \/ \E a \in Rows, s \in {"approved", "rejected"} : ReviewAction(a, s)
    \/ \E up \in BOOLEAN : NextDay(up)
    \/ Crash

Spec == Init /\ [][Next]_vars

-----------------------------------------------------------------------------
(* Properties.                                                             *)

\* Every variable has its type, and a goroutine's location fits what it has to do.
TypeOK ==
    /\ eng \in Engagements
    /\ rows \in [Rows -> RowRecords]
    /\ pc \in [Procs -> Locations]
    /\ loc \in [Procs -> Locals]
    /\ day \in 0 .. MaxDay
    /\ grants \in [Rows -> Nat]
    /\ effects \in [Rows -> Nat]
    /\ accepted \subseteq Turns
    /\ checked \in 0 .. MaxDay
    /\ amiss \subseteq {"answers", "executions"}
    /\ faults \in 0 .. MaxFaults
    /\ turns \in 0 .. MaxTurns
    /\ pc[Tracker] \in {"idle", "checking"}
    /\ \A p \in Procs : pc[p] \in {"reviewing", "marking"} => loc[p].todo # {}

\* Each approval is good for one execution (consulting.go:412-493): an action is
\* carried out no more often than it was approved, however answers, reviews
\* and an execution interleave, unless two executions overlap, a statement
\* fails or the process dies.
GrantSpentOnce ==
    faults = 0 /\ "executions" \notin amiss =>
        \A a \in Rows : effects[a] <= grants[a]

\* The report of what was done can be believed (consulting.go:445-492): an action
\* marked done had its effect, or is of a type whose execution has none; this
\* holds through crashes, lost writes and overlapping executions and reviews.
DoneWasPerformed ==
    \A a \in WithStatus("done") :
        KindOf[a] = "note" \/ (KindOf[a] = "effect" /\ effects[a] > 0)

\* An answer whose request returned a question or a plan is in the diagnosis
\* (consulting.go:195-283), unless answers overlapped or a statement failed.
AnswersKept ==
    faults = 0 /\ "answers" \notin amiss => accepted \subseteq eng.answers

\* An engagement in tracking is looked at again (consulting.go:574-585,
\* scheduler_jobs.go:474-484): once the day's job is over, the last check,
\* whoever asked for it, was on this day or the day before, unless a
\* statement failed or the process was down.
CheckedEverySecondDay ==
    faults = 0 /\ eng.phase = "tracking"
    /\ pc[Tracker] = "idle" /\ Executing = {} =>
        day <= checked + 1

-----------------------------------------------------------------------------
(* What the documents say and the code does not do.                        *)

\* "TRACKING (daily push)" (docs/superpowers/specs/2026-03-27-consulting-engine-
\* design.md:98): once the day's job is over, the last check was on this day.
CheckedDaily ==
    faults = 0 /\ eng.phase = "tracking"
    /\ pc[Tracker] = "idle" /\ Executing = {} =>
        day <= checked

\* "Dispatcher executes all approved actions" (design.md:89): an action that was
\* rejected meanwhile is not carried out.
RejectedNotExecuted ==
    [][\A a \in WithStatus("rejected") : effects'[a] = effects[a]]_vars

\* The lifecycle ends with CLOSED (design.md:44): a closed engagement stays so.
ClosedStays == [][eng.phase = "closed" => eng'.phase = "closed"]_vars
=============================================================================
