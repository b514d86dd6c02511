------------------------------- MODULE Chase -------------------------------
(***************************************************************************)
(* Chasing the employees who have not submitted today's report: ChaseAll   *)
(* of internal/report/chaser.go, which the scheduler, the API and the AI   *)
(* roles may run at the same time, and the chase of one employee by name   *)
(* of internal/service/action.go.  One day of one tenant.                  *)
(*                                                                         *)
(* Reading the last step, sending the message and writing the log are      *)
(* three calls, so runs interleave between them, with each other and with  *)
(* employees who submit.                                                   *)
(***************************************************************************)
EXTENDS Naturals, Sequences

CONSTANTS
    Employees,   \* active members with a channel
    Runs,        \* goroutines in which a chase may run
    Callers,     \* which of "job", "api", "role" start ChaseAll
    Escalation,  \* the actions of the tenant's mentor, in order
    Delay,       \* the delays the mentor's configuration gives them, in hours
    NoNaming,    \* employees whose culture has never_name_in_group
    Yesterday,   \* employees with a report of yesterday
    CatchUp,     \* the hour at which the UTC date catches up with the local one
    MaxHour,     \* bound on the clock
    MaxStarts,   \* bound on the number of chases started
    Nil,         \* no employee
    SendFaults, DBFaults, Crashes

VARIABLES
    submitted,  \* employees with a report of today
    logged,     \* chase_logs: the <<employee, step>> pairs that have a row
    run,        \* the local state of each chase
    hour,
    sent,       \* history: messages sent, per run, employee and step
    failed,     \* history: the <<employee, step>> pairs whose sending failed
    unlogged,   \* history: those sent whose row was not written
    claims,     \* history: whom a finished run called chased, whom it reached
    trigger,    \* history: the hour of the first chase, or MaxHour + 1
    starts      \* history: how many chases were started

vars == <<submitted, logged, run, hour, sent, failed, unlogged, claims, trigger,
          starts>>
history == <<sent, failed, unlogged, claims, trigger, starts>>

Steps == 1..Len(Escalation)

ActionNames == {"private_message", "public_reminder", "manager_notify", "skip_today"}

ASSUME CallersAssumption == Callers \subseteq {"job", "api", "role"}
ASSUME EscalationAssumption == Escalation \in Seq(ActionNames)
ASSUME DelayAssumption == Delay \in [Steps -> Nat]
ASSUME BoundsAssumption ==
    CatchUp \in Nat /\ MaxHour \in Nat /\ MaxStarts \in Nat
ASSUME NoNamingAssumption == NoNaming \subseteq Employees /\ Nil \notin Employees
ASSUME ChaseFaultAssumption == {SendFaults, DBFaults, Crashes} \subseteq BOOLEAN

\* A run chases emp at step; todo are the employees of its list still to
\* come, listed and reached (history) those it listed and sent a message to.
RunAt(loc, k, t, e, n, l, d) ==
    [pc |-> loc, kind |-> k, todo |-> t, emp |-> e, step |-> n,
     listed |-> l, reached |-> d]

NoRun == RunAt("idle", "none", {}, Nil, 0, {}, {})

-----------------------------------------------------------------------------
(* The escalation                                                          *)

\* GetChaseStep and the cultural override of GetEffectiveChaseStep.
Effective(e, n) ==
    LET action == IF n \in Steps THEN Escalation[n] ELSE "skip_today"
    IN  IF e \in NoNaming /\ action = "public_reminder"
        THEN "private_message" ELSE action

LoggedSteps(e) == {n \in Steps : <<e, n>> \in logged}

\* SELECT COALESCE(MAX(step), 0)
LastStep(e) ==
    CHOOSE n \in LoggedSteps(e) \cup {0} : \A m \in LoggedSteps(e) : m <= n

WithoutReport == Employees \ submitted

\* The report TriggerChase counts is that of a date truncated in UTC.
CountedSubmitted == IF hour >= CatchUp THEN submitted ELSE Yesterday

-----------------------------------------------------------------------------
(* ChaseAll                                                                *)

StartRun(r, next) ==
    /\ run[r].pc = "idle"
    /\ starts < MaxStarts
    /\ starts' = starts + 1
    /\ run' = [run EXCEPT ![r] = next]
    /\ trigger' = IF trigger > MaxHour THEN hour ELSE trigger

\* The list of employees is read once, at the start.
List(r, k) ==
    /\ k \in Callers
    /\ StartRun(r, RunAt("next", k, WithoutReport, Nil, 0, WithoutReport, {}))
    /\ UNCHANGED <<submitted, logged, hour, sent, failed, unlogged, claims>>

\* run[r] elsewhere in the loop, and with the next employee of its list.
At(r, loc, e, n) ==
    RunAt(loc, run[r].kind, run[r].todo, e, n, run[r].listed, run[r].reached)
TakeNext(r, loc, e, n) ==
    RunAt(loc, run[r].kind, run[r].todo \ {e}, e, n, run[r].listed, run[r].reached)

\* Faulty variant: an employee stays on the list.
GetStepKeepsEmployee(r, e) ==
    /\ run[r].pc = "next"
    /\ e \in run[r].todo
    /\ LET n == LastStep(e) + 1
       IN  /\ Effective(e, n) # "skip_today"
           /\ run' = [run EXCEPT ![r] = At(r, "send", e, n)]
    /\ UNCHANGED <<submitted, logged, hour, history>>

\* The next employee of the list: a failing query or "skip_today" passes on.
GetStep(r, e) ==
    /\ run[r].pc = "next"
    /\ e \in run[r].todo
    /\ LET n == LastStep(e) + 1
       IN  \/ /\ Effective(e, n) # "skip_today"
              /\ run' = [run EXCEPT ![r] = TakeNext(r, "send", e, n)]
           \/ /\ Effective(e, n) = "skip_today" \/ DBFaults
              /\ run' = [run EXCEPT ![r] = TakeNext(r, "next", e, 0)]
    /\ UNCHANGED <<submitted, logged, hour, history>>

Sent(r, e, n) == sent' = [sent EXCEPT ![<<r, e, n>>] = @ + 1]

\* Sender.Send: a failure passes on to the next employee, without a log.
Send(r) ==
    LET e == run[r].emp  n == run[r].step
    IN  /\ run[r].pc = "send"
        /\ \/ /\ Sent(r, e, n)
              /\ run' = [run EXCEPT ![r] = RunAt("log", run[r].kind, run[r].todo,
                                 e, n, run[r].listed, run[r].reached \cup {e})]
              /\ UNCHANGED failed
           \/ /\ SendFaults
              /\ run' = [run EXCEPT ![r] = At(r, "next", e, 0)]
              /\ failed' = failed \cup {<<e, n>>}
              /\ UNCHANGED sent
        /\ UNCHANGED <<submitted, logged, hour, unlogged, claims, trigger, starts>>

\* Faulty variant: the step is not logged.
LogForgotten(r) ==
    /\ run[r].pc = "log"
    /\ run' = [run EXCEPT ![r] = At(r, "next", run[r].emp, 0)]
    /\ UNCHANGED <<submitted, logged, hour, history>>

\* CreateChaseLog: an error is only reported.
Log(r) ==
    /\ run[r].pc = "log"
    /\ \/ /\ logged' = logged \cup {<<run[r].emp, run[r].step>>}
          /\ UNCHANGED unlogged
       \/ /\ DBFaults
          /\ unlogged' = unlogged \cup {<<run[r].emp, run[r].step>>}
          /\ UNCHANGED logged
    /\ run' = [run EXCEPT ![r] = At(r, "next", run[r].emp, 0)]
    /\ UNCHANGED <<submitted, hour, sent, failed, claims, trigger, starts>>

\* Faulty variant: the employee the loop came to last is named, if any or not.
FinishNamesLast(r) ==
    /\ run[r].pc = "next" /\ run[r].todo = {}
    /\ run' = [run EXCEPT ![r] = NoRun]
    /\ claims' = claims \cup {[claimed |-> WithoutReport \cup {run[r].emp},
                               reached |-> run[r].reached]}
    /\ UNCHANGED <<submitted, logged, hour, sent, failed, unlogged, trigger, starts>>

\* TriggerChase names every employee without a report as chased; the role's
\* message to the boss says that the non-submitters have been reminded.
Finish(r) ==
    LET claimed == CASE run[r].kind = "api"  -> WithoutReport
                     [] run[r].kind = "role" -> run[r].listed
                     [] OTHER -> {}
    IN  /\ run[r].pc = "next"
        /\ run[r].todo = {}
        /\ run' = [run EXCEPT ![r] = NoRun]
        /\ claims' = claims \cup {[claimed |-> claimed, reached |-> run[r].reached]}
        /\ UNCHANGED <<submitted, logged, hour, sent, failed, unlogged, trigger,
                       starts>>

-----------------------------------------------------------------------------
(* TriggerChase with a name: one reminder, no step and no log              *)

NamedCount(r, e) ==
    /\ "api" \in Callers
    /\ e \notin CountedSubmitted \/ DBFaults
    /\ StartRun(r, RunAt("named", "api", {}, e, 0, {}, {}))
    /\ UNCHANGED <<submitted, logged, hour, sent, failed, unlogged, claims>>

NamedSend(r) ==
    /\ run[r].pc = "named"
    /\ run' = [run EXCEPT ![r] = NoRun]
    /\ \/ claims' = claims \cup {[claimed |-> {run[r].emp}, reached |-> {run[r].emp}]}
       \/ SendFaults /\ UNCHANGED claims
    /\ UNCHANGED <<submitted, logged, hour, sent, failed, unlogged, trigger,
                       starts>>

-----------------------------------------------------------------------------
(* The environment                                                         *)

Submit(e) ==
    /\ e \notin submitted
    /\ submitted' = submitted \cup {e}
    /\ UNCHANGED <<logged, run, hour, history>>

Tick ==
    /\ hour < MaxHour
    /\ hour' = hour + 1
    /\ UNCHANGED <<submitted, logged, run, history>>

Crash ==
    /\ Crashes
    /\ run' = [r \in Runs |-> NoRun]
    /\ unlogged' = unlogged \cup
         {<<run[r].emp, run[r].step>> : r \in {q \in Runs : run[q].pc = "log"}}
    /\ UNCHANGED <<submitted, logged, hour, sent, failed, claims, trigger, starts>>

Init ==
    /\ submitted = {} /\ logged = {}
    /\ run = [r \in Runs |-> NoRun]
    /\ hour = 0
    /\ sent = [k \in Runs \X Employees \X Steps |-> 0]
    /\ failed = {} /\ unlogged = {} /\ claims = {}
    /\ trigger = MaxHour + 1
    /\ starts = 0

RunStep(r) ==
    \/ \E e \in Employees : GetStep(r, e)
    \/ Send(r) \/ Log(r) \/ Finish(r) \/ NamedSend(r)

Next ==
    \/ \E r \in Runs : RunStep(r)
    \/ \E r \in Runs, k \in Callers : List(r, k)
    \/ \E r \in Runs, e \in Employees : NamedCount(r, e)
    \/ \E e \in Employees : Submit(e)
    \/ Tick
    \/ Crash

Spec == Init /\ [][Next]_vars

\* The goroutine of a chase that was started runs on.
FairSpec == Spec /\ \A r \in Runs : WF_vars(RunStep(r))

-----------------------------------------------------------------------------
(* Properties                                                              *)

RunStates ==
    [pc : {"idle", "next", "send", "log", "named"},
     kind : Callers \cup {"none", "api"}, todo : SUBSET Employees,
     emp : Employees \cup {Nil}, step : Steps \cup {0},
     listed : SUBSET Employees, reached : SUBSET Employees]

\* Every variable holds a value of the program's types.
TypeOK ==
    /\ submitted \subseteq Employees
    /\ logged \subseteq Employees \X Steps
    /\ run \in [Runs -> RunStates]
    /\ hour \in 0..MaxHour
    /\ sent \in [Runs \X Employees \X Steps -> Nat]
    /\ failed \subseteq Employees \X Steps
    /\ unlogged \subseteq Employees \X Steps
    /\ claims \subseteq [claimed : SUBSET Employees, reached : SUBSET Employees]
    /\ trigger \in 0..(MaxHour + 1)
    /\ starts \in 0..MaxStarts

\* Whatever runs overlap, fail or crash, the steps of the escalation are
\* taken in order: no employee is at a step without all earlier ones in the
\* log (chaser.go:91-97, next step = MAX(step) + 1).
StepsInOrder ==
    \A e \in Employees : \A n \in LoggedSteps(e) : 1..n \subseteq LoggedSteps(e)

\* A row of chase_logs stands for a message that was really sent: the log is
\* written after the sending, never instead of it (chaser.go:119-134).
LoggedMeansSent ==
    \A e \in Employees, n \in Steps :
        <<e, n>> \in logged => \E r \in Runs : sent[<<r, e, n>>] > 0

\* A message is repeated only by runs that overlap or because its row could not
\* be written: one goroutine sends the same step of a day twice only after the
\* log of that step was lost to a failing query or a crash.
RepeatedOnlyByOverlap ==
    \A r \in Runs, e \in Employees, n \in Steps :
        sent[<<r, e, n>>] > 1 => <<e, n>> \in unlogged

\* A run gives every employee of its list at most one message, however many
\* steps other runs add meanwhile: a chase never catches up on steps.
OneMessagePerRun ==
    [][\A r \in Runs, e \in Employees, n \in Steps :
         sent'[<<r, e, n>>] # sent[<<r, e, n>>] => e \notin run[r].reached]_vars

\* A chase that was started is finished, whatever fails inside it.
RunsEnd == \A r \in Runs : run[r].pc # "idle" ~> run[r].pc = "idle"

-----------------------------------------------------------------------------
(* What the documentation says and the code does not do                    *)

\* chaser.go:68: "ChaseAll chases all employees without reports".
OnlyMissingChased ==
    [][\A r \in Runs, e \in Employees, n \in Steps :
         sent'[<<r, e, n>>] # sent[<<r, e, n>>] => e \notin submitted]_vars

\* capabilities.go:46 tells the boss that "Non-submitters have been reminded".
ClaimedMeansReached == \A c \in claims : c.claimed \subseteq c.reached

\* README.md:334: a failed message is logged to chase_logs.
FailedMeansLogged ==
    (\A r \in Runs : run[r].pc = "idle") => failed \subseteq logged

\* README.md:135: the delay of a step is a "duration from chase trigger".
DelaysKept ==
    [][\A r \in Runs, e \in Employees, n \in Steps :
         sent'[<<r, e, n>>] # sent[<<r, e, n>>] => hour >= trigger + Delay[n]]_vars

=============================================================================
