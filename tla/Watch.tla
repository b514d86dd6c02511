-------------------------------- MODULE Watch --------------------------------
(***************************************************************************)
(* What is made of the reports: the summary of a date (internal/report/    *)
(* summarizer.go), the alerts (alert.go), the mentor's triggers            *)
(* (triggers.go) and weekly actions (actions.go), and the suggestions of   *)
(* the AI roles that alerts lead to (internal/roles/capabilities.go,       *)
(* internal/api/role_handlers.go).  The summary job, the API and the       *)
(* roles run them, in goroutines of their own; a statement is a step, and  *)
(* so is a message to the boss.  PostgreSQL counts in dates of the server, *)
(* reports have the dates of the company, which is east of it.             *)
(* Everyone has a channel, and the mentor a configuration with rules.      *)
(***************************************************************************)
EXTENDS Integers, FiniteSets, Sequences, FiniteSetsExt

CONSTANTS
    Staff, Newcomers,  \* employees, and those of them who come later
    Askers,          \* who asks for summaries: "job", "request", "role"
    Checkers,        \* what else runs: "alerts", "weekly"
    Moods,           \* the sentiments the LLM finds; none without an LLM
    Workers,         \* goroutines
    Window,          \* the days that are looked back at: 7
    Long, Critical,  \* days missed that make an alert, and a critical one: 3, 5
    Often,           \* days with a report that are praised: 6
    Looked, InARow,  \* sentiments that are looked at, and negative ones that make an alert: 5, 3
    None,
    MaxDays,         \* bound: dates
    MaxRuns,         \* bound: summaries and checks begun
    MaxSuggestions,  \* bound: rows of ai_suggestions
    MaxFaults        \* bound: statements and messages that fail, crashes

VARIABLES
    today,       \* CURRENT_DATE
    local,       \* the company's date
    staff,       \* the employees: created_at, a date or 0 for long ago
    report,      \* reports, by employee and date, with their sentiment
    summary,     \* summaries, by date
    suggestion,  \* ai_suggestions: their status
    work,        \* what each goroutine is doing
    runs, faults,
    told,        \* history: the first summary of a date the boss was sent
    upset        \* history: dates whose summaries overlapped, failed or were cut off

rows == <<today, local, staff, report>>
bounds == <<runs, faults>>
history == <<told, upset>>
vars == <<rows, summary, suggestion, work, bounds, history>>

Days == 1 .. MaxDays
Idle == [at |-> "idle"]

Init ==
    /\ today = 1 /\ local = 1
    /\ staff = [e \in Staff |-> IF e \in Newcomers THEN None ELSE 0]
    /\ report = [e \in Staff |-> [d \in Days |-> "none"]]
    /\ summary = [d \in Days |-> None]
    /\ suggestion = <<>>
    /\ work = [w \in Workers |-> Idle]
    /\ runs = 0 /\ faults = 0
    /\ told = [d \in Days |-> None] /\ upset = {}

-----------------------------------------------------------------------------
(* Statements                                                              *)

\* No statement sets an employee inactive.
ListActiveEmployees == {e \in Staff : staff[e] # None}

\* The dates with a report, from a date on.
Since(e, first) == {d \in Days : d >= first /\ report[e][d] # "none"}

GetReportsByTenantDate(d) == {e \in Staff : report[e][d] # "none"}

\* A mutation: the row replaces that of the date.
ReplaceSummary(d, s) == [summary EXCEPT ![d] = s]

\* A row of the date there is already is kept, and the new one refused.
CreateSummary(d, s) == IF summary[d] = None THEN [summary EXCEPT ![d] = s] ELSE summary

\* The days without a report before today, in the window.
Missed(e) == ((today - Window) .. (today - 1)) \ Since(e, today - Window)

\* A mutation: missed days are counted before a report too.
CountMissed(e) == Cardinality(Missed(e))

\* The missed days that are later than the last report of the window.
GetConsecutiveMissDays(e) ==
    Cardinality({d \in Missed(e) : d >= Max(Since(e, today - Window) \cup {today - Window})})

\* All missed days of the window.
GetEmployeeReportStreak(e) == Cardinality(Missed(e))

GetSubmittedDaysLast7(e) == Cardinality(Since(e, today - Window))

\* The dates of a set, the latest first.
LatestFirst(S) ==
    CHOOSE s \in [1 .. Cardinality(S) -> S] : \A i, j \in DOMAIN s : i < j => s[i] > s[j]

\* The sentiments of the reports analysed, the latest first.
GetRecentSentiments(e) ==
    LET latest == LatestFirst({d \in Since(e, today - Window) : report[e][d] # "new"})
        n == Min({Looked, Len(latest)})
    IN  [i \in 1 .. n |-> report[e][latest[i]]]

CreateAISuggestion == Append(suggestion, "pending")

UpdateSuggestionStatus(i, status) == [suggestion EXCEPT ![i] = status]

-----------------------------------------------------------------------------
(* Days, employees and their reports                                       *)

\* A midnight: that of the company comes before the server's.
Midnight ==
    /\ \/ local = today /\ local < MaxDays /\ local' = local + 1 /\ UNCHANGED today
       \/ local > today /\ today' = today + 1 /\ UNCHANGED local
    /\ UNCHANGED <<staff, report, summary, suggestion, work, bounds, history>>

\* An employee comes.
CreateEmployee(e) ==
    /\ staff[e] = None
    /\ staff' = [staff EXCEPT ![e] = today]
    /\ UNCHANGED <<today, local, report, summary, suggestion, work, bounds, history>>

\* The report of the day, and its analysis, which may never come.
Submit(e) ==
    /\ e \in ListActiveEmployees /\ report[e][local] = "none"
    /\ report' = [report EXCEPT ![e][local] = "new"]
    /\ UNCHANGED <<today, local, staff, summary, suggestion, work, bounds, history>>
Analyze(e, d) ==
    /\ report[e][d] = "new"
    /\ \E sentiment \in Moods : report' = [report EXCEPT ![e][d] = sentiment]
    /\ UNCHANGED <<today, local, staff, summary, suggestion, work, bounds, history>>

-----------------------------------------------------------------------------
(* Steps and their failures                                                *)

Does(w, r) == work' = [work EXCEPT ![w] = r]
Breaks(ok) == ~ok => faults < MaxFaults
Counts(ok) == faults' = faults + (IF ok THEN 0 ELSE 1)
Begins(w, r) == work[w] = Idle /\ runs < MaxRuns /\ runs' = runs + 1 /\ Does(w, r)
Upsets(ok, d) == upset' = IF ok THEN upset ELSE upset \cup {d}

-----------------------------------------------------------------------------
(* The summary of a date                                                   *)

Summing(d) == \E w \in Workers : work[w].at \in {"reports", "count", "save", "send"} /\ work[w].date = d

\* The summary job, a request or a role begins; a role takes the server's date.
StartSummary(w) ==
    /\ \E by \in Askers :
          LET d == IF by = "role" THEN today ELSE local
          IN  /\ Begins(w, [at |-> "reports", by |-> by, date |-> d, reports |-> {}, staff |-> 0])
              /\ Upsets(~Summing(d), d)
    /\ UNCHANGED <<rows, summary, suggestion, faults, told>>

\* Generate reads the reports of the date ...
ReadReports(w) ==
    /\ work[w].at = "reports"
    /\ \E ok \in BOOLEAN :
          /\ Breaks(ok) /\ Counts(ok)
          /\ Does(w, IF ok THEN [work[w] EXCEPT !.at = "count", !.reports = GetReportsByTenantDate(work[w].date)]
                     ELSE Idle)
    /\ UNCHANGED <<rows, summary, suggestion, runs, history>>

\* ... and counts the employees that are active; the LLM, or a fallback, writes the text.
CountActiveEmployees(w) ==
    /\ work[w].at = "count"
    /\ \E ok \in BOOLEAN :
          /\ Breaks(ok) /\ Counts(ok)
          /\ Does(w, IF ok THEN [work[w] EXCEPT !.at = "save", !.staff = Cardinality(ListActiveEmployees)]
                     ELSE Idle)
    /\ UNCHANGED <<rows, summary, suggestion, runs, history>>

Content(r) == [reports |-> r.reports, staff |-> r.staff]

\* It is stored; an error is logged.
SaveSummary(w) ==
    LET r == work[w] IN
    /\ r.at = "save"
    /\ \E ok \in BOOLEAN :
          /\ Breaks(ok) /\ Counts(ok) /\ Upsets(ok, r.date)
          /\ summary' = IF ok THEN CreateSummary(r.date, Content(r)) ELSE summary
    /\ Does(w, [r EXCEPT !.at = "send"])
    /\ UNCHANGED <<rows, suggestion, runs, told>>

\* The kinds of queries about each employee a check makes.
Queries == [alerts |-> {"missed", "mood"}, triggers |-> {"streak", "often"}, weekly |-> {"days"}]
Check(by) == [at |-> "list", by |-> by, todo |-> {}, results |-> {}]

\* It is sent; the job goes on with the triggers.
SendSummary(w) ==
    LET r == work[w] IN
    /\ r.at = "send"
    /\ \E ok \in BOOLEAN :
          /\ Breaks(ok) /\ Counts(ok) /\ Upsets(ok, r.date)
          /\ told' = IF ok /\ told[r.date] = None THEN [told EXCEPT ![r.date] = Content(r)] ELSE told
          /\ Does(w, IF ok /\ r.by = "job" THEN Check("triggers") ELSE Idle)
    /\ UNCHANGED <<rows, summary, suggestion, runs>>

Summaries(w) ==
    StartSummary(w) \/ ReadReports(w) \/ CountActiveEmployees(w) \/ SaveSummary(w) \/ SendSummary(w)

-----------------------------------------------------------------------------
(* Alerts, triggers, weekly actions                                        *)

\* A role checks the alerts; on Fridays the weekly actions run.
StartCheck(w) ==
    /\ \E by \in Checkers : Begins(w, Check(by))
    /\ UNCHANGED <<rows, summary, suggestion, faults, history>>

ListEmployees(w) ==
    /\ work[w].at = "list"
    /\ \E ok \in BOOLEAN :
          /\ Breaks(ok) /\ Counts(ok)
          /\ Does(w, IF ok THEN [work[w] EXCEPT !.at = "query",
                                    !.todo = ListActiveEmployees \X Queries[work[w].by]]
                     ELSE Idle)
    /\ UNCHANGED <<rows, summary, suggestion, runs, history>>

\* A mutation: negative sentiments need not follow each other.
CountsNegatives(sentiments) ==
    Cardinality({i \in DOMAIN sentiments : sentiments[i] = "negative"}) >= InARow

\* Some of the sentiments in succession are negative.
hasSentimentDrop(sentiments) ==
    \E i \in 1 .. Len(sentiments) - InARow + 1 :
        \A k \in i .. i + InARow - 1 : sentiments[k] = "negative"

Found(e, query) ==
    CASE query = "missed" -> GetConsecutiveMissDays(e)
      [] query = "mood"   -> IF hasSentimentDrop(GetRecentSentiments(e)) THEN 1 ELSE 0
      [] query = "streak" -> GetEmployeeReportStreak(e)
      [] OTHER            -> GetSubmittedDaysLast7(e)

Threshold(query) == CASE query \in {"missed", "streak"} -> Long [] query = "often" -> Often [] OTHER -> 1

\* A query is answered; one that fails is passed over, but for the weekly ranking,
\* which shows 0 days.
Query(w) ==
    /\ work[w].at = "query"
    /\ \E m \in work[w].todo, ok \in BOOLEAN :
          LET result(n) == [who |-> m[1], query |-> m[2], found |-> n, answered |-> ok]
          IN  /\ Breaks(ok) /\ Counts(ok)
              /\ Does(w, [work[w] EXCEPT !.todo = @ \ {m}, !.results =
                    IF ok THEN @ \cup {result(Found(m[1], m[2]))}
                    ELSE IF m[2] = "days" THEN @ \cup {result(0)} ELSE @])
    /\ UNCHANGED <<rows, summary, suggestion, runs, history>>

\* The results that are told.
Fires(r) == r.found >= Threshold(r.query)
Alerts(w) == {r \in work[w].results : Fires(r)}
\* The employees a role makes a suggestion about.
CriticalAlerts(w) == {r.who : r \in {r \in Alerts(w) : r.query = "missed" /\ r.found >= Critical}}

\* The messages are sent, whether that succeeds or not.
Tell(w) ==
    /\ work[w].at = "query" /\ work[w].todo = {}
    /\ Does(w, IF work[w].by = "alerts" /\ CriticalAlerts(w) # {}
               THEN [work[w] EXCEPT !.at = "suggest", !.todo = CriticalAlerts(w)] ELSE Idle)
    /\ UNCHANGED <<rows, summary, suggestion, bounds, history>>

\* A suggestion for every critical alert; an error is logged.
Suggest(w) ==
    /\ work[w].at = "suggest"
    /\ \E e \in work[w].todo, ok \in BOOLEAN :
          LET todo == work[w].todo \ {e}
          IN  /\ Breaks(ok) /\ Counts(ok)
              /\ Len(suggestion) < MaxSuggestions
              /\ suggestion' = IF ok THEN CreateAISuggestion ELSE suggestion
              /\ Does(w, IF todo = {} THEN Idle ELSE [work[w] EXCEPT !.todo = todo])
    /\ UNCHANGED <<rows, summary, runs, history>>

Checks(w) == StartCheck(w) \/ ListEmployees(w) \/ Query(w) \/ Tell(w) \/ Suggest(w)

\* create_suggestion: a role makes a suggestion of its own.
CreateSuggestion ==
    /\ Len(suggestion) < MaxSuggestions
    /\ suggestion' = CreateAISuggestion
    /\ UNCHANGED <<rows, summary, work, bounds, history>>

\* handleApproveSuggestion, handleRejectSuggestion: the status there is does not matter.
Review ==
    /\ \E i \in DOMAIN suggestion, status \in {"approved", "rejected"} :
          suggestion' = UpdateSuggestionStatus(i, status)
    /\ UNCHANGED <<rows, summary, work, bounds, history>>

\* The process ends.
Crash ==
    /\ faults < MaxFaults /\ faults' = faults + 1
    /\ \E w \in Workers : work[w] # Idle
    /\ work' = [w \in Workers |-> Idle]
    /\ upset' = upset \cup {d \in Days : Summing(d)}
    /\ UNCHANGED <<rows, summary, suggestion, runs, told>>

Next ==
    \/ Midnight \/ CreateSuggestion \/ Review \/ Crash
    \/ \E e \in Newcomers : CreateEmployee(e)
    \/ \E e \in Staff : Submit(e) \/ \E d \in Days : Analyze(e, d)
    \/ \E w \in Workers : Summaries(w) \/ Checks(w)

Spec == Init /\ [][Next]_vars

-----------------------------------------------------------------------------
(* Properties                                                              *)

Contents == [reports : SUBSET Staff, staff : 0 .. Cardinality(Staff)]
Sentiments == {"none", "new", "negative", "other"}

\* Every variable holds a value of its type.
TypeOK ==
    /\ today \in Days /\ local \in {today, today + 1} \cap Days
    /\ staff \in [Staff -> Days \cup {0, None}]
    /\ report \in [Staff -> [Days -> Sentiments]]
    /\ summary \in [Days -> Contents \cup {None}] /\ told \in [Days -> Contents \cup {None}]
    /\ \A i \in DOMAIN suggestion : suggestion[i] \in {"pending", "approved", "rejected"}
    /\ \A w \in Workers : work[w].at \in {"idle", "reports", "count", "save", "send", "list", "query",
                                         "suggest"}
    /\ runs \in 0 .. MaxRuns /\ faults \in 0 .. MaxFaults
    /\ upset \subseteq Days

\* The days before today that were missed without a break, if there is no report since.
MissedWithoutBreak(e) ==
    IF Since(e, today) # {} THEN 0
    ELSE Max({n \in 0 .. Window : \A d \in Days : d \in (today - n) .. (today - 1) => report[e][d] = "none"})

\* The dates of the reports analysed, from one to another.
Analysed(e, first, last) == {d \in Days : d \in first .. last /\ report[e][d] \in {"negative", "other"}}

\* As many negative reports in a row as make an alert, among the latest.
Sad(e) ==
    \E first, last \in Days :
       LET ds == Analysed(e, first, last) IN
       /\ first \in ds /\ Cardinality(ds) = InARow /\ \A d \in ds : report[e][d] = "negative"
       /\ first >= today - Window /\ Cardinality(Analysed(e, first, MaxDays)) <= Looked

\* The results a step adds.
Added(w) == work'[w].results \ work[w].results

\* What the boss is told of an employee is so when it is read: the days missed in a
\* row are those up to yesterday, and as many, and there were negative reports in a
\* row if he is told so, and only then (alert.go:72, 90).
AlertsAreTrue ==
    \A w \in Workers : work[w].at = "query" /\ work'[w].at = "query" => \A r \in Added(w) :
        r.answered =>
            /\ r.query = "missed" => r.found = MissedWithoutBreak(r.who)
            /\ r.query = "mood" => (Fires(r) <=> Sad(r.who))

\* The summary the boss was first sent of a date is the one that is kept, however
\* many follow, unless two overlapped, or one failed or was cut off
\* (summarizer.go:135).
StoredIsTold == \A d \in Days \ upset : told[d] # None => summary[d] = told[d]

(* What comments, answers and documents say.                               *)

\* "%s has missed %d consecutive days of check-in" (alert.go:84): of the days there
\* was an employee, which the statement does not look at.
NewcomersMissNothing ==
    \A w \in Workers : work[w].at = "query" => \A r \in work[w].results :
        r.query = "missed" => r.found <= today - staff[r.who]

\* "checks if the last 3+ sentiments are negative" (alert.go:106): the latest may
\* be better again.
LatestIsNegative ==
    \A w \in Workers : work[w].at = "query" /\ work'[w].at = "query" => \A r \in Added(w) :
        r.query = "mood" /\ Fires(r) => report[r.who][Max(Analysed(r.who, 1, MaxDays))] = "negative"

\* "%d/7 days submitted" (actions.go:147), "6+ days out of last 7"
\* (triggers.go:133): today is an eighth.
AtMostTheWindow ==
    \A w \in Workers : work[w].at = "query" => \A r \in work[w].results :
        r.query \in {"often", "days"} => r.found <= Window

\* "%d/7 days" (actions.go:187): a query that failed counts as none.
ZeroIsCounted ==
    \A w \in Workers : work[w].at = "query" /\ work'[w].at = "query" => \A r \in Added(w) :
        r.query = "days" /\ r.found = 0 => Since(r.who, today - Window) = {}

\* "rejects a pending suggestion" (role_handlers.go:147), and one that is approved.
ReviewedOnce ==
    \A i \in DOMAIN suggestion : suggestion[i] # "pending" => suggestion'[i] = suggestion[i]

\* The summary a role makes of "today" (capabilities.go:21) is of the server's day.
RolesSumUpToday ==
    \A w \in Workers : work[w].at = "reports" /\ work[w].by = "role" => work[w].date = local
=============================================================================
