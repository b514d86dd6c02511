-------------------------- MODULE Recommendations --------------------------
(***************************************************************************)
(* The recommendations of one tenant: internal/brain/recommender.go, the   *)
(* triggers that call it and internal/api/recommendation_handlers.go.      *)
(* The daily scan, the jobs and the handlers of reports each store their   *)
(* recommendations in goroutines of their own, one SQL statement a step;   *)
(* the requests of the API execute, dismiss and delete them.               *)
(*                                                                         *)
(* created_at and expires_at, which are the window apart, are the age of a *)
(* row, in instants of a time that never ends.                             *)
(***************************************************************************)
EXTENDS Naturals, Sequences, FiniteSets

CONSTANTS
    Stores,      \* goroutines that store recommendations
    Requests,    \* goroutines of the API
    Subjects,    \* what the duplicate checks compare: "person", "pair" and others
    Ranks,       \* priorityRank: 1 "critical", 2 "high", 3 "medium", 4 "low"
    Window,      \* 72 hours, in instants
    Actions,     \* suggested_actions: by row the kinds of its actions, in order
    MaxRecs,     \* bound: rows
    MaxFaults    \* bound: failed statements and crashes

ASSUME NatAssumption == {Window, MaxRecs, MaxFaults} \subseteq Nat /\ Window > 0
ASSUME RankAssumption == Ranks \subseteq 1 .. 4
ASSUME ProcAssumption == Stores \cap Requests = {}

\* What Dispatcher.Execute may return for an action, by kind of action.  A meeting,
\* a message, a task or a flagged risk takes effect or is an error; a public
\* recognition or an organisation suggestion changes nothing and reports success;
\* reassign_task and adjust_target are left to the boss, without an error.
Results ==
    [works |-> {"effect", "error"}, said |-> {"nothing", "error"},
     left |-> {"nothing"}, unknown |-> {"error"}]
ASSUME ActionsAssumption == \A a \in 1 .. MaxRecs : Actions[a] \in Seq(DOMAIN Results)

VARIABLES
    recs,       \* the rows of recommendations, in order of creation
    pc,         \* where each goroutine is
    loc,        \* what each goroutine has read
    effects,    \* history: <<row, action>> for each action that took effect
    replaced,   \* history: for which priority a store expired each row, or 0
    refused,    \* history: the rows expired for one that a CHECK then refused
    overlapped, \* history: the subjects for which two stores overlapped
    faults      \* history: the number of faults

vars == <<recs, pc, loc, effects, replaced, refused, overlapped, faults>>
history == <<effects, replaced, refused, overlapped>>

Procs == Stores \cup Requests
Ids == 1 .. MaxRecs

Statuses == {"pending", "accepted", "dismissed", "executed", "expired", "deleted"}

NoRec == [status |-> "none"]
\* The age matters, and is counted, only until the row is as old as the window,
\* and only while it is pending.
Recs == [status : Statuses, subject : Subjects, rank : Ranks, age : 0 .. Window]

\* The CHECK on recommendations.source.
Accepted(source) == source \in {"daily_scan", "realtime_trigger"}

\* Who stores what.  The scan stores what the LLM thinks of.  Of the mentor's
\* triggers only exceptional_performance has both an event that can match and
\* a template; the world model finds blocked employees and pairs of them; the
\* memories of an employee show patterns.
Input(source, subjects, ranks) ==
    [source : {source}, subject : subjects \cap Subjects, rank : ranks \cap Ranks]
ScanInputs == Input("daily_scan", Subjects, Ranks)
TriggerInputs == Input("realtime_trigger", {"person"}, {3})
WorldModelInputs ==
    Input("realtime_trigger", {"person"}, {2}) \cup Input("realtime_trigger", {"pair"}, {3})
MemoryInputs ==
    Input("memory_trigger", {"person"}, {2, 3}) \cup Input("memory_trigger", {"blocker"}, {2})
Inputs == ScanInputs \cup TriggerInputs \cup WorldModelInputs \cup MemoryInputs

Locations == {"idle", "expiring", "creating", "executing"}
NoInput == [source |-> "none", subject |-> "none", rank |-> 0]

\* A store remembers its input and the row to expire (0: none), a request its
\* row, the actions still to run and the status to write.
Locals ==
    [input : Inputs \cup {NoInput}, row : Ids \cup {0}, todo : SUBSET Nat,
     write : {"accepted", "executed"}]
Holding(in, a) == [input |-> in, row |-> a, todo |-> {}, write |-> "accepted"]
Running(a, todo, s) == [input |-> NoInput, row |-> a, todo |-> todo, write |-> s]
Nothing == Holding(NoInput, 0)

Stored == {a \in Ids : recs[a].status # "none"}
Present == {a \in Stored : recs[a].status # "deleted"}

-----------------------------------------------------------------------------
Init ==
    /\ recs = [a \in Ids |-> NoRec]
    /\ pc = [p \in Procs |-> "idle"]
    /\ loc = [p \in Procs |-> Nothing]
    /\ effects = {}
    /\ replaced = [a \in Ids |-> 0]
    /\ refused = {}
    /\ overlapped = {}
    /\ faults = 0

\* A statement takes effect, or fails and is at most logged.
Fault == faults < MaxFaults /\ faults' = faults + 1
Written(ok) == IF ok THEN UNCHANGED faults ELSE Fault

Goes(p, where, what) ==
    /\ pc' = [pc EXCEPT ![p] = where]
    /\ loc' = [loc EXCEPT ![p] = what]

\* A row with another status and age.
Changed(a, s, g) ==
    [status |-> s, subject |-> recs[a].subject, rank |-> recs[a].rank, age |-> g]

\* UpdateRecommendationStatus, which looks at no status; a deleted row is gone.
Mark(a, s) ==
    recs' = IF a \in Present THEN [recs EXCEPT ![a] = Changed(a, s, 0)] ELSE recs

-----------------------------------------------------------------------------
(* storeIfNew                                                              *)

Storing(s) == {p \in Stores : pc[p] \in {"expiring", "creating"} /\ loc[p].input.subject = s}

Pending(s) == {a \in Stored : recs[a].status = "pending" /\ recs[a].subject = s}

\* A mutation: the window is an instant short.
FoundLate(s) == {a \in Pending(s) : recs[a].age + 1 < Window}

\* The rows FindDuplicateRecommendation or FindDuplicateOrgRecommendation may find.
Found(s) == {a \in Pending(s) : recs[a].age < Window}

\* A mutation: the new recommendation need not be better.
BetterOrEqual(rank, a) == rank <= recs[a].rank

Better(rank, a) == rank < recs[a].rank

\* The search finds one of the duplicates, and the store ends there unless it is
\* better; a search that finds none, or fails, lets it create.
Find(p, in, ok) ==
    /\ p \in Stores /\ pc[p] = "idle"
    /\ \/ /\ ok
          /\ \E a \in Found(in.subject) :
                Better(in.rank, a) /\ Goes(p, "expiring", Holding(in, a))
       \/ /\ ok => Found(in.subject) = {}
          /\ Goes(p, "creating", Holding(in, 0))
    /\ Written(ok)
    /\ overlapped' = IF Storing(in.subject) # {} THEN overlapped \cup {in.subject} ELSE overlapped
    /\ UNCHANGED <<recs, effects, replaced, refused>>

\* The duplicate is expired, whatever it is by now; an error is ignored.
Expire(p, ok) ==
    /\ pc[p] = "expiring"
    /\ IF ok THEN /\ Mark(loc[p].row, "expired")
                  /\ replaced' = [replaced EXCEPT ![loc[p].row] = loc[p].input.rank]
             ELSE UNCHANGED <<recs, replaced>>
    /\ Written(ok)
    /\ Goes(p, "creating", loc[p])
    /\ UNCHANGED <<effects, refused, overlapped>>

\* A mutation: the priority of the row is lost.
NewRecLow(in) == [status |-> "pending", subject |-> in.subject, rank |-> 4, age |-> 0]

NewRec(in) == [status |-> "pending", subject |-> in.subject, rank |-> in.rank, age |-> 0]

\* CreateRecommendation, which fails for a source that the CHECK refuses.
Create(p, ok) ==
    /\ pc[p] = "creating"
    /\ LET in == loc[p].input
       IN  IF Accepted(in.source)
           THEN /\ Stored # Ids
                /\ \E a \in Ids \ Stored :
                      /\ \A b \in Ids \ Stored : a <= b
                      /\ recs' = IF ok THEN [recs EXCEPT ![a] = NewRec(in)] ELSE recs
                /\ UNCHANGED refused
           ELSE /\ ok
                /\ refused' = IF loc[p].row # 0 THEN refused \cup {loc[p].row} ELSE refused
                /\ UNCHANGED recs
    /\ Written(ok)
    /\ Goes(p, "idle", Nothing)
    /\ UNCHANGED <<effects, replaced, overlapped>>

-----------------------------------------------------------------------------
(* The requests                                                            *)

\* All actions of a row, or one, whatever its status; only after all may it become
\* "executed".  The actions of a row never change, so its load is no step.
Execute(p, a) ==
    /\ p \in Requests /\ pc[p] = "idle"
    /\ a \in Present
    /\ \/ Goes(p, "executing", Running(a, DOMAIN Actions[a], "executed"))
       \/ \E i \in DOMAIN Actions[a] : Goes(p, "executing", Running(a, {i}, "accepted"))
    /\ UNCHANGED <<recs, history, faults>>

\* A mutation: the results are not looked at.
OutcomeUnseen(result, status) == status

\* One result with an error, and the row is not executed.
Outcome(result, status) == IF result = "error" THEN "accepted" ELSE status

\* The actions run one after the other; one that fails does not stop the others.
Act(p, i, result) ==
    LET a == loc[p].row
    IN  /\ pc[p] = "executing"
        /\ i \in loc[p].todo /\ \A j \in loc[p].todo : i <= j
        /\ result \in Results[Actions[a][i]]
        /\ effects' = IF result = "effect" THEN effects \cup {<<a, i>>} ELSE effects
        /\ Goes(p, "executing", Running(a, loc[p].todo \ {i}, Outcome(result, loc[p].write)))
        /\ UNCHANGED <<recs, replaced, refused, overlapped, faults>>

MarkExecuted(p, ok) ==
    /\ pc[p] = "executing" /\ loc[p].todo = {}
    /\ IF ok THEN Mark(loc[p].row, loc[p].write) ELSE UNCHANGED recs
    /\ Written(ok)
    /\ Goes(p, "idle", Nothing)
    /\ UNCHANGED history

Dismiss(a) ==
    /\ a \in Present
    /\ Mark(a, "dismissed")
    /\ UNCHANGED <<pc, loc, history, faults>>

Delete(a) ==
    /\ a \in Present /\ recs[a].status \in {"dismissed", "expired"}
    /\ Mark(a, "deleted")
    /\ UNCHANGED <<pc, loc, history, faults>>

-----------------------------------------------------------------------------
\* ExpireOldRecommendations, which a scan, of the day or of an administrator,
\* runs before it asks the LLM; its error is ignored.
Old(a) == recs[a].status = "pending" /\ recs[a].age = Window
Scan ==
    /\ \E a \in Stored : Old(a)
    /\ recs' = [a \in Ids |->
                  IF a \in Stored /\ Old(a) THEN Changed(a, "expired", 0) ELSE recs[a]]
    /\ UNCHANGED <<pc, loc, history, faults>>

\* Time passes.
Young(a) == recs[a].status = "pending" /\ recs[a].age < Window
Tick ==
    /\ recs' = [a \in Ids |->
                  IF a \in Stored /\ Young(a) THEN Changed(a, "pending", recs[a].age + 1)
                  ELSE recs[a]]
    /\ UNCHANGED <<pc, loc, history, faults>>

\* The process dies and starts again.
Crash ==
    /\ \E p \in Procs : pc[p] # "idle"
    /\ pc' = [p \in Procs |-> "idle"]
    /\ loc' = [p \in Procs |-> Nothing]
    /\ Fault
    /\ UNCHANGED <<recs, history>>

Store(p) ==
    \E ok \in BOOLEAN :
        \/ \E in \in Inputs : Find(p, in, ok)
        \/ Expire(p, ok)
        \/ Create(p, ok)

Request(p) ==
    \/ \E a \in Ids : Execute(p, a)
    \/ \E i \in loc[p].todo : \E result \in {"effect", "nothing", "error"} : Act(p, i, result)
    \/ \E ok \in BOOLEAN : MarkExecuted(p, ok)

Next ==
    \/ \E p \in Procs : Store(p) \/ Request(p)
    \/ \E a \in Ids : Dismiss(a) \/ Delete(a)
    \/ Scan
    \/ Tick
    \/ Crash

Spec == Init /\ [][Next]_vars

-----------------------------------------------------------------------------
(* Properties                                                              *)

\* Every variable has its type, stores and requests keep to their steps, and
\* the rows fill the table from its start.
TypeOK ==
    /\ recs \in [Ids -> Recs \cup {NoRec}]
    /\ pc \in [Procs -> Locations]
    /\ loc \in [Procs -> Locals]
    /\ effects \subseteq Stored \X Nat
    /\ replaced \in [Ids -> Ranks \cup {0}]
    /\ refused \subseteq Stored
    /\ overlapped \subseteq Subjects
    /\ faults \in 0 .. MaxFaults
    /\ \A p \in Procs :
        /\ pc[p] \in {"expiring", "creating"} => p \in Stores /\ loc[p].input \in Inputs
        /\ pc[p] = "executing" => p \in Requests /\ loc[p].todo \subseteq DOMAIN Actions[loc[p].row]
        /\ pc[p] \in {"expiring", "executing"} => loc[p].row # 0
        /\ loc[p].row # 0 => loc[p].row \in Stored

\* The boss is shown one recommendation per subject (recommender.go:222-266): of
\* the pending ones of a subject at most one is younger than the window, unless
\* stores for it overlapped or a statement failed.
Live(s) == {a \in Pending(s) : recs[a].age < Window}
OneLivePending ==
    faults = 0 => \A s \in Subjects \ overlapped : \A a, b \in Live(s) : a = b

\* A recommendation is expired early only for a better one (recommender.go:237-266):
\* that one has been stored, or is about to be, unless a statement failed, the
\* process died, or the CHECK refused it.
ReplacedByBetter ==
    faults = 0 =>
        \A a \in Stored \ refused : replaced[a] # 0 =>
            \/ \E b \in Stored : /\ recs[b].subject = recs[a].subject
                                 /\ recs[b].rank = replaced[a] /\ recs[b].rank < recs[a].rank
            \/ \E p \in Stores : pc[p] = "creating" /\ loc[p].row = a

\* The status of a row tells what was done for it (dispatcher.go:77-93,
\* recommendation_handlers.go:126-133, 176-199), however requests, stores, scans,
\* failing actions and crashes interleave: for an executed row every action that
\* has an effect took effect, and none is of a kind that only fails; and for a
\* pending row nothing was done, unless a request is at it, a status was not written
\* or the process died.  Actions without an effect, those left to the boss and an
\* empty list count as executed.
Passed(a, i) ==
    LET results == Results[Actions[a][i]]
    IN  IF "effect" \in results THEN <<a, i>> \in effects ELSE "nothing" \in results
MarkedAsPerformed ==
    /\ \A a \in Stored : recs[a].status = "executed" => \A i \in DOMAIN Actions[a] : Passed(a, i)
    /\ faults = 0 =>
          \A done \in effects : recs[done[1]].status = "pending" =>
              \E p \in Requests : pc[p] = "executing" /\ loc[p].row = done[1]

-----------------------------------------------------------------------------
(* What the documents say and the code does not do                         *)

\* "Dedup against pending recommendations"
\* (docs/superpowers/specs/2026-03-26-ai-recommendation-engine-design.md:211), with
\* no word of stores that overlap.
NeverTwo == faults = 0 => \A s \in Subjects : \A a, b \in Live(s) : a = b

\* "If new recommendation has higher priority -> expire old one, create new"
\* (design.md:250): no recommendation is expired for one that is never stored.
NeverRefused == faults = 0 => refused = {}

\* "Match on: ... status = pending", "expire old one" (design.md:248-250): what was
\* executed is not expired for a new recommendation.
OnlyPendingExpired ==
    [][\A a \in Ids : recs[a].status = "executed" => recs'[a].status # "expired"]_vars

\* "The recommendation stays `pending` until all executable actions succeed (or boss
\* dismisses it)" (design.md:354); it may expire, too.
PendingUntilPerformed ==
    [][\A a \in Stored :
          recs[a].status = "pending" /\ recs'[a].status \in {"accepted", "executed"}
              => \A i \in DOMAIN Actions[a] : Passed(a, i)]_vars

\* "marks as "executed" if all succeed" (recommendation_handlers.go:153), "Recognition
\* sent" (dispatcher.go:304): an executed row has had an effect.
ExecutedHadEffect ==
    \A a \in Stored : recs[a].status = "executed" => \E i \in DOMAIN Actions[a] : <<a, i>> \in effects
=============================================================================
