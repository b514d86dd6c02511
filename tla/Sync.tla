-------------------------------- MODULE Sync --------------------------------
(***************************************************************************)
(* The synchronisation with Notion and Sheets (internal/api/               *)
(* sync_handlers.go, queries in sync.sql.go).  The agent of the skill, not *)
(* part of this code, asks for the manifest of a storage, the rows changed *)
(* since its last synchronisation, pushes them, and reports the result,    *)
(* which moves the last synchronisation to the time of the report.  Every  *)
(* statement is a step; agents may synchronise a storage at the same time. *)
(* The clock counts the changes of rows, all of them within thirty days.   *)
(***************************************************************************)
EXTENDS Naturals, Sequences, FiniteSets

CONSTANTS
    Storages,    \* storage types: notion, sheets
    Tables,      \* the number of tables in a manifest; a row of each is followed
    Agents,      \* the agent's sessions
    MaxChanges,  \* bound: changes of rows
    MaxSessions, \* bound: synchronisations begun
    MaxFaults    \* bound: statements that fail, sessions and requests that break off

VARIABLES
    changed,     \* the updated_at of each table's row; 0 is before all this
    config,      \* sync_configs: if there is a row, and its last_sync_at
    log,         \* sync_logs: storage and status
    agent,       \* what each session is doing
    clock, sessions, faults,
    shown,       \* history: the rows in a manifest of the storage since they changed
    excused      \* history: the rows that changed, or whose query failed, under way

history == <<shown, excused>>
bounds == <<clock, sessions, faults>>
vars == <<changed, config, log, agent, bounds, history>>

Idle == [at |-> "idle"]

\* last_sync_at is NULL, or thirty days ago.
Never == 0

Init ==
    /\ changed = [t \in 1 .. Tables |-> 0]
    /\ config = [s \in Storages |-> [set |-> FALSE, last |-> Never]]
    /\ log = <<>>
    /\ agent = [a \in Agents |-> Idle]
    /\ clock = 0 /\ sessions = 0 /\ faults = 0
    /\ shown = [s \in Storages |-> {}] /\ excused = [s \in Storages |-> {}]

Does(a, r) == agent' = [agent EXCEPT ![a] = r]
Breaks(ok) == ~ok => faults < MaxFaults
Counts(ok) == faults' = faults + (IF ok THEN 0 ELSE 1)

UnderWay(s) == \E a \in Agents : agent[a].at # "idle" /\ agent[a].storage = s

-----------------------------------------------------------------------------
(* Statements                                                              *)

Configured == {s \in Storages : config[s].set}

\* A new row, or the settings of the one there is: its last synchronisation stays.
CreateSyncConfig(s) == [config EXCEPT ![s].set = TRUE]

\* The time of the last synchronisation; thirty days ago if it is not known.
GetSyncConfig(s, ok) == IF ok /\ s \in Configured THEN config[s].last ELSE Never

\* Tasks, goals, projects and metrics, each by its own query.
GetChanged(t, since) == IF changed[t] > since THEN {t} ELSE {}

CreateSyncLog(s) == Append(log, [of |-> s, status |-> "running"])

CompleteSyncLog(n, status) == [log EXCEPT ![n].status = status]

\* A mutation: the statement goes by the tenant, not by the row's id.
UpdateLastSyncOfTenant(s) ==
    [r \in Storages |-> IF r \in Configured THEN [set |-> TRUE, last |-> clock] ELSE config[r]]

UpdateLastSync(s) == [config EXCEPT ![s].last = clock]

-----------------------------------------------------------------------------
(* Changes and settings                                                    *)

\* A row changes.
Change(t) ==
    /\ clock < MaxChanges /\ clock' = clock + 1
    /\ changed' = [changed EXCEPT ![t] = clock + 1]
    /\ shown' = [s \in Storages |-> shown[s] \ {t}]
    /\ excused' = [s \in Storages |-> IF UnderWay(s) THEN excused[s] \cup {t} ELSE excused[s] \ {t}]
    /\ UNCHANGED <<config, log, agent, sessions, faults>>

\* handleConfigureSync
Configure(s) ==
    /\ config' = CreateSyncConfig(s)
    /\ UNCHANGED <<changed, log, agent, bounds, history>>

-----------------------------------------------------------------------------
(* A synchronisation                                                       *)

\* handleGetSyncManifest reads the time of the last synchronisation.
GetManifest(a, s) ==
    /\ agent[a] = Idle /\ sessions < MaxSessions
    /\ sessions' = sessions + 1
    /\ \E ok \in BOOLEAN :
          /\ Breaks(ok) /\ Counts(ok)
          /\ Does(a, [at |-> "manifest", storage |-> s, since |-> GetSyncConfig(s, ok),
                      table |-> 1, rows |-> {}, log |-> 0])
    /\ UNCHANGED <<changed, config, log, clock, history>>

\* It queries the next table; the rows of a query that fails are left out.
\* The agent is done if it is shown no rows.
QueryTable(a) ==
    LET t == agent[a].table  s == agent[a].storage IN
    /\ agent[a].at = "manifest"
    /\ \E ok \in BOOLEAN :
          LET rows == agent[a].rows \cup (IF ok THEN GetChanged(t, agent[a].since) ELSE {})
          IN  /\ Breaks(ok) /\ Counts(ok)
              /\ Does(a, IF t < Tables THEN [agent[a] EXCEPT !.table = t + 1, !.rows = rows]
                         ELSE IF rows = {} THEN Idle
                         ELSE [agent[a] EXCEPT !.at = "push", !.rows = rows])
              /\ shown' = IF ok THEN [shown EXCEPT ![s] = @ \cup GetChanged(t, agent[a].since)] ELSE shown
              /\ excused' = IF ok THEN excused ELSE [excused EXCEPT ![s] = @ \cup {t}]
    /\ UNCHANGED <<changed, config, log, clock, sessions>>

\* handleReportSyncResult: without a configuration it answers 404; else it opens a log.
ReportResult(a) ==
    LET s == agent[a].storage IN
    /\ agent[a].at = "push"
    /\ \E ok \in BOOLEAN :
          /\ Breaks(ok) /\ Counts(ok)
          /\ IF ok /\ s \in Configured
             THEN log' = CreateSyncLog(s) /\ Does(a, [agent[a] EXCEPT !.at = "complete", !.log = Len(log) + 1])
             ELSE Does(a, Idle) /\ UNCHANGED log
    /\ UNCHANGED <<changed, config, clock, sessions, history>>

\* It completes the log, with errors if the agent had any.
Complete(a) ==
    /\ agent[a].at = "complete"
    /\ \E ok \in BOOLEAN :
          /\ Breaks(ok) /\ Counts(ok)
          /\ IF ok
             THEN /\ \E status \in {"completed", "completed_with_errors"} :
                        log' = CompleteSyncLog(agent[a].log, status)
                  /\ Does(a, [agent[a] EXCEPT !.at = "last"])
             ELSE Does(a, Idle) /\ UNCHANGED log
    /\ UNCHANGED <<changed, config, clock, sessions, history>>

\* And it sets the time of the last synchronisation; an error is logged.
SetLastSync(a) ==
    /\ agent[a].at = "last"
    /\ \E ok \in BOOLEAN :
          /\ Breaks(ok) /\ Counts(ok)
          /\ config' = IF ok THEN UpdateLastSync(agent[a].storage) ELSE config
    /\ Does(a, Idle)
    /\ UNCHANGED <<changed, log, clock, sessions, history>>

\* A session, or the process within its request, ends.
BreakOff(a) ==
    /\ agent[a] # Idle /\ faults < MaxFaults
    /\ faults' = faults + 1
    /\ Does(a, Idle)
    /\ UNCHANGED <<changed, config, log, clock, sessions, history>>

Next ==
    \/ \E t \in 1 .. Tables : Change(t)
    \/ \E s \in Storages : Configure(s)
    \/ \E a \in Agents :
          \/ \E s \in Storages : GetManifest(a, s)
          \/ QueryTable(a) \/ ReportResult(a) \/ Complete(a) \/ SetLastSync(a) \/ BreakOff(a)

Spec == Init /\ [][Next]_vars

-----------------------------------------------------------------------------
(* Properties                                                              *)

Status == {"running", "completed", "completed_with_errors"}
Session ==
    [at : {"manifest", "push", "complete", "last"}, storage : Storages, since : Nat,
     table : 1 .. Tables, rows : SUBSET (1 .. Tables), log : Nat]

\* Every variable holds a value of its type, and no time is later than now.
TypeOK ==
    /\ clock \in Nat /\ sessions \in Nat /\ faults \in Nat
    /\ changed \in [1 .. Tables -> Nat] /\ \A t \in 1 .. Tables : changed[t] <= clock
    /\ config \in [Storages -> [set : BOOLEAN, last : Nat]] /\ \A s \in Storages : config[s].last <= clock
    /\ log \in Seq([of : Storages, status : Status])
    /\ agent \in [Agents -> Session \cup {Idle}]
    /\ \A a \in Agents : agent[a].at = "complete" => agent[a].log \in DOMAIN log
    /\ shown \in [Storages -> SUBSET (1 .. Tables)] /\ excused \in [Storages -> SUBSET (1 .. Tables)]

\* The rows the next manifest of a storage leaves out for their age.
Behind(s) == {t \in 1 .. Tables : s \in Configured /\ changed[t] \in 1 .. config[s].last}

\* A change is left out of all later manifests only if a manifest has shown it,
\* if it was made between a manifest and its result, or if its query failed:
\* however the sessions of one storage or two overlap, fail and begin again
\* (sync_handlers.go:174).
OnlyTheseAreMissed == \A s \in Storages : Behind(s) \subseteq shown[s] \cup excused[s]

(* What a comment says.                                                    *)

\* "returns changed entities since last sync" (sync_handlers.go:15): the last
\* synchronisation is the time of the report, not that of the manifest.
NothingIsMissed == \A s \in Storages : Behind(s) \subseteq shown[s]
=============================================================================
