------------------------------- MODULE Signals -------------------------------
(***************************************************************************)
(* What the brain knows of the company from elsewhere: the webhooks of     *)
(* HalaOS (internal/api/halaos_webhook.go), which become signals and       *)
(* events of an employee found, linked or created on the way               *)
(* (internal/brain/halaos_mapper.go), the state engine's own signals,      *)
(* events and working memory (internal/brain/state_engine.go, the job      *)
(* brain_signals and the subscriber of report.submitted), and what is      *)
(* read back (state_handlers.go, context_service.go).                      *)
(*                                                                         *)
(* A statement, and a call of the LLM, is a step.  HalaOS delivers a       *)
(* webhook again when it has no answer or an error, and may do so while an *)
(* earlier delivery is under way.  One tenant; the webhook's signature is  *)
(* right and the mapper is wired.                                          *)
(***************************************************************************)
EXTENDS Naturals, Sequences, FiniteSets

CONSTANTS
    Webhooks,   \* the keys HalaOS gives its webhooks
    Body,       \* of a webhook: its type, the score, and the employees it is about
    Known,      \* the employees there at first, as <<halaos_employee_id, halaos_employee_no>>
    Reports,    \* submitted reports
    Workers,    \* goroutines
    MaxRows,    \* bound: employees
    MaxSent,    \* bound: deliveries, reports' events and runs of the job
    MaxAge,     \* bound: passing of time
    MaxFaults   \* bound: statements and calls that fail, crashes

VARIABLES
    employee,   \* the rows, by id: their HalaOS id and number
    recorded,   \* halaos_events
    signal,     \* execution_signals
    event,      \* communication_events
    memory,     \* working_memory_snapshots: their types
    work,       \* what each goroutine is doing
    sent, age, faults,
    applied,    \* history: the rows made by each webhook, by the place in its body
    disturbed,    \* history: webhooks delivered at the same time or cut off
    dropped     \* history: places of webhooks that failed

tables == <<employee, recorded, signal, event, memory>>
ghosts == <<applied, disturbed, dropped>>
vars == <<tables, work, sent, age, faults, ghosts>>

\* An id or a number of 0 is NULL, or missing in a webhook.
Idle == [at |-> "idle"]
Ids == 1 .. Len(employee)

Init ==
    /\ employee = Known
    /\ recorded = {} /\ signal = <<>> /\ event = <<>> /\ memory = <<>>
    /\ work = [w \in Workers |-> Idle]
    /\ sent = 0 /\ age = 0 /\ faults = 0
    /\ applied = [k \in Webhooks |-> [i \in DOMAIN Body[k].of |-> 0]]
    /\ disturbed = {} /\ dropped = {}

-----------------------------------------------------------------------------
(* Statements                                                              *)

\* A mutation: an event is taken for a new one.
NoEventByKey(k) == k \in {}

GetHalaOSEventByKey(k) == k \in recorded

GetEmployeeByHalaOSID(id) == {i \in Ids : id # 0 /\ employee[i].id = id}

GetEmployeeByHalaOSNo(no) == {i \in Ids : employee[i].no = no}

\* The unique index refuses a second employee of a HalaOS id.
Unique(id, i) == id = 0 \/ GetEmployeeByHalaOSID(id) \subseteq {i}

CreateEmployeeFromHalaOS(h) == Append(employee, h)

UpdateEmployeeHalaOSLink(i, h) == [employee EXCEPT ![i] = h]

\* A signal of an employee, generated now.
CreateExecutionSignal(i, type, score) ==
    Append(signal, [subject |-> i, type |-> type, score |-> score, at |-> age])

\* An event, that occurred now.
CreateCommunicationEvent(i, type, source) ==
    Append(event, [actor |-> i, type |-> type, source |-> source, at |-> age])

\* The time that is not given: no row is found to be as young as NULL.
Null == MaxAge + 1

\* The rows not older than a time.
Since(rows, t) == {n \in DOMAIN rows : rows[n].at >= t}

RiskTypes == {"flight_risk", "burnout_risk"}

GetTopRisks(t) == {n \in Since(signal, t) : signal[n].type \in RiskTypes}

ListCommunicationEvents(t) == Since(event, t)

CountHighRiskSignals(type, t) ==
    Cardinality({n \in Since(signal, t) : signal[n].type = type /\ signal[n].score = "high"})

CreateWorkingMemorySnapshot(type) == Append(memory, type)

\* The last of the type, if there is one.
GetLatestSnapshot(type) ==
    {n \in DOMAIN memory : memory[n] = type /\ \A k \in DOMAIN memory : memory[k] = type => k <= n}

-----------------------------------------------------------------------------
(* Steps and their failures                                                *)

Does(w, r) == work' = [work EXCEPT ![w] = r]
Breaks(ok) == ~ok => faults < MaxFaults
Counts(ok) == faults' = faults + (IF ok THEN 0 ELSE 1)

\* The place in the body the goroutine w is at.
Place(w) == Body[work[w].key].of[work[w].n]

\* A delivery of the webhook k is under way.
UnderWay(k) == \E w \in Workers : work[w].at # "idle" /\ work[w].key = k

\* A goroutine starts something.
Begins(w, r) ==
    /\ work[w] = Idle /\ sent < MaxSent
    /\ sent' = sent + 1
    /\ Does(w, r)

-----------------------------------------------------------------------------
(* HandleWebhook                                                           *)

Delivery(k) == [at |-> "check", key |-> k, n |-> 1, who |-> 0]

\* HalaOS delivers a webhook, or delivers it again.
Deliver(w, k) ==
    /\ Begins(w, Delivery(k))
    /\ disturbed' = IF UnderWay(k) THEN disturbed \cup {k} ELSE disturbed
    /\ UNCHANGED <<tables, age, faults, applied, dropped>>

\* A mutation: the webhook is recorded as soon as it comes.
CheckAndRecord(w) ==
    /\ work[w].at = "check"
    /\ IF GetHalaOSEventByKey(work[w].key) THEN Does(w, Idle)
       ELSE Does(w, [work[w] EXCEPT !.at = "by id"])
    /\ recorded' = recorded \cup {work[w].key}
    /\ UNCHANGED <<employee, signal, event, memory, sent, age, faults, ghosts>>

\* The webhook is answered if it is recorded; an error is answered with 500.
CheckEvent(w) ==
    /\ work[w].at = "check"
    /\ \E ok \in BOOLEAN :
          /\ Breaks(ok) /\ Counts(ok)
          /\ Does(w, IF ~ok \/ GetHalaOSEventByKey(work[w].key) THEN Idle
                     ELSE [work[w] EXCEPT !.at = "by id"])
    /\ UNCHANGED <<tables, sent, age, ghosts>>

\* The mapper goes on with the next anomaly of an attendance webhook; the other
\* types have a body of one.
Onward(r) ==
    IF r.n < Len(Body[r.key].of) THEN [r EXCEPT !.at = "by id", !.n = @ + 1]
    ELSE [r EXCEPT !.at = "record"]

\* What failed is logged; the webhook is recorded nevertheless.
Fails(w) ==
    /\ Does(w, Onward(work[w]))
    /\ dropped' = dropped \cup {<<work[w].key, work[w].n>>}

\* ResolveEmployee: by the HalaOS id.
ResolveById(w) ==
    LET h == Place(w) IN
    /\ work[w].at = "by id"
    /\ \E ok \in BOOLEAN :
          /\ Breaks(ok) /\ Counts(ok)
          /\ \/ ~ok /\ Fails(w)
             \/ /\ ok /\ UNCHANGED dropped
                /\ \/ \E i \in GetEmployeeByHalaOSID(h.id) :
                         Does(w, [work[w] EXCEPT !.at = "store", !.who = i])
                   \/ /\ GetEmployeeByHalaOSID(h.id) = {}
                      /\ Does(w, [work[w] EXCEPT !.at = IF h.no # 0 THEN "by no" ELSE "create"])
    /\ UNCHANGED <<tables, sent, age, applied, disturbed>>

\* A mutation: an employee unknown by the id is created.
ResolveByIdOnly(w) ==
    /\ work[w].at = "by no"
    /\ Does(w, [work[w] EXCEPT !.at = "create"])
    /\ UNCHANGED <<tables, sent, age, faults, ghosts>>

\* By the number.
ResolveByNo(w) ==
    LET h == Place(w) IN
    /\ work[w].at = "by no"
    /\ \E ok \in BOOLEAN :
          /\ Breaks(ok) /\ Counts(ok)
          /\ \/ ~ok /\ Fails(w)
             \/ /\ ok /\ UNCHANGED dropped
                /\ \/ \E i \in GetEmployeeByHalaOSNo(h.no) :
                         Does(w, [work[w] EXCEPT !.at = IF h.id # 0 THEN "link" ELSE "store",
                                                 !.who = i])
                   \/ /\ GetEmployeeByHalaOSNo(h.no) = {}
                      /\ Does(w, [work[w] EXCEPT !.at = "create"])
    /\ UNCHANGED <<tables, sent, age, applied, disturbed>>

\* The id is filled in; nobody looks whether that succeeds.
LinkEmployee(w) ==
    LET h == Place(w)  i == work[w].who IN
    /\ work[w].at = "link"
    /\ \E ok \in BOOLEAN :
          /\ Breaks(ok) /\ Counts(ok)
          /\ employee' = IF ok /\ Unique(h.id, i) THEN UpdateEmployeeHalaOSLink(i, h) ELSE employee
    /\ Does(w, [work[w] EXCEPT !.at = "store"])
    /\ UNCHANGED <<recorded, signal, event, memory, sent, age, ghosts>>

\* An employee is created.
CreateEmployee(w) ==
    LET h == Place(w) IN
    /\ work[w].at = "create" /\ Len(employee) < MaxRows
    /\ \E ok \in BOOLEAN :
          /\ Breaks(ok) /\ Counts(ok)
          /\ IF ok /\ Unique(h.id, 0)
             THEN /\ employee' = CreateEmployeeFromHalaOS(h)
                  /\ Does(w, [work[w] EXCEPT !.at = "store", !.who = Len(employee) + 1])
                  /\ UNCHANGED dropped
             ELSE UNCHANGED employee /\ Fails(w)
    /\ UNCHANGED <<recorded, signal, event, memory, sent, age, applied, disturbed>>

\* A risk becomes a signal, everything else an event.
Store(w) ==
    LET b == Body[work[w].key] IN
    /\ work[w].at = "store"
    /\ \E ok \in BOOLEAN :
          /\ Breaks(ok) /\ Counts(ok)
          /\ \/ ~ok /\ Fails(w) /\ UNCHANGED <<signal, event, applied>>
             \/ /\ ok
                /\ IF b.type \in RiskTypes
                   THEN signal' = CreateExecutionSignal(work[w].who, b.type, b.score) /\ UNCHANGED event
                   ELSE event' = CreateCommunicationEvent(work[w].who, b.type, "halaos") /\ UNCHANGED signal
                /\ applied' = [applied EXCEPT ![work[w].key][work[w].n] = @ + 1]
                /\ Does(w, Onward(work[w]))
                /\ UNCHANGED dropped
    /\ UNCHANGED <<employee, recorded, memory, sent, age, disturbed>>

\* The webhook is recorded and answered; an error is only logged.
Record(w) ==
    LET k == work[w].key IN
    /\ work[w].at = "record"
    /\ \E ok \in BOOLEAN :
          /\ Breaks(ok) /\ Counts(ok)
          /\ recorded' = IF ok THEN recorded \cup {k} ELSE recorded
          /\ disturbed' = IF ok THEN disturbed ELSE disturbed \cup {k}
    /\ Does(w, Idle)
    /\ UNCHANGED <<employee, signal, event, memory, sent, age, applied, dropped>>

Webhook(w) ==
    \/ \E k \in Webhooks : Deliver(w, k)
    \/ CheckEvent(w) \/ ResolveById(w) \/ ResolveByNo(w) \/ LinkEmployee(w)
    \/ CreateEmployee(w) \/ Store(w) \/ Record(w)

-----------------------------------------------------------------------------
(* The state engine                                                        *)

Job == [at |-> "employees", key |-> "job", todo |-> {}, who |-> 0]

StartSignals(w) ==
    /\ Begins(w, Job)
    /\ UNCHANGED <<tables, age, faults, ghosts>>

NextSubject(r) == [r EXCEPT !.at = IF r.todo = {} THEN "context" ELSE "subject"]

\* brain_signals lists the employees; without the list, it still makes the memory.
ListEmployees(w) ==
    /\ work[w].at = "employees"
    /\ \E ok \in BOOLEAN :
          /\ Breaks(ok) /\ Counts(ok)
          /\ Does(w, NextSubject(IF ok THEN [work[w] EXCEPT !.todo = Ids] ELSE work[w]))
    /\ UNCHANGED <<tables, sent, age, ghosts>>

\* GenerateSignals asks the LLM about the next employee; it may find nothing, fail,
\* or answer what is no JSON.
GenerateSignals(w) ==
    /\ work[w].at = "subject"
    /\ \E i \in work[w].todo, ok \in BOOLEAN :
          LET r == [work[w] EXCEPT !.todo = @ \ {i}, !.who = i]
          IN  /\ Breaks(ok) /\ Counts(ok)
              /\ \/ Does(w, NextSubject(r))
                 \/ ok /\ Does(w, [r EXCEPT !.at = "signal"])
    /\ UNCHANGED <<tables, sent, age, ghosts>>

\* A signal it found is stored; its scores go from 0 to 1.
StoreSignal(w) ==
    /\ work[w].at = "signal"
    /\ \E ok \in BOOLEAN :
          /\ Breaks(ok) /\ Counts(ok)
          /\ signal' = IF ok THEN CreateExecutionSignal(work[w].who, "delivery_risk", "low") ELSE signal
    /\ Does(w, NextSubject(work[w]))
    /\ UNCHANGED <<employee, recorded, event, memory, sent, age, ghosts>>

\* What the context shows of the risks: no time is given.
ContextRisks == GetTopRisks(Null)
\* What the prompt for an employee's signals shows of the events: no time either.
GeneratorEvents == ListCommunicationEvents(Null)
\* How many employees the context calls "high risk".
HighRiskEmployees == CountHighRiskSignals("flight_risk", age)

\* GenerateWorkingMemory asks the LLM, and stores its answer, JSON or not.
GenerateMemory(w) ==
    /\ work[w].at = "context"
    /\ \E ok \in BOOLEAN :
          /\ Breaks(ok) /\ Counts(ok)
          /\ memory' = IF ok THEN CreateWorkingMemorySnapshot("daily") ELSE memory
    /\ Does(w, Idle)
    /\ UNCHANGED <<employee, recorded, signal, event, sent, age, ghosts>>

\* report.submitted: the LLM extracts events from the report, none or one.
ExtractEventsFromReport(w) ==
    \/ /\ \E r \in Reports : Begins(w, [at |-> "extract", key |-> r])
       /\ UNCHANGED <<tables, age, faults, ghosts>>
    \/ /\ work[w].at = "extract"
       /\ \E ok \in BOOLEAN :
             /\ Breaks(ok) /\ Counts(ok)
             /\ \/ event' = event
                \/ ok /\ event' = CreateCommunicationEvent(0, "blocker_reported", work[w].key)
       /\ Does(w, Idle)
       /\ UNCHANGED <<employee, recorded, signal, memory, sent, age, ghosts>>

Engine(w) ==
    \/ StartSignals(w) \/ ListEmployees(w) \/ GenerateSignals(w) \/ StoreSignal(w)
    \/ GenerateMemory(w) \/ ExtractEventsFromReport(w)

\* Thirty days pass.
Passing ==
    /\ age < MaxAge /\ age' = age + 1
    /\ UNCHANGED <<tables, work, sent, faults, ghosts>>

\* The process ends; deliveries under way remain unanswered.
Crash ==
    /\ faults < MaxFaults /\ faults' = faults + 1
    /\ \E w \in Workers : work[w] # Idle
    /\ work' = [w \in Workers |-> Idle]
    /\ disturbed' = disturbed \cup {k \in Webhooks : UnderWay(k)}
    /\ UNCHANGED <<tables, sent, age, applied, dropped>>

Next == (\E w \in Workers : Webhook(w) \/ Engine(w)) \/ Passing \/ Crash

Spec == Init /\ [][Next]_vars

-----------------------------------------------------------------------------
(* Properties                                                              *)

Identity == [id : Nat, no : Nat]

\* Every variable holds a value of its type.
TypeOK ==
    /\ employee \in Seq(Identity) /\ Len(employee) <= MaxRows
    /\ recorded \subseteq Webhooks
    /\ \A n \in DOMAIN signal : /\ signal[n].subject \in Ids /\ signal[n].score \in {"low", "high"}
                                /\ signal[n].at \in 0 .. age
    /\ \A n \in DOMAIN event : event[n].actor \in {0} \cup Ids /\ event[n].at \in 0 .. age
    /\ memory \in Seq({"daily"})
    /\ \A w \in Workers : work[w].at \in {"idle", "check", "by id", "by no", "link", "create", "store",
                                         "record", "employees", "subject", "signal", "context",
                                         "extract"}
    /\ sent \in 0 .. MaxSent /\ age \in 0 .. MaxAge /\ faults \in 0 .. MaxFaults
    /\ disturbed \subseteq Webhooks
    /\ \A d \in dropped : d[1] \in Webhooks /\ d[2] \in DOMAIN Body[d[1]].of

\* However often HalaOS delivers a webhook, each part of it becomes one row,
\* unless deliveries of it overlapped, the process ended within one, or the
\* record of it failed: the check and the record are not one step
\* (halaos_webhook.go:141).
AppliedOnce ==
    \A k \in Webhooks \ disturbed : \A i \in DOMAIN Body[k].of : applied[k][i] <= 1

\* A webhook that is recorded, and so never processed again, has become its rows,
\* but for the parts whose statements failed: a crash at any moment loses none,
\* for HalaOS delivers it again (halaos_webhook.go:187).
RecordedWasApplied ==
    \A k \in recorded : \A i \in DOMAIN Body[k].of : applied[k][i] >= 1 \/ <<k, i>> \in dropped

\* Two employees never stand for one person of HalaOS, as long as its webhooks
\* give both id and number: not if two of them create the person at the same
\* time, nor if the id could not be filled in (halaos_mapper.go:47).
OneEmployeePerPerson ==
    \A i, j \in Ids : i # j =>
        /\ employee[i].id = employee[j].id => employee[i].id = 0
        /\ employee[i].no = employee[j].no => employee[i].no = 0

(* What documents and comments say.                                        *)

\* "Count high-risk employees" (context_service.go:197): the statement counts
\* signals, one for every webhook of the last thirty days.
HighRiskCountsEmployees ==
    HighRiskEmployees = Cardinality({signal[n].subject : n \in
        {n \in Since(signal, age) : signal[n].type = "flight_risk" /\ signal[n].score = "high"}})

\* "Get top risks" (context_service.go:165): the query is given no time, and
\* compares with NULL.
RisksReachTheContext == GetTopRisks(age) # {} => ContextRisks # {}

\* "Get recent events for this person" (state_engine.go:213): likewise, and the
\* events of all.
EventsReachTheGenerator == ListCommunicationEvents(age) # {} => GeneratorEvents # {}

\* The latest memory is part of the company's state (state_handlers.go:150); it
\* asks for "daily_summary", the generator writes "daily".
MemoryIsFound == memory # <<>> => GetLatestSnapshot("daily_summary") # {}
=============================================================================
