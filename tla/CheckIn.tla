------------------------------ MODULE CheckIn ------------------------------
(***************************************************************************)
(* The daily check-in: a question-and-answer conversation kept in Redis    *)
(* under conv:{employee} (internal/report/collector.go), driven by the     *)
(* message handlers of cmd/brain/handlers.go, by the remind job and by     *)
(* ActionService.TriggerCheckin, and turned into a row of the reports      *)
(* table when the employee confirms.                                       *)
(*                                                                         *)
(* Every Redis or SQL call is a step of its own.  The chat libraries run   *)
(* one goroutine per incoming message, so handlers of the same employee    *)
(* interleave between those calls, with each other and with check-ins.     *)
(***************************************************************************)
EXTENDS Naturals

CONSTANTS
    Employees,        \* active employees
    Handlers,         \* goroutines serving incoming messages
    Checkers,         \* goroutines inside ActionService.TriggerCheckin
    Messages,         \* the free texts an employee may send, each sent once
    MentorQuestions,  \* number of check-in questions of the tenant's mentor
    DefaultQuestions, \* number of questions the Collector was created with
    MaxDay,           \* bound on the calendar
    Nil,              \* an absent key, a nil map
    RedisFaults,      \* whether a Redis call may fail
    DBFaults,         \* whether a SQL statement may fail for its own reasons
    Expiry,           \* whether a conversation may reach its four-hour TTL
    Crashes           \* whether the process may crash and restart

VARIABLES
    conv,       \* Redis: the conversation of each employee, or Nil
    reports,    \* SQL: the rows of the reports table
    hnd,        \* the local state of each message handler
    chk,        \* the local state of each goroutine inside TriggerCheckin
    clock,      \* local date, and whether the UTC date has caught up with it
    published,  \* ReportSubmitted events, counted per employee and date
    analysing,  \* reports an analysis goroutine is working on
    analysed,   \* reports whose blockers and sentiment were stored
    used,       \* history: the texts sent so far
    replies,    \* history: what employees who confirmed were told
    overtaken   \* history: handlers whose conversation somebody else wrote
                \* between their GetState and their GetAnswers

after   == <<published, analysing, analysed>>
vars    == <<conv, reports, hnd, chk, clock, after, used, replies, overtaken>>

-----------------------------------------------------------------------------
(* The data                                                                *)

Days == 1..MaxDay

QuestionLists == {"mentor", "default"}

\* An empty mentor list falls back to the default questions.
NumQuestions(list) ==
    IF list = "mentor" /\ MentorQuestions # 0
    THEN MentorQuestions ELSE DefaultQuestions

MaxQuestions == MentorQuestions + DefaultQuestions

\* A map from q1, q2, ... to texts.
Answers == UNION {[1..k -> Messages] : k \in 0..MaxQuestions}

Conversation ==
    [state : {"collecting", "confirming", "complete"},
     current : 0..MaxQuestions,
     answers : Answers,
     questions : QuestionLists]

\* asked and overtaken are history: the columns are the first three.
Report ==
    [emp : Employees, date : Days, answers : Answers,
     asked : QuestionLists, overtaken : BOOLEAN]

HandlerAt(loc, e, t, c, g, d) ==
    [pc |-> loc, emp |-> e, text |-> t, conv |-> c, got |-> g, date |-> d]

Idle == HandlerAt("idle", Nil, Nil, Nil, Nil, 0)

NoCheck == [pc |-> "idle", emp |-> Nil]

ASSUME QuestionsAssumption ==
    MentorQuestions \in Nat /\ DefaultQuestions \in Nat \ {0}
ASSUME DayAssumption == MaxDay \in Nat \ {0}
ASSUME FaultAssumption ==
    {RedisFaults, DBFaults, Expiry, Crashes} \subseteq BOOLEAN
ASSUME NilAssumption == Nil \notin Employees \cup Messages \cup Conversation

-----------------------------------------------------------------------------
(* Collector                                                               *)

Fresh(list) ==
    [state |-> "collecting", current |-> 0, answers |-> [i \in 1..0 |-> Nil],
     questions |-> list]

\* Faulty variant: "all answered" is tested one question too late.
AnsweredOneLate(c, t) ==
    LET k == c.current + 1
    IN  [state     |-> IF k > NumQuestions(c.questions)
                      THEN "confirming" ELSE c.state,
         current   |-> k,
         answers   |-> [i \in (DOMAIN c.answers) \cup {k} |->
                          IF i = k THEN t ELSE c.answers[i]],
         questions |-> c.questions]

\* HandleAnswer: store the text under q{current+1} and advance.
Answered(c, t) ==
    LET k == c.current + 1
    IN  [state     |-> IF k >= NumQuestions(c.questions)
                      THEN "confirming" ELSE c.state,
         current   |-> k,
         answers   |-> [i \in (DOMAIN c.answers) \cup {k} |->
                          IF i = k THEN t ELSE c.answers[i]],
         questions |-> c.questions]

\* Faulty variant: the state the README names, which Collector does not have.
CompletedAsIdle(c) == [c EXCEPT !.state = "idle"]

Completed(c) == [c EXCEPT !.state = "complete"]

\* loadConversation: what a Redis GET may return.
Load(e) == {conv[e]} \cup (IF RedisFaults THEN {Nil} ELSE {})

\* saveConversation: one unconditional SET.  A handler about to read the
\* answers it has been asked to confirm is overtaken by it.
Save(e, c) ==
    /\ conv' = [conv EXCEPT ![e] = c]
    /\ overtaken' = overtaken \cup
          {h \in Handlers : hnd[h].pc = "getAnswers" /\ hnd[h].emp = e}

SaveFails == RedisFaults /\ UNCHANGED <<conv, overtaken>>

InState(e, s) == conv[e] # Nil /\ conv[e].state = s

Collecting(c) == c # Nil /\ c.state = "collecting"

Step(h, next) == hnd' = [hnd EXCEPT ![h] = next]

HasReport(e, d) == \E r \in reports : r.emp = e /\ r.date = d

-----------------------------------------------------------------------------
(* A message while the conversation is collecting: HandleAnswer            *)

ReceiveAnswer(h, e, t) ==
    /\ hnd[h].pc = "idle"
    /\ t \notin used
    /\ InState(e, "collecting")
    /\ Step(h, HandlerAt("answerLoad", e, t, Nil, Nil, 0))
    /\ used' = used \cup {t}
    /\ UNCHANGED <<conv, reports, chk, clock, after, replies, overtaken>>

AnswerLoad(h) ==
    /\ hnd[h].pc = "answerLoad"
    /\ \E c \in Load(hnd[h].emp) :
         \/ ~ Collecting(c) /\ Step(h, Idle)
         \/ /\ Collecting(c)
            /\ Step(h, HandlerAt("answerSave", hnd[h].emp, hnd[h].text, c, Nil, 0))
    /\ UNCHANGED <<conv, reports, chk, clock, after, used, replies, overtaken>>

\* Faulty variant: the whole HandleAnswer is retried after its SET.
AnswerSaveRetried(h) ==
    /\ hnd[h].pc = "answerSave"
    /\ Save(hnd[h].emp, Answered(hnd[h].conv, hnd[h].text))
    /\ Step(h, HandlerAt("answerLoad", hnd[h].emp, hnd[h].text, Nil, Nil, 0))
    /\ UNCHANGED <<reports, chk, clock, after, used, replies>>

AnswerSave(h) ==
    /\ hnd[h].pc = "answerSave"
    /\ Save(hnd[h].emp, Answered(hnd[h].conv, hnd[h].text)) \/ SaveFails
    /\ Step(h, Idle)
    /\ UNCHANGED <<reports, chk, clock, after, used, replies>>

-----------------------------------------------------------------------------
(* "edit" and "confirm" while the conversation is confirming               *)

ReceiveEdit(h, e) ==
    /\ hnd[h].pc = "idle"
    /\ InState(e, "confirming")
    /\ Step(h, HandlerAt("restart", e, Nil, Nil, Nil, 0))
    /\ UNCHANGED <<conv, reports, chk, clock, after, used, replies, overtaken>>

Restart(h) ==
    /\ hnd[h].pc = "restart"
    /\ Save(hnd[h].emp, Fresh("default")) \/ SaveFails
    /\ Step(h, Idle)
    /\ UNCHANGED <<reports, chk, clock, after, used, replies>>

\* Faulty variant: "confirm" is obeyed whatever the state.
ReceiveConfirmAnyState(h, e) ==
    /\ hnd[h].pc = "idle"
    /\ conv[e] # Nil
    /\ Step(h, HandlerAt("getAnswers", e, Nil, Nil, Nil, 0))
    /\ overtaken' = overtaken \ {h}
    /\ UNCHANGED <<conv, reports, chk, clock, after, used, replies>>

ReceiveConfirm(h, e) ==
    /\ hnd[h].pc = "idle"
    /\ InState(e, "confirming")
    /\ Step(h, HandlerAt("getAnswers", e, Nil, Nil, Nil, 0))
    /\ overtaken' = overtaken \ {h}
    /\ UNCHANGED <<conv, reports, chk, clock, after, used, replies>>

GetAnswers(h) ==
    /\ hnd[h].pc = "getAnswers"
    /\ \E c \in Load(hnd[h].emp) :
         Step(h, HandlerAt("confirmLoad", hnd[h].emp, Nil, Nil, c, 0))
    /\ UNCHANGED <<conv, reports, chk, clock, after, used, replies, overtaken>>

\* Confirm loads whatever conversation there is now, without checking it.
ConfirmLoad(h) ==
    /\ hnd[h].pc = "confirmLoad"
    /\ \E c \in Load(hnd[h].emp) :
         \/ c = Nil /\ Step(h, Idle)
         \/ /\ c # Nil
            /\ Step(h, HandlerAt("confirmSave", hnd[h].emp, Nil, c, hnd[h].got, 0))
    /\ UNCHANGED <<conv, reports, chk, clock, after, used, replies, overtaken>>

Reply(h, kind) ==
    replies' = replies \cup
        {[emp |-> hnd[h].emp, kind |-> kind,
          answers |-> IF hnd[h].got = Nil THEN Nil ELSE hnd[h].got.answers]}

ConfirmSave(h) ==
    /\ hnd[h].pc = "confirmSave"
    /\ \/ /\ Save(hnd[h].emp, Completed(hnd[h].conv))
          /\ \/ /\ hnd[h].got # Nil
                /\ Step(h, HandlerAt("create", hnd[h].emp, Nil, Nil, hnd[h].got, 0))
                /\ UNCHANGED replies
             \/ hnd[h].got = Nil /\ Step(h, Idle) /\ Reply(h, "saved")
       \/ SaveFails /\ Step(h, Idle) /\ UNCHANGED replies
    /\ UNCHANGED <<reports, chk, clock, after, used>>

\* Faulty variant: reports has no UNIQUE(employee_id, report_date).
CreateReportNotUnique(h) ==
    /\ hnd[h].pc = "create"
    /\ reports' = reports \cup
         {[emp |-> hnd[h].emp, date |-> clock.day,
           answers |-> hnd[h].got.answers, asked |-> hnd[h].got.questions,
           overtaken |-> h \in overtaken]}
    /\ Step(h, HandlerAt("publish", hnd[h].emp, Nil, Nil, hnd[h].got, clock.day))
    /\ UNCHANGED <<conv, chk, clock, after, used, replies, overtaken>>

CreateReport(h) ==
    /\ hnd[h].pc = "create"
    /\ ~ HasReport(hnd[h].emp, clock.day)
    /\ reports' = reports \cup
         {[emp |-> hnd[h].emp, date |-> clock.day,
           answers |-> hnd[h].got.answers, asked |-> hnd[h].got.questions,
           overtaken |-> h \in overtaken]}
    /\ Step(h, HandlerAt("publish", hnd[h].emp, Nil, Nil, hnd[h].got, clock.day))
    /\ UNCHANGED <<conv, chk, clock, after, used, replies, overtaken>>

\* Faulty variants of the error branch: it falls through to the publication, it
\* says nothing.
CreateReportErrorIgnored(h) ==
    /\ hnd[h].pc = "create"
    /\ HasReport(hnd[h].emp, clock.day) \/ DBFaults
    /\ Step(h, HandlerAt("publish", hnd[h].emp, Nil, Nil, hnd[h].got, clock.day))
    /\ UNCHANGED <<conv, reports, chk, clock, after, used, replies, overtaken>>

CreateReportErrorSilent(h) ==
    /\ hnd[h].pc = "create"
    /\ HasReport(hnd[h].emp, clock.day) \/ DBFaults
    /\ Step(h, Idle)
    /\ UNCHANGED <<conv, reports, chk, clock, after, used, replies, overtaken>>

\* UNIQUE(employee_id, report_date), or the database is unavailable.
CreateReportFails(h) ==
    /\ hnd[h].pc = "create"
    /\ HasReport(hnd[h].emp, clock.day) \/ DBFaults
    /\ Step(h, Idle)
    /\ Reply(h, "failed")
    /\ UNCHANGED <<conv, reports, chk, clock, after, used, overtaken>>

\* An error of PublishPayload is ignored; then the analysis is started.
PublishSubmitted(h) ==
    LET key == <<hnd[h].emp, hnd[h].date>>
    IN  /\ hnd[h].pc = "publish"
        /\ \/ published' = [published EXCEPT ![key] = @ + 1]
           \/ RedisFaults /\ UNCHANGED published
        /\ analysing' = analysing \cup {key}
        /\ Reply(h, "saved")
        /\ Step(h, Idle)
        /\ UNCHANGED <<conv, reports, chk, clock, analysed, used, overtaken>>

\* Analyzer.Analyze: an LLM call that may fail, then UpdateReportAnalysis.
Analyze(key) ==
    /\ key \in analysing
    /\ analysing' = analysing \ {key}
    /\ \/ HasReport(key[1], key[2]) /\ analysed' = analysed \cup {key}
       \/ UNCHANGED analysed
    /\ UNCHANGED <<conv, reports, hnd, chk, clock, published, used, replies, overtaken>>

-----------------------------------------------------------------------------
(* Check-ins, which start a conversation or start it over                  *)

\* The remind job, one employee of its loop.
Remind(e) ==
    /\ Save(e, Fresh("mentor")) \/ SaveFails
    /\ UNCHANGED <<reports, hnd, chk, clock, after, used, replies>>

\* TriggerCheckin asks for the report of a date truncated in UTC: until the
\* UTC date has caught up with the local one, that is yesterday's.
CheckinDate == IF clock.caughtUp THEN clock.day ELSE clock.day - 1

\* A failing count is taken for "not submitted".
CheckinCount(c, e) ==
    /\ chk[c].pc = "idle"
    /\ ~ HasReport(e, CheckinDate) \/ DBFaults
    /\ chk' = [chk EXCEPT ![c] = [pc |-> "start", emp |-> e]]
    /\ UNCHANGED <<conv, reports, hnd, clock, after, used, replies, overtaken>>

CheckinStart(c) ==
    /\ chk[c].pc = "start"
    /\ chk' = [chk EXCEPT ![c] = NoCheck]
    /\ Save(chk[c].emp, Fresh("mentor")) \/ SaveFails
    /\ UNCHANGED <<reports, hnd, clock, after, used, replies>>

-----------------------------------------------------------------------------
(* The environment                                                         *)

Expire(e) ==
    /\ Expiry
    /\ conv[e] # Nil
    /\ conv' = [conv EXCEPT ![e] = Nil]
    /\ UNCHANGED <<reports, hnd, chk, clock, after, used, replies, overtaken>>

Tick ==
    /\ \/ ~ clock.caughtUp /\ clock' = [clock EXCEPT !.caughtUp = TRUE]
       \/ /\ clock.caughtUp /\ clock.day < MaxDay
          /\ clock' = [day |-> clock.day + 1, caughtUp |-> FALSE]
    /\ UNCHANGED <<conv, reports, hnd, chk, after, used, replies, overtaken>>

\* Goroutines are lost; Redis and PostgreSQL are other processes.
Crash ==
    /\ Crashes
    /\ hnd' = [h \in Handlers |-> Idle]
    /\ chk' = [c \in Checkers |-> NoCheck]
    /\ analysing' = {}
    /\ UNCHANGED <<conv, reports, clock, published, analysed, used, replies, overtaken>>

Init ==
    /\ conv = [e \in Employees |-> Nil]
    /\ reports = {}
    /\ hnd = [h \in Handlers |-> Idle]
    /\ chk = [c \in Checkers |-> NoCheck]
    /\ clock = [day |-> 1, caughtUp |-> FALSE]
    /\ published = [k \in Employees \X Days |-> 0]
    /\ analysing = {} /\ analysed = {}
    /\ used = {} /\ replies = {} /\ overtaken = {}

HandlerStep(h) ==
    \/ AnswerLoad(h) \/ AnswerSave(h) \/ Restart(h)
    \/ GetAnswers(h) \/ ConfirmLoad(h) \/ ConfirmSave(h)
    \/ CreateReport(h) \/ CreateReportFails(h) \/ PublishSubmitted(h)

Receive(h, e) ==
    \/ \E t \in Messages : ReceiveAnswer(h, e, t)
    \/ ReceiveEdit(h, e)
    \/ ReceiveConfirm(h, e)

Next ==
    \/ \E h \in Handlers : HandlerStep(h)
    \/ \E h \in Handlers, e \in Employees : Receive(h, e)
    \/ \E key \in Employees \X Days : Analyze(key)
    \/ \E e \in Employees : Remind(e) \/ Expire(e)
    \/ \E c \in Checkers : CheckinStart(c)
    \/ \E c \in Checkers, e \in Employees : CheckinCount(c, e)
    \/ Tick
    \/ Crash

Spec == Init /\ [][Next]_vars

\* Goroutines are scheduled: a handler that can take its next call takes it.
FairSpec == Spec /\ \A h \in Handlers : WF_vars(HandlerStep(h))

-----------------------------------------------------------------------------
(* Properties                                                              *)

HandlerStates ==
    [pc : {"idle", "answerLoad", "answerSave", "restart", "getAnswers",
           "confirmLoad", "confirmSave", "create", "publish"},
     emp : Employees \cup {Nil}, text : Messages \cup {Nil},
     conv : Conversation \cup {Nil}, got : Conversation \cup {Nil},
     date : Days \cup {0}]

\* Every variable holds a value of the program's types.
TypeOK ==
    /\ conv \in [Employees -> Conversation \cup {Nil}]
    /\ reports \subseteq Report
    /\ hnd \in [Handlers -> HandlerStates]
    /\ chk \in [Checkers -> [pc : {"idle", "start"}, emp : Employees \cup {Nil}]]
    /\ clock \in [day : Days, caughtUp : BOOLEAN]
    /\ published \in [Employees \X Days -> Nat]
    /\ analysing \subseteq Employees \X Days
    /\ analysed \subseteq Employees \X Days
    /\ used \subseteq Messages
    /\ replies \subseteq [emp : Employees, kind : {"saved", "failed"},
                          answers : Answers \cup {Nil}]
    /\ overtaken \subseteq Handlers

WellFormed(c) ==
    /\ DOMAIN c.answers = 1..c.current
    /\ c.current <= NumQuestions(c.questions)
    /\ c.state = "collecting" => c.current < NumQuestions(c.questions)
    /\ c.state = "confirming" => c.current = NumQuestions(c.questions)

\* However handlers, check-ins and crashes interleave, a stored conversation
\* is one that a single uninterrupted sequence of answers could have
\* produced: q1..qk and nothing else are answered, and the employee is asked
\* to confirm exactly when no question is open (collector.go:80-110).
ConversationsWellFormed ==
    \A e \in Employees : conv[e] # Nil => WellFormed(conv[e])

AllAnswered(r) == DOMAIN r.answers = 1..NumQuestions(r.asked)

\* A report lacks an answer only if somebody else wrote the conversation
\* between the handler's GetState and its GetAnswers (handlers.go:181-187):
\* with a check on that write every saved report would be complete.
OnlyOvertakenReportsIncomplete ==
    \A r \in reports : r.overtaken \/ AllAnswered(r)

\* One text is never the answer to two questions of a report, although
\* HandleAnswer loads and saves the conversation in two calls.
NoAnswerTwice ==
    \A r \in reports : \A i, j \in DOMAIN r.answers :
        r.answers[i] = r.answers[j] => i = j

\* ReportSubmitted is published at most once per employee and day, and never
\* without a saved report, whatever the number of "confirm" messages in
\* flight: handlers.go:195-207 publishes only after CreateReport succeeded.
AnnouncedOnceAfterSave ==
    \A key \in Employees \X Days :
        /\ published[key] <= 1
        /\ published[key] = 1 => HasReport(key[1], key[2])

\* "Report saved! Thank you." is told only of answers that are in the
\* reports table (collector.go:125, handlers.go:194-228).
ThankedMeansSaved ==
    \A m \in replies : m.kind = "saved" =>
        \E r \in reports : r.emp = m.emp /\ r.answers = m.answers

\* The check-in implements what DailyReport promises.
Daily == INSTANCE DailyReport WITH
    saved     <- {<<r.emp, r.date>> : r \in reports},
    announced <- published
DailySpec == Daily!Spec

\* Unless the process crashes, a conversation that was marked complete ends
\* in a report or in a message that says it was not saved: Confirm writes
\* the complete state before CreateReport runs (handlers.go:188-197).
CompleteIsDecided ==
    \A e \in Employees :
        InState(e, "complete") ~>
            \/ \E r \in reports : r.emp = e
            \/ \E m \in replies : m.emp = e /\ m.kind = "failed"

-----------------------------------------------------------------------------
(* What the documentation says and the code does not do                    *)

\* README.md:313-317: the employee answers Q1, Q2 and Q3, confirms, and that
\* is what is saved.
ReportsComplete == \A r \in reports : AllAnswered(r)

\* README.md:314: "Employee replies -> store answer": a stored answer stays
\* stored until the conversation is started over or expires.
StoredAnswersKept ==
    [][\A e \in Employees :
         conv[e] # Nil /\ conv'[e] # Nil /\ conv'[e].current # 0 =>
           \A i \in DOMAIN conv[e].answers :
             /\ i \in DOMAIN conv'[e].answers
             /\ conv'[e].answers[i] = conv[e].answers[i]]_vars

\* README.md:317: "Employee confirms -> save to DB -> state = idle": once no
\* handler is working for the employee, a complete conversation was saved.
CompleteMeansSaved ==
    \A e \in Employees :
        InState(e, "complete") /\ (\A h \in Handlers : hnd[h].emp # e)
            => \E r \in reports : r.emp = e

\* README.md:317: "Employee confirms (or bot auto-confirms after 5min)": a
\* conversation waiting for the confirmation does not wait for ever.
AutoConfirmed ==
    \A e \in Employees :
        InState(e, "confirming") ~> ~ InState(e, "confirming")

\* handlers.go:197: an employee is told "Report confirmed but failed to save.
\* Please contact your manager." only when these answers were not saved.
FailedMeansUnsaved ==
    \A m \in replies : m.kind = "failed" =>
        ~ \E r \in reports : r.emp = m.emp /\ r.answers = m.answers

\* README.md:97-99: the mentor determines "what to ask employees daily".
MentorQuestionsAsked ==
    \A e \in Employees : conv[e] # Nil => conv[e].questions = "mentor"

\* action.go:84: TriggerCheckin selects employees "who haven't submitted
\* today".
CheckinSkipsSubmitted ==
    [][\A c \in Checkers :
         chk[c].pc = "idle" /\ chk'[c].pc = "start" =>
           ~ HasReport(chk'[c].emp, clock.day)]_vars

=============================================================================
