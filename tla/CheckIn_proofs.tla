--------------------------- MODULE CheckIn_proofs ---------------------------
(***************************************************************************)
(* Proofs about CheckIn, for every number of employees, handlers, texts    *)
(* and questions, and with every fault switched on or off.                 *)
(***************************************************************************)
EXTENDS CheckIn, TLAPS

-----------------------------------------------------------------------------
(* What the collector does to one conversation                             *)

GoodConversation(c) == c \in Conversation /\ WellFormed(c)

LEMMA NumQuestionsType ==
    ASSUME NEW list
    PROVE  NumQuestions(list) \in 1..MaxQuestions
BY QuestionsAssumption DEF NumQuestions, MaxQuestions

\* A new conversation is well formed, whichever question list it uses.
LEMMA FreshGood ==
    ASSUME NEW list \in QuestionLists
    PROVE  GoodConversation(Fresh(list))
<1> DEFINE a == [i \in 1..0 |-> Nil]
<1>1. NumQuestions(list) \in 1..MaxQuestions
  BY NumQuestionsType
<1>2. a \in [1..0 -> Messages]
  OBVIOUS
<1>3. 0 \in 0..MaxQuestions
  BY QuestionsAssumption DEF MaxQuestions
<1>4. a \in Answers
  BY <1>2, <1>3 DEF Answers
<1>5. QED
  BY <1>1, <1>3, <1>4 DEF GoodConversation, WellFormed, Fresh, Conversation

\* HandleAnswer turns a well-formed collecting conversation into a
\* well-formed one.
LEMMA AnsweredGood ==
    ASSUME NEW c, GoodConversation(c), c.state = "collecting",
           NEW t \in Messages
    PROVE  GoodConversation(Answered(c, t))
<1> DEFINE k == c.current + 1
           a == [i \in (DOMAIN c.answers) \cup {k} |->
                    IF i = k THEN t ELSE c.answers[i]]
           n == NumQuestions(c.questions)
           s == IF k >= n THEN "confirming" ELSE c.state
<1>1. n \in 1..MaxQuestions /\ MaxQuestions \in Nat
  BY NumQuestionsType, QuestionsAssumption DEF MaxQuestions
<1>2. /\ c \in Conversation
      /\ DOMAIN c.answers = 1..c.current
      /\ c.current \in Nat /\ c.current < n
  BY DEF GoodConversation, WellFormed, Conversation
<1>3. k \in 0..MaxQuestions /\ k <= n
  BY <1>1, <1>2
<1>4. DOMAIN a = 1..k
  BY <1>2
<1>5. \A i \in 1..k : a[i] \in Messages
  <2>1. PICK j \in 0..MaxQuestions : c.answers \in [1..j -> Messages]
    BY <1>2 DEF Conversation, Answers
  <2>2. QED
    BY <2>1, <1>2, <1>4
<1>6. a \in [1..k -> Messages]
  BY <1>4, <1>5
<1>7. a \in Answers
  BY <1>3, <1>6 DEF Answers
<1> DEFINE d == Answered(c, t)
<1>8. d = [state |-> s, current |-> k, answers |-> a, questions |-> c.questions]
  BY DEF Answered
<1>9. s \in {"collecting", "confirming", "complete"}
  OBVIOUS
<1> HIDE DEF k, a, n, s, d
<1>10. d \in Conversation
  BY <1>2, <1>3, <1>7, <1>8, <1>9 DEF Conversation
<1>11. WellFormed(d)
  <2>1. s = "collecting" => k < n
    BY <1>1, <1>2 DEF s, k
  <2>2. s = "confirming" => k = n
    BY <1>1, <1>2, <1>3 DEF s, k
  <2>3. QED
    BY <2>1, <2>2, <1>3, <1>4, <1>8 DEF WellFormed, n
<1>12. QED
  BY <1>10, <1>11 DEF GoodConversation, d

\* Confirm keeps the answers and the questions.
LEMMA CompletedGood ==
    ASSUME NEW c, GoodConversation(c)
    PROVE  GoodConversation(Completed(c))
BY DEF GoodConversation, Completed, WellFormed, Conversation

-----------------------------------------------------------------------------
(* Types and well-formed conversations                                     *)

\* What a handler carries from one call to the next.
HandlerGood(s) ==
    /\ s.pc # "idle" => s.emp \in Employees
    /\ s.pc \in {"answerLoad", "answerSave"} => s.text \in Messages
    /\ s.pc = "answerSave" =>
         GoodConversation(s.conv) /\ s.conv.state = "collecting"
    /\ s.pc = "confirmSave" => GoodConversation(s.conv)
    /\ s.got # Nil => GoodConversation(s.got)
    /\ s.pc \in {"create", "publish"} => s.got # Nil
    /\ s.pc = "publish" => s.date \in Days

TypeInv ==
    /\ TypeOK
    /\ ConversationsWellFormed
    /\ \A h \in Handlers : HandlerGood(hnd[h])
    /\ \A c \in Checkers : chk[c].pc = "start" => chk[c].emp \in Employees

LEMMA NilNotGood == ~ GoodConversation(Nil) /\ Nil \notin Employees
BY NilAssumption DEF GoodConversation

\* A handler record is of the right type when its fields are.
LEMMA HandlerAtType ==
    ASSUME NEW loc \in {"answerLoad", "answerSave", "restart", "getAnswers",
                        "confirmLoad", "confirmSave", "create", "publish"},
           NEW e \in Employees, NEW t \in Messages \cup {Nil},
           NEW c, c = Nil \/ GoodConversation(c),
           NEW g, g = Nil \/ GoodConversation(g),
           NEW d \in Days \cup {0},
           loc \in {"answerLoad", "answerSave"} => t \in Messages,
           loc = "answerSave" => c # Nil /\ c.state = "collecting",
           loc = "confirmSave" => c # Nil,
           loc \in {"create", "publish"} => g # Nil,
           loc = "publish" => d \in Days
    PROVE  /\ HandlerAt(loc, e, t, c, g, d) \in HandlerStates
           /\ HandlerGood(HandlerAt(loc, e, t, c, g, d))
BY DEF HandlerAt, HandlerStates, HandlerGood, GoodConversation

LEMMA IdleType == Idle \in HandlerStates /\ HandlerGood(Idle)
BY DEF Idle, HandlerAt, HandlerStates, HandlerGood

\* Replacing one handler's record by a good one keeps all of them good.
LEMMA StepType ==
    ASSUME TypeInv, NEW h \in Handlers, NEW next,
           next \in HandlerStates, HandlerGood(next), Step(h, next)
    PROVE  /\ hnd' \in [Handlers -> HandlerStates]
           /\ \A g \in Handlers : HandlerGood(hnd'[g])
BY DEF TypeInv, TypeOK, Step

\* Writing a good conversation keeps the store good.
LEMMA SaveType ==
    ASSUME TypeInv, NEW e \in Employees, NEW c, GoodConversation(c),
           Save(e, c) \/ SaveFails
    PROVE  /\ conv' \in [Employees -> Conversation \cup {Nil}]
           /\ \A f \in Employees : conv'[f] # Nil => WellFormed(conv'[f])
           /\ overtaken' \subseteq Handlers
BY DEF TypeInv, TypeOK, Save, SaveFails, GoodConversation, ConversationsWellFormed

\* What Redis returns is nothing or a good conversation.
LEMMA LoadType ==
    ASSUME TypeInv, NEW e \in Employees, NEW c \in Load(e)
    PROVE  c = Nil \/ GoodConversation(c)
BY DEF TypeInv, TypeOK, Load, GoodConversation, ConversationsWellFormed

\* The part of TypeInv that only concerns check-ins, time and outcomes.
RestOK ==
    /\ reports \subseteq Report
    /\ chk \in [Checkers -> [pc : {"idle", "start"}, emp : Employees \cup {Nil}]]
    /\ \A c \in Checkers : chk[c].pc = "start" => chk[c].emp \in Employees
    /\ clock \in [day : Days, caughtUp : BOOLEAN]
    /\ published \in [Employees \X Days -> Nat]
    /\ analysing \subseteq Employees \X Days
    /\ analysed \subseteq Employees \X Days
    /\ used \subseteq Messages
    /\ replies \subseteq [emp : Employees, kind : {"saved", "failed"},
                          answers : Answers \cup {Nil}]

StoreOK ==
    /\ conv \in [Employees -> Conversation \cup {Nil}]
    /\ ConversationsWellFormed
    /\ overtaken \subseteq Handlers

HandlersOK ==
    /\ hnd \in [Handlers -> HandlerStates]
    /\ \A h \in Handlers : HandlerGood(hnd[h])

LEMMA TypeInvParts == TypeInv <=> StoreOK /\ HandlersOK /\ RestOK
BY DEF TypeInv, TypeOK, StoreOK, HandlersOK, RestOK

LEMMA TypeInit == Init => TypeInv
<1> SUFFICES ASSUME Init PROVE StoreOK /\ HandlersOK /\ RestOK
  BY TypeInvParts
<1>1. StoreOK
  BY DEF Init, StoreOK, ConversationsWellFormed
<1>2. HandlersOK
  BY IdleType DEF Init, HandlersOK
<1>3. RestOK
  BY DayAssumption DEF Init, RestOK, NoCheck, Days
<1>4. QED
  BY <1>1, <1>2, <1>3

\* One step per action; the parts an action leaves alone are immediate.
LEMMA TypeStep == TypeInv /\ [Next]_vars => TypeInv'
<1> SUFFICES ASSUME TypeInv, [Next]_vars
             PROVE  StoreOK' /\ HandlersOK' /\ RestOK'
  BY TypeInvParts, PTL
<1>0. StoreOK /\ HandlersOK /\ RestOK
  BY TypeInvParts
<1> USE DEF after
<1>a. ASSUME UNCHANGED <<conv, overtaken>> PROVE StoreOK'
  BY <1>0, <1>a DEF StoreOK, ConversationsWellFormed
<1>b. ASSUME UNCHANGED hnd PROVE HandlersOK'
  BY <1>0, <1>b DEF HandlersOK
<1>c. ASSUME UNCHANGED <<reports, chk, clock, published, analysing, analysed,
                         used, replies>>
      PROVE RestOK'
  BY <1>0, <1>c DEF RestOK
<1>d. ASSUME NEW e \in Employees, NEW c, GoodConversation(c),
             Save(e, c) \/ SaveFails
      PROVE  StoreOK'
  BY <1>d, SaveType DEF StoreOK, ConversationsWellFormed
<1>e. ASSUME NEW h \in Handlers, NEW next, next \in HandlerStates,
             HandlerGood(next), Step(h, next)
      PROVE  HandlersOK'
  BY <1>e, StepType DEF HandlersOK
<1>f. ASSUME NEW h \in Handlers, Step(h, Idle) PROVE HandlersOK'
  BY <1>e, <1>f, IdleType
<1>g. ASSUME NEW h \in Handlers, hnd[h].pc # "idle"
      PROVE  /\ hnd[h].emp \in Employees /\ HandlerGood(hnd[h])
             /\ hnd[h] \in HandlerStates
  BY <1>0, <1>g DEF HandlersOK, HandlerGood
<1>h. ASSUME NEW h \in Handlers, NEW kind \in {"saved", "failed"},
             hnd[h].pc # "idle", Reply(h, kind)
      PROVE  replies' \subseteq [emp : Employees, kind : {"saved", "failed"},
                                 answers : Answers \cup {Nil}]
  <2>1. hnd[h].got # Nil => hnd[h].got.answers \in Answers
    BY <1>g, <1>h DEF HandlerGood, GoodConversation, Conversation
  <2>2. QED
    BY <2>1, <1>0, <1>g, <1>h DEF Reply, RestOK
<1>1. ASSUME NEW h \in Handlers, NEW e \in Employees, NEW t \in Messages,
             ReceiveAnswer(h, e, t)
      PROVE  StoreOK' /\ HandlersOK' /\ RestOK'
  <2>1. HandlersOK'
    BY <1>1, <1>e, HandlerAtType DEF ReceiveAnswer
  <2>2. QED
    BY <2>1, <1>1, <1>a, <1>0 DEF ReceiveAnswer, RestOK
<1>2. ASSUME NEW h \in Handlers, AnswerLoad(h)
      PROVE  StoreOK' /\ HandlersOK' /\ RestOK'
  <2>1. /\ hnd[h].emp \in Employees
        /\ hnd[h].text \in Messages
    BY <1>2, <1>g DEF AnswerLoad, HandlerGood
  <2>2. PICK c \in Load(hnd[h].emp) :
          \/ Step(h, Idle)
          \/ /\ c # Nil /\ c.state = "collecting"
             /\ Step(h, HandlerAt("answerSave", hnd[h].emp, hnd[h].text, c, Nil, 0))
    BY <1>2 DEF AnswerLoad, Collecting
  <2>3. c = Nil \/ GoodConversation(c)
    BY <2>1, LoadType
  <2>4. HandlersOK'
    BY <2>1, <2>2, <2>3, <1>e, <1>f, HandlerAtType
  <2>5. QED
    BY <2>4, <1>2, <1>a, <1>c DEF AnswerLoad
<1>3. ASSUME NEW h \in Handlers, AnswerSave(h)
      PROVE  StoreOK' /\ HandlersOK' /\ RestOK'
  <2>1. GoodConversation(Answered(hnd[h].conv, hnd[h].text))
    BY <1>3, <1>g, AnsweredGood DEF AnswerSave, HandlerGood
  <2>2. StoreOK'
    BY <2>1, <1>3, <1>d, <1>g DEF AnswerSave
  <2>3. QED
    BY <2>2, <1>3, <1>f, <1>c DEF AnswerSave
<1>4. ASSUME NEW h \in Handlers, NEW e \in Employees, ReceiveEdit(h, e)
      PROVE  StoreOK' /\ HandlersOK' /\ RestOK'
  <2>1. HandlersOK'
    BY <1>4, <1>e, HandlerAtType DEF ReceiveEdit
  <2>2. QED
    BY <2>1, <1>4, <1>a, <1>c DEF ReceiveEdit
<1>5. ASSUME NEW h \in Handlers, Restart(h)
      PROVE  StoreOK' /\ HandlersOK' /\ RestOK'
  <2>1. GoodConversation(Fresh("default"))
    BY FreshGood DEF QuestionLists
  <2>2. StoreOK'
    BY <2>1, <1>5, <1>d, <1>g DEF Restart
  <2>3. QED
    BY <2>2, <1>5, <1>f, <1>c DEF Restart
<1>6. ASSUME NEW h \in Handlers, NEW e \in Employees, ReceiveConfirm(h, e)
      PROVE  StoreOK' /\ HandlersOK' /\ RestOK'
  <2>1. HandlersOK'
    BY <1>6, <1>e, HandlerAtType DEF ReceiveConfirm
  <2>2. StoreOK'
    BY <1>6, <1>0 DEF ReceiveConfirm, StoreOK, ConversationsWellFormed
  <2>3. QED
    BY <2>1, <2>2, <1>6, <1>c DEF ReceiveConfirm
<1>7. ASSUME NEW h \in Handlers, GetAnswers(h)
      PROVE  StoreOK' /\ HandlersOK' /\ RestOK'
  <2>1. PICK c \in Load(hnd[h].emp) :
          Step(h, HandlerAt("confirmLoad", hnd[h].emp, Nil, Nil, c, 0))
    BY <1>7 DEF GetAnswers
  <2>2. hnd[h].emp \in Employees /\ (c = Nil \/ GoodConversation(c))
    BY <1>7, <1>g, <2>1, LoadType DEF GetAnswers
  <2>3. HandlersOK'
    BY <2>1, <2>2, <1>e, HandlerAtType
  <2>4. QED
    BY <2>3, <1>7, <1>a, <1>c DEF GetAnswers
<1>8. ASSUME NEW h \in Handlers, ConfirmLoad(h)
      PROVE  StoreOK' /\ HandlersOK' /\ RestOK'
  <2>1. PICK c \in Load(hnd[h].emp) :
          \/ Step(h, Idle)
          \/ /\ c # Nil
             /\ Step(h, HandlerAt("confirmSave", hnd[h].emp, Nil, c, hnd[h].got, 0))
    BY <1>8 DEF ConfirmLoad
  <2>2. /\ hnd[h].emp \in Employees
        /\ c = Nil \/ GoodConversation(c)
        /\ hnd[h].got = Nil \/ GoodConversation(hnd[h].got)
    BY <1>8, <1>g, <2>1, LoadType DEF ConfirmLoad, HandlerGood
  <2>3. HandlersOK'
    BY <2>1, <2>2, <1>e, <1>f, HandlerAtType
  <2>4. QED
    BY <2>3, <1>8, <1>a, <1>c DEF ConfirmLoad
<1>9. ASSUME NEW h \in Handlers, ConfirmSave(h)
      PROVE  StoreOK' /\ HandlersOK' /\ RestOK'
  <2>1. /\ hnd[h].emp \in Employees /\ GoodConversation(Completed(hnd[h].conv))
        /\ hnd[h].got = Nil \/ GoodConversation(hnd[h].got)
    BY <1>9, <1>g, CompletedGood DEF ConfirmSave, HandlerGood
  <2>2. StoreOK'
    BY <2>1, <1>9, <1>d DEF ConfirmSave
  <2>3. HandlersOK'
    <3>1. CASE Step(h, Idle)
      BY <3>1, <1>f
    <3>2. CASE /\ hnd[h].got # Nil
               /\ Step(h, HandlerAt("create", hnd[h].emp, Nil, Nil, hnd[h].got, 0))
      BY <3>2, <2>1, <1>e, HandlerAtType
    <3>3. QED
      BY <3>1, <3>2, <1>9 DEF ConfirmSave
  <2>4. RestOK'
    <3>1. CASE UNCHANGED replies
      BY <3>1, <1>9, <1>c DEF ConfirmSave
    <3>2. CASE Reply(h, "saved")
      BY <3>2, <1>9, <1>h, <1>0 DEF ConfirmSave, RestOK
    <3>3. QED
      BY <3>1, <3>2, <1>9 DEF ConfirmSave
  <2>5. QED
    BY <2>2, <2>3, <2>4
<1>10. ASSUME NEW h \in Handlers, CreateReport(h)
       PROVE  StoreOK' /\ HandlersOK' /\ RestOK'
  <2>1. /\ hnd[h].emp \in Employees /\ GoodConversation(hnd[h].got)
        /\ clock.day \in Days
    BY <1>10, <1>g, <1>0 DEF CreateReport, HandlerGood, RestOK
  <2>2. HandlersOK'
    BY <2>1, <1>10, <1>e, HandlerAtType, NilNotGood DEF CreateReport
  <2>3. reports' \subseteq Report
    <3> DEFINE b == h \in overtaken
               r == [emp |-> hnd[h].emp, date |-> clock.day,
                     answers |-> hnd[h].got.answers,
                     asked |-> hnd[h].got.questions, overtaken |-> b]
    <3>1. b \in BOOLEAN
      OBVIOUS
    <3>2. hnd[h].got.answers \in Answers /\ hnd[h].got.questions \in QuestionLists
      BY <2>1 DEF GoodConversation, Conversation
    <3>3. reports' = reports \cup {r}
      BY <1>10 DEF CreateReport
    <3> HIDE DEF b
    <3>4. r \in Report
      BY <2>1, <3>1, <3>2 DEF Report
    <3>5. QED
      BY <3>3, <3>4, <1>0 DEF RestOK
  <2>4. QED
    BY <2>2, <2>3, <1>10, <1>0, <1>a DEF CreateReport, RestOK
<1>11. ASSUME NEW h \in Handlers, CreateReportFails(h)
       PROVE  StoreOK' /\ HandlersOK' /\ RestOK'
  <2>1. RestOK'
    BY <1>11, <1>h, <1>0 DEF CreateReportFails, RestOK
  <2>2. QED
    BY <2>1, <1>11, <1>f, <1>a DEF CreateReportFails
<1>12. ASSUME NEW h \in Handlers, PublishSubmitted(h)
       PROVE  StoreOK' /\ HandlersOK' /\ RestOK'
  <2>1. <<hnd[h].emp, hnd[h].date>> \in Employees \X Days
    BY <1>12, <1>g DEF PublishSubmitted, HandlerGood
  <2>2. published' \in [Employees \X Days -> Nat]
    BY <2>1, <1>12, <1>0 DEF PublishSubmitted, RestOK
  <2>3. replies' \subseteq [emp : Employees, kind : {"saved", "failed"},
                            answers : Answers \cup {Nil}]
    BY <1>12, <1>h DEF PublishSubmitted
  <2>4. RestOK'
    BY <2>1, <2>2, <2>3, <1>12, <1>0 DEF PublishSubmitted, RestOK
  <2>5. QED
    BY <2>4, <1>12, <1>f, <1>a DEF PublishSubmitted
<1>13. ASSUME NEW key \in Employees \X Days, Analyze(key)
       PROVE  StoreOK' /\ HandlersOK' /\ RestOK'
  BY <1>13, <1>0, <1>a, <1>b DEF Analyze, RestOK
<1>14. ASSUME NEW e \in Employees, Remind(e)
       PROVE  StoreOK' /\ HandlersOK' /\ RestOK'
  <2>1. GoodConversation(Fresh("mentor"))
    BY FreshGood DEF QuestionLists
  <2>2. QED
    BY <2>1, <1>14, <1>b, <1>c, <1>d DEF Remind
<1>15. ASSUME NEW c \in Checkers, NEW e \in Employees, CheckinCount(c, e)
       PROVE  StoreOK' /\ HandlersOK' /\ RestOK'
  BY <1>15, <1>0, <1>a, <1>b DEF CheckinCount, RestOK
<1>16. ASSUME NEW c \in Checkers, CheckinStart(c)
       PROVE  StoreOK' /\ HandlersOK' /\ RestOK'
  <2>1. chk[c].emp \in Employees /\ GoodConversation(Fresh("mentor"))
    BY <1>16, <1>0, FreshGood DEF CheckinStart, RestOK, QuestionLists
  <2>2. StoreOK'
    BY <2>1, <1>16, <1>d DEF CheckinStart
  <2>3. RestOK'
    BY <1>16, <1>0 DEF CheckinStart, RestOK, NoCheck
  <2>4. QED
    BY <2>2, <2>3, <1>16, <1>b DEF CheckinStart
<1>17. ASSUME NEW e \in Employees, Expire(e)
       PROVE  StoreOK' /\ HandlersOK' /\ RestOK'
  <2>1. StoreOK'
    BY <1>17, <1>0 DEF Expire, StoreOK, ConversationsWellFormed
  <2>2. QED
    BY <2>1, <1>17, <1>b, <1>c DEF Expire
<1>18. ASSUME Tick
       PROVE  StoreOK' /\ HandlersOK' /\ RestOK'
  <2>1. clock' \in [day : Days, caughtUp : BOOLEAN]
    <3>1. CASE clock' = [clock EXCEPT !.caughtUp = TRUE]
      BY <3>1, <1>0 DEF RestOK
    <3>2. CASE clock.day < MaxDay /\ clock' = [day |-> clock.day + 1, caughtUp |-> FALSE]
      BY <3>2, <1>0, DayAssumption DEF RestOK, Days
    <3>3. QED
      BY <3>1, <3>2, <1>18 DEF Tick
  <2>2. QED
    BY <2>1, <1>18, <1>0, <1>a, <1>b DEF Tick, RestOK
<1>19. ASSUME Crash
       PROVE  StoreOK' /\ HandlersOK' /\ RestOK'
  <2>1. HandlersOK'
    BY <1>19, IdleType DEF Crash, HandlersOK
  <2>2. RestOK'
    BY <1>19, <1>0 DEF Crash, RestOK, NoCheck
  <2>3. QED
    BY <2>1, <2>2, <1>19, <1>a DEF Crash
<1>20. CASE UNCHANGED vars
  BY <1>20, <1>a, <1>b, <1>c DEF vars
<1>21. QED
  BY <1>1, <1>2, <1>3, <1>4, <1>5, <1>6, <1>7, <1>8, <1>9, <1>10, <1>11, <1>12,
     <1>13, <1>14, <1>15, <1>16, <1>17, <1>18, <1>19, <1>20
     DEF Next, HandlerStep, Receive

LEMMA TypeInvariant == Spec => []TypeInv
BY TypeInit, TypeStep, PTL DEF Spec

\* Every variable keeps its type, whatever the number of handlers.
THEOREM TypeCorrect == Spec => []TypeOK
<1>1. TypeInv => TypeOK
  BY DEF TypeInv
<1>2. QED
  BY <1>1, TypeInvariant, PTL

\* However handlers, check-ins, faults and crashes interleave, Redis never
\* holds a conversation that no sequence of answers could have produced.
THEOREM ConversationsStayWellFormed == Spec => []ConversationsWellFormed
<1>1. TypeInv => ConversationsWellFormed
  BY DEF TypeInv
<1>2. QED
  BY <1>1, TypeInvariant, PTL

-----------------------------------------------------------------------------
(* Complete reports                                                        *)

\* A handler that has not been overtaken confirms what its GetState saw.
NotOvertaken(h) ==
    h \notin overtaken =>
      /\ hnd[h].pc = "getAnswers" /\ conv[hnd[h].emp] # Nil =>
           conv[hnd[h].emp].state = "confirming"
      /\ hnd[h].pc \in {"confirmLoad", "confirmSave", "create"} /\ hnd[h].got # Nil =>
           DOMAIN hnd[h].got.answers = 1..NumQuestions(hnd[h].got.questions)

OvertakenInv ==
    /\ \A h \in Handlers : NotOvertaken(h)
    /\ OnlyOvertakenReportsIncomplete

\* Whoever writes the conversation, no handler is wrong about it unnoticed.
LEMMA SaveOvertakes ==
    ASSUME TypeInv, NEW g \in Handlers, NotOvertaken(g), NEW e \in Employees,
           NEW c, Save(e, c) \/ SaveFails, hnd'[g] = hnd[g]
    PROVE  NotOvertaken(g)'
<1>1. hnd[g].pc = "getAnswers" => hnd[g].emp \in Employees
  BY DEF TypeInv, HandlerGood
<1>2. CASE Save(e, c)
  BY <1>1, <1>2 DEF NotOvertaken, Save, TypeInv, TypeOK
<1>3. CASE SaveFails
  BY <1>3 DEF NotOvertaken, SaveFails
<1>4. QED
  BY <1>2, <1>3

LEMMA OvertakenStep == TypeInv /\ OvertakenInv /\ [Next]_vars => OvertakenInv'
<1> SUFFICES ASSUME TypeInv, OvertakenInv, [Next]_vars PROVE OvertakenInv'
  OBVIOUS
<1> USE DEF after
<1>0. /\ hnd \in [Handlers -> HandlerStates]
      /\ \A h \in Handlers : NotOvertaken(h) /\ HandlerGood(hnd[h])
      /\ OnlyOvertakenReportsIncomplete
  BY DEF TypeInv, TypeOK, OvertakenInv
<1>a. ASSUME UNCHANGED reports PROVE OnlyOvertakenReportsIncomplete'
  BY <1>0, <1>a DEF OnlyOvertakenReportsIncomplete, AllAnswered
<1>b. ASSUME NEW g \in Handlers, hnd'[g] = hnd[g], UNCHANGED <<conv, overtaken>>
      PROVE  NotOvertaken(g)'
  BY <1>0, <1>b DEF NotOvertaken
<1>c. ASSUME NEW g \in Handlers,
             hnd'[g].pc \notin {"getAnswers", "confirmLoad", "confirmSave", "create"}
      PROVE  NotOvertaken(g)'
  BY <1>c DEF NotOvertaken
<1>d. ASSUME NEW h \in Handlers, NEW g \in Handlers, g # h, NEW next, Step(h, next)
      PROVE  hnd'[g] = hnd[g]
  BY <1>0, <1>d DEF Step
<1>e. ASSUME NEW h \in Handlers, NEW next, Step(h, next)
      PROVE  hnd'[h] = next
  BY <1>0, <1>e DEF Step
<1>f. Idle.pc = "idle"
  BY DEF Idle, HandlerAt
<1>g. ASSUME NEW h \in Handlers, NEW next, Step(h, next),
             next.pc \notin {"getAnswers", "confirmLoad", "confirmSave", "create"},
             UNCHANGED <<conv, overtaken>>
      PROVE  \A g \in Handlers : NotOvertaken(g)'
  BY <1>b, <1>c, <1>d, <1>e, <1>g
<1>h. ASSUME NEW h \in Handlers, NEW next, Step(h, next),
             next.pc \notin {"getAnswers", "confirmLoad", "confirmSave", "create"},
             NEW e \in Employees, NEW c, Save(e, c) \/ SaveFails
      PROVE  \A g \in Handlers : NotOvertaken(g)'
  BY <1>0, <1>c, <1>d, <1>e, <1>h, SaveOvertakes
<1>1. ASSUME NEW h \in Handlers, NEW e \in Employees, NEW t \in Messages,
             ReceiveAnswer(h, e, t)
      PROVE  OvertakenInv'
  BY <1>1, <1>a, <1>g DEF ReceiveAnswer, HandlerAt, OvertakenInv
<1>2. ASSUME NEW h \in Handlers, AnswerLoad(h) PROVE OvertakenInv'
  BY <1>2, <1>a, <1>g, <1>f DEF AnswerLoad, HandlerAt, OvertakenInv
<1>3. ASSUME NEW h \in Handlers, AnswerSave(h) PROVE OvertakenInv'
  <2>1. hnd[h].emp \in Employees
    BY <1>3, <1>0 DEF AnswerSave, HandlerGood
  <2>2. QED
    BY <2>1, <1>3, <1>a, <1>h, <1>f DEF AnswerSave, OvertakenInv
<1>4. ASSUME NEW h \in Handlers, NEW e \in Employees, ReceiveEdit(h, e)
      PROVE  OvertakenInv'
  BY <1>4, <1>a, <1>g DEF ReceiveEdit, HandlerAt, OvertakenInv
<1>5. ASSUME NEW h \in Handlers, Restart(h) PROVE OvertakenInv'
  <2>1. hnd[h].emp \in Employees
    BY <1>5, <1>0 DEF Restart, HandlerGood
  <2>2. QED
    BY <2>1, <1>5, <1>a, <1>h, <1>f DEF Restart, OvertakenInv
<1>6. ASSUME NEW h \in Handlers, NEW e \in Employees, ReceiveConfirm(h, e)
      PROVE  OvertakenInv'
  <2>1. NotOvertaken(h)'
    BY <1>6, <1>e DEF ReceiveConfirm, InState, HandlerAt, NotOvertaken
  <2>2. ASSUME NEW g \in Handlers, g # h PROVE NotOvertaken(g)'
    BY <2>2, <1>0, <1>6, <1>d DEF ReceiveConfirm, NotOvertaken
  <2>3. QED
    BY <2>1, <2>2, <1>6, <1>a DEF ReceiveConfirm, OvertakenInv
<1>7. ASSUME NEW h \in Handlers, GetAnswers(h) PROVE OvertakenInv'
  <2>1. PICK c \in Load(hnd[h].emp) :
          Step(h, HandlerAt("confirmLoad", hnd[h].emp, Nil, Nil, c, 0))
    BY <1>7 DEF GetAnswers
  <2>2. c # Nil => c = conv[hnd[h].emp] /\ WellFormed(c)
    BY <1>7, <1>0, <2>1
       DEF Load, GetAnswers, HandlerGood, TypeInv, ConversationsWellFormed
  <2>3. NotOvertaken(h)'
    BY <2>1, <2>2, <1>7, <1>0, <1>e
       DEF GetAnswers, HandlerAt, NotOvertaken, WellFormed
  <2>4. QED
    BY <2>1, <2>3, <1>7, <1>a, <1>b, <1>d DEF GetAnswers, OvertakenInv
<1>8. ASSUME NEW h \in Handlers, ConfirmLoad(h) PROVE OvertakenInv'
  <2>1. NotOvertaken(h)'
    BY <1>8, <1>0, <1>c, <1>e, <1>f DEF ConfirmLoad, HandlerAt, NotOvertaken
  <2>2. QED
    BY <2>1, <1>8, <1>a, <1>b, <1>d DEF ConfirmLoad, OvertakenInv
<1>9. ASSUME NEW h \in Handlers, ConfirmSave(h) PROVE OvertakenInv'
  <2>1. hnd[h].emp \in Employees
    BY <1>9, <1>0 DEF ConfirmSave, HandlerGood
  <2>2. NotOvertaken(h)'
    <3>1. overtaken \subseteq overtaken'
      BY <1>9 DEF ConfirmSave, Save, SaveFails
    <3>2. QED
      BY <3>1, <1>9, <1>0, <1>c, <1>e, <1>f DEF ConfirmSave, HandlerAt, NotOvertaken
  <2>3. ASSUME NEW g \in Handlers, g # h PROVE NotOvertaken(g)'
    BY <2>1, <2>3, <1>9, <1>0, <1>d, SaveOvertakes DEF ConfirmSave
  <2>4. QED
    BY <2>2, <2>3, <1>9, <1>a DEF ConfirmSave, OvertakenInv
<1>10. ASSUME NEW h \in Handlers, CreateReport(h) PROVE OvertakenInv'
  <2> DEFINE b == h \in overtaken
             new == [emp |-> hnd[h].emp, date |-> clock.day,
                     answers |-> hnd[h].got.answers,
                     asked |-> hnd[h].got.questions, overtaken |-> b]
  <2>1. reports' = reports \cup {new}
    BY <1>10 DEF CreateReport
  <2>2. hnd[h].got # Nil
    BY <1>10, <1>0 DEF CreateReport, HandlerGood
  <2>3. ~ b => AllAnswered(new)
    BY <2>2, <1>10, <1>0 DEF CreateReport, NotOvertaken, AllAnswered
  <2>4. new.overtaken <=> b
    OBVIOUS
  <2> HIDE DEF new, b
  <2>5. OnlyOvertakenReportsIncomplete'
    BY <2>1, <2>3, <2>4, <1>0 DEF OnlyOvertakenReportsIncomplete, AllAnswered
  <2>6. QED
    BY <2>5, <1>10, <1>g DEF CreateReport, HandlerAt, OvertakenInv
<1>11. ASSUME NEW h \in Handlers, CreateReportFails(h) PROVE OvertakenInv'
  BY <1>11, <1>a, <1>g, <1>f DEF CreateReportFails, OvertakenInv
<1>12. ASSUME NEW h \in Handlers, PublishSubmitted(h) PROVE OvertakenInv'
  BY <1>12, <1>a, <1>g, <1>f DEF PublishSubmitted, OvertakenInv
<1>13. ASSUME UNCHANGED <<conv, reports, hnd, overtaken>> PROVE OvertakenInv'
  BY <1>13, <1>a, <1>b DEF OvertakenInv
<1>14. ASSUME NEW e \in Employees, NEW c, Save(e, c) \/ SaveFails,
              UNCHANGED <<hnd, reports>>
       PROVE  OvertakenInv'
  BY <1>14, <1>0, <1>a, SaveOvertakes DEF OvertakenInv
<1>15. ASSUME NEW c \in Checkers, CheckinStart(c) PROVE OvertakenInv'
  <2>1. chk[c].emp \in Employees
    BY <1>15 DEF CheckinStart, TypeInv
  <2>2. QED
    BY <2>1, <1>15, <1>14 DEF CheckinStart
<1>16. ASSUME NEW e \in Employees, Expire(e) PROVE OvertakenInv'
  <2>1. \A g \in Handlers : NotOvertaken(g)'
    BY <1>16, <1>0 DEF Expire, NotOvertaken, TypeInv, TypeOK
  <2>2. QED
    BY <2>1, <1>16, <1>a DEF Expire, OvertakenInv
<1>17. ASSUME Crash PROVE OvertakenInv'
  BY <1>17, <1>a, <1>c, <1>f DEF Crash, OvertakenInv
<1>18. QED
  BY <1>1, <1>2, <1>3, <1>4, <1>5, <1>6, <1>7, <1>8, <1>9, <1>10, <1>11, <1>12,
     <1>13, <1>14, <1>15, <1>16, <1>17
     DEF Next, HandlerStep, Receive, Remind, Analyze, CheckinCount, Tick, vars

\* A saved report lacks an answer only if the conversation was written by
\* somebody else between the handler's GetState and its GetAnswers.
THEOREM ReportsIncompleteOnlyWhenOvertaken ==
    Spec => []OnlyOvertakenReportsIncomplete
<1>1. Init => OvertakenInv
  BY DEF Init, OvertakenInv, NotOvertaken, Idle, HandlerAt,
         OnlyOvertakenReportsIncomplete
<1>2. OvertakenInv => OnlyOvertakenReportsIncomplete
  BY DEF OvertakenInv
<1>3. QED
  BY <1>1, <1>2, OvertakenStep, TypeInvariant, PTL DEF Spec

-----------------------------------------------------------------------------
(* One announcement per report                                             *)

KeyOf(h) == <<hnd[h].emp, hnd[h].date>>

Saved(key) == HasReport(key[1], key[2])

\* A handler about to publish owns its report: the row exists, has not been
\* announced, and no other handler is about to announce it.
AnnounceInv ==
    /\ AnnouncedOnceAfterSave
    /\ \A h \in Handlers : hnd[h].pc = "publish" =>
         /\ Saved(KeyOf(h))
         /\ published[KeyOf(h)] = 0
         /\ \A g \in Handlers : hnd[g].pc = "publish" /\ g # h => KeyOf(g) # KeyOf(h)
    /\ \A key \in analysing : Saved(key)

\* Steps that neither save, publish nor finish an analysis.
LEMMA AnnounceUnchanged ==
    ASSUME AnnounceInv, UNCHANGED <<reports, published>>,
           analysing' \subseteq analysing,
           \A g \in Handlers : hnd'[g].pc = "publish" => hnd'[g] = hnd[g]
    PROVE  AnnounceInv'
BY DEF AnnounceInv, AnnouncedOnceAfterSave, Saved, HasReport, KeyOf

LEMMA AnnounceStep == TypeInv /\ AnnounceInv /\ [Next]_vars => AnnounceInv'
<1> SUFFICES ASSUME TypeInv, AnnounceInv, [Next]_vars PROVE AnnounceInv'
  OBVIOUS
<1> USE DEF after
<1>0. /\ hnd \in [Handlers -> HandlerStates]
      /\ \A h \in Handlers : HandlerGood(hnd[h])
      /\ published \in [Employees \X Days -> Nat]
      /\ clock.day \in Days
  BY DEF TypeInv, TypeOK
<1>1. Idle.pc = "idle"
  BY DEF Idle, HandlerAt
<1>2. ASSUME NEW h \in Handlers, CreateReport(h) PROVE AnnounceInv'
  <2> DEFINE key == <<hnd[h].emp, clock.day>>
  <2>1. key \in Employees \X Days /\ ~ Saved(key)
    BY <1>2, <1>0 DEF CreateReport, HandlerGood, Saved
  <2>2. published[key] = 0
    BY <2>1, <1>0 DEF AnnounceInv, AnnouncedOnceAfterSave, Saved
  <2>3. /\ \E r \in reports' : r.emp = key[1] /\ r.date = key[2]
        /\ \A k \in Employees \X Days : Saved(k) => Saved(k)'
    <3> DEFINE b == h \in overtaken
               new == [emp |-> hnd[h].emp, date |-> clock.day,
                       answers |-> hnd[h].got.answers,
                       asked |-> hnd[h].got.questions, overtaken |-> b]
    <3>1. reports' = reports \cup {new}
      BY <1>2 DEF CreateReport
    <3> HIDE DEF b
    <3>2. new.emp = key[1] /\ new.date = key[2]
      OBVIOUS
    <3> HIDE DEF new, key
    <3>3. QED
      BY <3>1, <3>2 DEF Saved, HasReport
  <2>4. /\ hnd'[h].pc = "publish" /\ KeyOf(h)' = key
        /\ \A g \in Handlers \ {h} : hnd'[g] = hnd[g]
    BY <1>2, <1>0 DEF CreateReport, Step, HandlerAt, KeyOf
  <2>5. \A g \in Handlers \ {h} : hnd[g].pc = "publish" =>
            KeyOf(g) # key /\ KeyOf(g) \in Employees \X Days
    BY <2>1, <1>0 DEF AnnounceInv, HandlerGood, KeyOf
  <2>6. UNCHANGED <<published, analysing>>
    BY <1>2 DEF CreateReport
  <2>7. AnnouncedOnceAfterSave'
    BY <2>3, <2>6 DEF AnnounceInv, AnnouncedOnceAfterSave, Saved
  <2>8. \A k \in analysing' : Saved(k)'
    BY <2>3, <2>6 DEF AnnounceInv, TypeInv, TypeOK
  <2> HIDE DEF key
  <2>9. ASSUME NEW g \in Handlers, hnd'[g].pc = "publish"
        PROVE  /\ Saved(KeyOf(g))' /\ published'[KeyOf(g)'] = 0
               /\ \A f \in Handlers : hnd'[f].pc = "publish" /\ f # g =>
                     KeyOf(f)' # KeyOf(g)'
    <3>1. CASE g = h
      <4>1. KeyOf(g)' = key
        BY <2>4, <3>1
      <4>2. \A f \in Handlers : hnd'[f].pc = "publish" /\ f # g => KeyOf(f)' # key
        BY <2>4, <2>5, <3>1 DEF KeyOf
      <4>3. QED
        BY <4>1, <4>2, <2>2, <2>3, <2>6 DEF Saved, HasReport
    <3>2. CASE g # h
      BY <3>2, <2>3, <2>4, <2>5, <2>6, <2>9 DEF AnnounceInv, KeyOf, Saved
    <3>3. QED
      BY <3>1, <3>2
  <2>10. QED
    BY <2>7, <2>8, <2>9 DEF AnnounceInv
<1>3. ASSUME NEW h \in Handlers, PublishSubmitted(h) PROVE AnnounceInv'
  <2> DEFINE key == KeyOf(h)
  <2>1. key \in Employees \X Days /\ Saved(key) /\ published[key] = 0
    BY <1>3, <1>0 DEF PublishSubmitted, AnnounceInv, HandlerGood, KeyOf
  <2>2. /\ hnd'[h].pc = "idle"
        /\ \A g \in Handlers \ {h} : hnd'[g] = hnd[g]
    BY <1>3, <1>0, <1>1 DEF PublishSubmitted, Step
  <2>3. \A g \in Handlers \ {h} : hnd[g].pc = "publish" =>
            KeyOf(g) # key /\ KeyOf(g) \in Employees \X Days
    BY <1>3, <1>0 DEF PublishSubmitted, AnnounceInv, HandlerGood, KeyOf
  <2>4. /\ UNCHANGED reports
        /\ analysing' = analysing \cup {key}
        /\ \/ published' = [published EXCEPT ![key] = 1]
           \/ UNCHANGED published
    BY <2>1, <1>3 DEF PublishSubmitted, KeyOf
  <2>5. \A k : Saved(k)' <=> Saved(k)
    BY <2>4 DEF Saved, HasReport
  <2> HIDE DEF key
  <2>6. AnnouncedOnceAfterSave'
    BY <1>0, <2>1, <2>4, <2>5 DEF AnnounceInv, AnnouncedOnceAfterSave, Saved
  <2>7. \A k \in analysing' : Saved(k)'
    BY <2>1, <2>4, <2>5 DEF AnnounceInv
  <2>8. ASSUME NEW g \in Handlers, hnd'[g].pc = "publish"
        PROVE  /\ Saved(KeyOf(g))' /\ published'[KeyOf(g)'] = 0
               /\ \A f \in Handlers : hnd'[f].pc = "publish" /\ f # g =>
                     KeyOf(f)' # KeyOf(g)'
    <3>1. g # h /\ hnd[g].pc = "publish" /\ KeyOf(g)' = KeyOf(g)
      BY <2>2, <2>8 DEF KeyOf
    <3>2. published'[KeyOf(g)] = 0
      BY <1>0, <2>1, <2>3, <2>4, <3>1 DEF AnnounceInv
    <3>3. Saved(KeyOf(g))'
      BY <2>5, <3>1 DEF AnnounceInv, Saved, HasReport
    <3>4. ASSUME NEW f \in Handlers, hnd'[f].pc = "publish", f # g
          PROVE  KeyOf(f)' # KeyOf(g)'
      <4>1. f # h /\ hnd[f].pc = "publish" /\ KeyOf(f)' = KeyOf(f)
        BY <2>2, <3>4 DEF KeyOf
      <4>2. QED
        BY <3>1, <3>4, <4>1 DEF AnnounceInv
    <3>5. QED
      BY <3>1, <3>2, <3>3, <3>4
  <2>9. QED
    BY <2>6, <2>7, <2>8 DEF AnnounceInv
<1>4. ASSUME NEW h \in Handlers, NEW next, Step(h, next), next.pc # "publish",
             UNCHANGED <<reports, published, analysing>>
      PROVE  AnnounceInv'
  <2>1. \A g \in Handlers : hnd'[g].pc = "publish" => hnd'[g] = hnd[g]
    BY <1>0, <1>4 DEF Step
  <2>2. QED
    BY <1>4, <2>1, AnnounceUnchanged
<1>5. ASSUME NEW h \in Handlers, NEW e \in Employees, Receive(h, e)
      PROVE  AnnounceInv'
  BY <1>4, <1>5 DEF Receive, ReceiveAnswer, ReceiveEdit, ReceiveConfirm, HandlerAt
<1>6. ASSUME NEW h \in Handlers,
             AnswerLoad(h) \/ AnswerSave(h) \/ Restart(h) \/ GetAnswers(h)
      PROVE  AnnounceInv'
  BY <1>1, <1>4, <1>6 DEF AnswerLoad, AnswerSave, Restart, GetAnswers, HandlerAt
<1>7. ASSUME NEW h \in Handlers,
             ConfirmLoad(h) \/ ConfirmSave(h) \/ CreateReportFails(h)
      PROVE  AnnounceInv'
  BY <1>1, <1>4, <1>7 DEF ConfirmLoad, ConfirmSave, CreateReportFails, HandlerAt
<1>8. ASSUME UNCHANGED <<reports, hnd, published>>, analysing' \subseteq analysing
      PROVE  AnnounceInv'
  BY <1>8, AnnounceUnchanged
<1>9. ASSUME NEW key \in Employees \X Days, Analyze(key) PROVE AnnounceInv'
  BY <1>8, <1>9 DEF Analyze
<1>10. ASSUME Crash PROVE AnnounceInv'
  BY <1>1, <1>10, AnnounceUnchanged DEF Crash
<1>11. QED
  BY <1>2, <1>3, <1>5, <1>6, <1>7, <1>8, <1>9, <1>10
     DEF Next, HandlerStep, Remind, CheckinCount, CheckinStart, Expire, Tick, vars

LEMMA AnnounceInvariant == Spec => []AnnounceInv
<1>1. Init => AnnounceInv
  BY DEF Init, AnnounceInv, AnnouncedOnceAfterSave, Idle, HandlerAt
<1>2. QED
  BY <1>1, AnnounceStep, TypeInvariant, PTL DEF Spec

\* ReportSubmitted is published at most once per employee and day, only after
\* the report was saved, however many "confirm" messages are in flight.
THEOREM AnnouncedOnce == Spec => []AnnouncedOnceAfterSave
<1>1. AnnounceInv => AnnouncedOnceAfterSave
  BY DEF AnnounceInv
<1>2. QED
  BY <1>1, AnnounceInvariant, PTL

-----------------------------------------------------------------------------
(* The check-in implements DailyReport                                     *)

SavedKeys == {<<r.emp, r.date>> : r \in reports}

LEMMA SavedKeysMean ==
    ASSUME TypeOK, NEW k \in Employees \X Days
    PROVE  k \in SavedKeys <=> Saved(k)
BY DEF TypeOK, SavedKeys, Saved, HasReport, Report

\* Saving a report is Save, publishing is Announce, storing an analysis is
\* Analyse; every other step of the program stutters.
LEMMA DailyStep ==
    TypeInv /\ AnnounceInv /\ [Next]_vars => [Daily!Next]_(Daily!vars)
<1> SUFFICES ASSUME TypeInv, AnnounceInv, [Next]_vars
             PROVE  Daily!Next \/ UNCHANGED Daily!vars
  BY DEF Daily!vars
<1> USE DEF after
<1>0. /\ TypeOK
      /\ \A h \in Handlers : HandlerGood(hnd[h])
  BY DEF TypeInv
<1>1. ASSUME UNCHANGED <<reports, published, analysed>>
      PROVE  UNCHANGED Daily!vars
  BY <1>1 DEF Daily!vars
<1>2. ASSUME NEW h \in Handlers, CreateReport(h) PROVE Daily!Next
  <2> PICK k \in Employees \X Days : k = <<hnd[h].emp, clock.day>>
    BY <1>2, <1>0 DEF CreateReport, HandlerGood, TypeOK
  <2> DEFINE b == h \in overtaken
             new == [emp |-> hnd[h].emp, date |-> clock.day,
                     answers |-> hnd[h].got.answers,
                     asked |-> hnd[h].got.questions, overtaken |-> b]
  <2>1. ~ Saved(k)
    BY <1>2 DEF CreateReport, Saved
  <2>2. k \notin SavedKeys
    BY <2>1, <1>0, SavedKeysMean
  <2>3. reports' = reports \cup {new} /\ UNCHANGED <<published, analysed>>
    BY <1>2 DEF CreateReport
  <2> HIDE DEF b
  <2>4. <<new.emp, new.date>> = k
    OBVIOUS
  <2> HIDE DEF new
  <2>5. SavedKeys' = SavedKeys \cup {k}
    BY <2>3, <2>4 DEF SavedKeys
  <2>6. Daily!Save(k)
    BY <2>2, <2>3, <2>5 DEF Daily!Save, SavedKeys
  <2>7. QED
    BY <2>6 DEF Daily!Next, Daily!Key
<1>3. ASSUME NEW h \in Handlers, PublishSubmitted(h)
      PROVE  Daily!Next \/ UNCHANGED Daily!vars
  <2> PICK k \in Employees \X Days : k = KeyOf(h)
    BY <1>3, <1>0 DEF PublishSubmitted, HandlerGood, KeyOf
  <2>1. Saved(k) /\ published[k] = 0
    BY <1>3 DEF PublishSubmitted, AnnounceInv
  <2>2. k \in SavedKeys
    BY <2>1, <1>0, SavedKeysMean
  <2>3. UNCHANGED <<reports, analysed>>
    BY <1>3 DEF PublishSubmitted
  <2>4. CASE published' = [published EXCEPT ![k] = 1]
    <3>1. Daily!Announce(k)
      BY <2>1, <2>2, <2>3, <2>4 DEF Daily!Announce, SavedKeys
    <3>2. QED
      BY <3>1 DEF Daily!Next, Daily!Key
  <2>5. CASE UNCHANGED published
    BY <2>3, <2>5, <1>1
  <2>6. QED
    BY <2>1, <2>4, <2>5, <1>3 DEF PublishSubmitted, KeyOf
<1>4. ASSUME NEW k \in Employees \X Days, Analyze(k)
      PROVE  Daily!Next \/ UNCHANGED Daily!vars
  <2>1. UNCHANGED <<reports, published>>
    BY <1>4 DEF Analyze
  <2>2. CASE Saved(k) /\ analysed' = analysed \cup {k}
    <3>1. k \in SavedKeys
      BY <2>2, <1>0, SavedKeysMean
    <3>2. Daily!Analyse(k)
      BY <2>1, <2>2, <3>1 DEF Daily!Analyse, SavedKeys
    <3>3. QED
      BY <3>2 DEF Daily!Next, Daily!Key
  <2>3. CASE UNCHANGED analysed
    BY <2>1, <2>3, <1>1
  <2>4. QED
    BY <2>2, <2>3, <1>4 DEF Analyze, Saved
<1>5. ASSUME NEW h \in Handlers, NEW e \in Employees, Receive(h, e)
      PROVE  UNCHANGED Daily!vars
  BY <1>1, <1>5 DEF Receive, ReceiveAnswer, ReceiveEdit, ReceiveConfirm
<1>6. ASSUME NEW h \in Handlers,
             \/ AnswerLoad(h) \/ AnswerSave(h) \/ Restart(h) \/ GetAnswers(h)
             \/ ConfirmLoad(h) \/ ConfirmSave(h) \/ CreateReportFails(h)
      PROVE  UNCHANGED Daily!vars
  BY <1>1, <1>6 DEF AnswerLoad, AnswerSave, Restart, GetAnswers, ConfirmLoad,
                    ConfirmSave, CreateReportFails
<1>7. QED
  BY <1>1, <1>2, <1>3, <1>4, <1>5, <1>6
     DEF Next, HandlerStep, Remind, CheckinCount, CheckinStart, Expire, Tick,
         Crash, vars

\* Whatever the interleaving, employees get at most one report a day, and it
\* is announced at most once and analysed only after it was saved.
THEOREM ImplementsDailyReport == Spec => DailySpec
<1>1. Init => Daily!Init
  BY DEF Init, Daily!Init, Daily!Key
<1>2. QED
  BY <1>1, DailyStep, TypeInvariant, AnnounceInvariant, PTL
     DEF Spec, DailySpec, Daily!Spec

=============================================================================
