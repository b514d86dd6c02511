------------------------- MODULE Engagement_proofs -------------------------
(***************************************************************************)
(* Proofs about Engagement: for any number of requests, questions, rows,   *)
(* turns, days and faults.                                                 *)
(***************************************************************************)
EXTENDS Engagement, WellFoundedInduction, TLAPS

-----------------------------------------------------------------------------
(* Types                                                                   *)

\* The first of the actions a goroutine has still to do is one of them.
LEMMA FirstOfRows ==
    ASSUME NEW S \in SUBSET Rows, S # {}
    PROVE  Min(S) \in S
<1>1. S \subseteq Nat
  BY NatAssumption DEF Rows
<1>2. PICK n \in S : \A k \in S : ~ (<<k, n>> \in OpToRel(<, Nat))
  BY <1>1, WFMin, NatLessThanWellFounded, Zenon
<1>3. \A k \in S : ~ (k < n)
  BY <1>1, <1>2, Zenon DEF OpToRel
<1>4. \A k \in S : n <= k
  BY <1>1, <1>3
<1>5. QED
  BY <1>4 DEF Min

LEMMA NothingType == Nothing \in Locals
BY NatAssumption DEF Nothing, Locals, Statuses

\* What a goroutine remembers, field by field.
LEMMA LocalFields ==
    ASSUME TypeOK, NEW p \in Procs
    PROVE  /\ loc[p] \in Locals
           /\ loc[p].turn \in 0 .. MaxTurns
           /\ loc[p].questions \in 0 .. MaxQuestions
           /\ loc[p].answers \in SUBSET Turns
           /\ loc[p].left \in 0 .. MaxRows
           /\ loc[p].todo \in SUBSET Rows
           /\ loc[p].write \in Statuses
BY DEF TypeOK, Locals

\* A goroutine that answers has a turn; one that reviews has a review to write;
\* the actions a goroutine has still to do exist.
Busy ==
    \A p \in Procs :
        /\ pc[p] \in {"asking", "planning", "creating"} => loc[p].turn \in Turns
        /\ pc[p] = "reviewing" => loc[p].write \in {"approved", "rejected"}
        /\ loc[p].todo \subseteq Used

TypeInv == TypeOK /\ Busy

LEMMA TypeInit == Init => TypeInv
<1> SUFFICES ASSUME Init PROVE TypeInv
  OBVIOUS
<1>1. TypeOK
  <2>1. eng \in Engagements
    BY NatAssumption DEF Init, Engagements, Never
  <2>2. rows \in [Rows -> RowRecords]
    BY DEF Init, RowRecords
  <2>3. loc \in [Procs -> Locals] /\ pc \in [Procs -> Locations]
    BY NothingType DEF Init, Locations
  <2>4. QED
    BY <2>1, <2>2, <2>3, NatAssumption DEF Init, TypeOK, Procs
<1>2. Busy
  BY DEF Init, Busy, Nothing
<1>3. QED
  BY <1>1, <1>2 DEF TypeInv

LEMMA MarkType ==
    ASSUME TypeOK, NEW a \in Used, NEW s \in Statuses, Mark(a, s)
    PROVE  rows' \in [Rows -> RowRecords] /\ Used' = Used
<1>1. a \in Rows /\ rows[a] \in [status : Statuses, plan : Turns]
  BY DEF Used, TypeOK, RowRecords, NoRow
<1>2. [rows[a] EXCEPT !.status = s] \in [status : Statuses, plan : Turns]
  BY <1>1
<1>3. rows' = [rows EXCEPT ![a] = [rows[a] EXCEPT !.status = s]]
  BY DEF Mark
<1>4. rows' \in [Rows -> RowRecords]
  BY <1>1, <1>2, <1>3 DEF TypeOK, RowRecords
<1>5. \A b \in Rows : rows'[b].status # "none" <=> rows[b].status # "none"
  <2>1. rows'[a].status = s /\ s # "none" /\ rows[a].status # "none"
    BY <1>1, <1>3 DEF TypeOK, Statuses, Used
  <2>2. \A b \in Rows : b # a => rows'[b] = rows[b]
    BY <1>3 DEF TypeOK
  <2>3. QED
    BY <2>1, <2>2
<1>6. QED
  BY <1>4, <1>5 DEF Used

\* A goroutine that returns keeps the types and Busy as long as no row goes.
LEMMA ReturnsType ==
    ASSUME TypeInv, NEW p \in Procs, Returns(p), Used \subseteq Used'
    PROVE  /\ pc' \in [Procs -> Locations] /\ loc' \in [Procs -> Locals]
           /\ pc'[Tracker] \in {"idle", "checking"}
           /\ \A q \in Procs : pc'[q] \in {"reviewing", "marking"} => loc'[q].todo # {}
           /\ Busy'
<1>1. pc' = [pc EXCEPT ![p] = "idle"] /\ loc' = [loc EXCEPT ![p] = Nothing]
  BY DEF Returns
<1>2. pc' \in [Procs -> Locations] /\ loc' \in [Procs -> Locals]
  BY <1>1, NothingType DEF TypeInv, TypeOK, Locations
<1>3. \A q \in Procs : q # p => pc'[q] = pc[q] /\ loc'[q] = loc[q]
  BY <1>1 DEF TypeInv, TypeOK
<1>4. pc'[p] = "idle" /\ loc'[p] = Nothing
  BY <1>1 DEF TypeInv, TypeOK
<1>5. Tracker \in Procs
  BY DEF Procs
<1>6. Busy'
  BY <1>3, <1>4 DEF TypeInv, Busy, Nothing
<1>7. QED
  BY <1>2, <1>3, <1>4, <1>5, <1>6 DEF TypeInv, TypeOK

\* So does one that goes elsewhere remembering something else, if that fits.
LEMMA MovesType ==
    ASSUME TypeInv, NEW p \in Procs, NEW where \in Locations, NEW what \in Locals,
           pc' = [pc EXCEPT ![p] = where], loc' = [loc EXCEPT ![p] = what],
           Used \subseteq Used', what.todo \subseteq Used',
           p = Tracker => where \in {"idle", "checking"},
           where \in {"reviewing", "marking"} => what.todo # {},
           where \in {"asking", "planning", "creating"} => what.turn \in Turns,
           where = "reviewing" => what.write \in {"approved", "rejected"}
    PROVE  /\ pc' \in [Procs -> Locations] /\ loc' \in [Procs -> Locals]
           /\ pc'[Tracker] \in {"idle", "checking"}
           /\ \A q \in Procs : pc'[q] \in {"reviewing", "marking"} => loc'[q].todo # {}
           /\ Busy'
<1>2. pc' \in [Procs -> Locations] /\ loc' \in [Procs -> Locals]
  BY DEF TypeInv, TypeOK
<1>3. \A q \in Procs : q # p => pc'[q] = pc[q] /\ loc'[q] = loc[q]
  BY DEF TypeInv, TypeOK
<1>4. pc'[p] = where /\ loc'[p] = what
  BY DEF TypeInv, TypeOK
<1>5. Tracker \in Procs
  BY DEF Procs
<1>6. Busy'
  BY <1>3, <1>4 DEF TypeInv, Busy
<1>7. QED
  BY <1>2, <1>3, <1>4, <1>5, <1>6 DEF TypeInv, TypeOK

\* The row of the engagement after the writes the actions make.
LEMMA EngType ==
    ASSUME TypeOK
    PROVE  /\ \A ph \in {"diagnosis", "plan", "tracking", "closed"} :
                 [eng EXCEPT !.phase = ph] \in Engagements
           /\ \A q \in 0 .. MaxQuestions :
                 [eng EXCEPT !.phase = "diagnosis", !.questions = q] \in Engagements
           /\ \A q \in 0 .. MaxQuestions, S \in SUBSET Turns :
                 [eng EXCEPT !.questions = q, !.answers = S] \in Engagements
           /\ \A t \in 0 .. MaxTurns, n \in 0 .. MaxRows :
                 [eng EXCEPT !.plan = t, !.items = n] \in Engagements
           /\ \A n \in Nat : [eng EXCEPT !.next = n] \in Engagements
BY DEF TypeOK, Engagements

LEMMA WrittenType ==
    ASSUME TypeOK, NEW ok \in BOOLEAN, Written(ok)
    PROVE  faults' \in 0 .. MaxFaults /\ (faults' = 0 => ok /\ faults = 0)
BY NatAssumption DEF TypeOK, Written, Fault

LEMMA TurnType ==
    ASSUME TypeOK, Turn
    PROVE  turns' \in 0 .. MaxTurns /\ turns' \in Turns
BY NatAssumption DEF TypeOK, Turn, Turns

LEMMA StartKeepsType ==
    ASSUME TypeInv, NEW ok \in BOOLEAN, Start(ok) PROVE TypeInv'
<1>1. 1 \in 0 .. MaxQuestions /\ 0 \in 0 .. MaxQuestions
  BY NatAssumption
<1>2. eng' \in Engagements
  BY <1>1, EngType DEF Start, TypeInv
<1>3. faults' \in 0 .. MaxFaults
  BY WrittenType DEF Start, TypeInv
<1>4. TypeOK'
  BY <1>2, <1>3 DEF Start, TypeInv, TypeOK, history
<1>5. Busy'
  BY DEF Start, TypeInv, Busy, Used
<1>6. QED
  BY <1>4, <1>5 DEF TypeInv

LEMMA AnswerKeepsType ==
    ASSUME TypeInv, NEW p \in Procs, Answer(p) PROVE TypeInv'
<1> USE DEF TypeInv
<1>1. CASE AnswerStart(p)
  <2>1. turns' \in 0 .. MaxTurns /\ turns' \in Turns
    BY <1>1, TurnType DEF AnswerStart
  <2> DEFINE what == [Nothing EXCEPT !.turn = turns', !.questions = eng.questions,
                                     !.answers = eng.answers]
  <2>2. eng.questions \in 0 .. MaxQuestions /\ eng.answers \in SUBSET Turns
    BY DEF TypeOK, Engagements
  <2>3. what \in Locals /\ what.todo = {} /\ what.turn = turns'
    BY <2>1, <2>2, NothingType DEF Locals, Nothing
  <2>4. pc' = [pc EXCEPT ![p] = "asking"] /\ loc' = [loc EXCEPT ![p] = what]
    BY <1>1 DEF AnswerStart, Goes
  <2>5. "asking" \in Locations /\ p # Tracker /\ Used' = Used
    BY <1>1, TrackerAssumption DEF AnswerStart, Locations, Used
  <2> HIDE DEF what
  <2>6. /\ pc' \in [Procs -> Locations] /\ loc' \in [Procs -> Locals]
        /\ pc'[Tracker] \in {"idle", "checking"}
        /\ \A q \in Procs : pc'[q] \in {"reviewing", "marking"} => loc'[q].todo # {}
        /\ Busy'
    BY <2>1, <2>3, <2>4, <2>5, MovesType
  <2>7. QED
    BY <1>1, <2>1, <2>6 DEF AnswerStart, TypeOK
<1>2. CASE PlanFails(p)
  BY <1>2, ReturnsType DEF PlanFails, TypeOK, Used, history
<1>3. ASSUME NEW ok \in BOOLEAN, NEW more \in {0, 1}, pc[p] = "asking",
             loc[p].questions + more \in 0 .. MaxQuestions, Diagnosed(p, more, ok)
      PROVE  eng' \in Engagements /\ faults' \in 0 .. MaxFaults
  <2>1. loc[p].turn \in Turns
    BY <1>3 DEF Busy
  <2>2. loc[p].answers \cup {loc[p].turn} \in SUBSET Turns
    BY <2>1, LocalFields
  <2>3. eng' \in Engagements
    BY <1>3, <2>2, EngType DEF Diagnosed, TypeOK
  <2>4. QED
    BY <1>3, <2>3, WrittenType DEF Diagnosed
<1>4. ASSUME NEW ok \in BOOLEAN, AskNext(p, ok) PROVE TypeInv'
  <2>1. loc[p].questions + 1 \in 0 .. MaxQuestions
    BY <1>4, LocalFields, NatAssumption DEF AskNext
  <2>2. eng' \in Engagements /\ faults' \in 0 .. MaxFaults
    BY <1>3, <1>4, <2>1 DEF AskNext
  <2>3. loc[p].turn \in Turns
    BY <1>4 DEF AskNext, Busy
  <2>4. QED
    BY <1>4, <2>2, <2>3, ReturnsType DEF AskNext, TypeOK, Used
<1>5. ASSUME NEW ok \in BOOLEAN, EnoughAsked(p, ok) PROVE TypeInv'
  <2>1. loc[p].questions + 0 \in 0 .. MaxQuestions
    BY LocalFields, NatAssumption
  <2>2. eng' \in Engagements /\ faults' \in 0 .. MaxFaults
    BY <1>3, <1>5, <2>1 DEF EnoughAsked
  <2>3. loc[p].turn \in Turns /\ loc[p].turn \in 0 .. MaxTurns
    BY <1>5, LocalFields DEF EnoughAsked, Busy
  <2> DEFINE what == [Nothing EXCEPT !.turn = loc[p].turn]
  <2>4. what \in Locals /\ what.todo = {} /\ what.turn = loc[p].turn
    BY <2>3, NothingType DEF Locals, Nothing
  <2>5. pc' = [pc EXCEPT ![p] = "planning"] /\ loc' = [loc EXCEPT ![p] = what]
    BY <1>5 DEF EnoughAsked, Goes
  <2>6. "planning" \in Locations /\ p # Tracker /\ Used' = Used
    BY <1>5 DEF EnoughAsked, Locations, Used, TypeOK
  <2> HIDE DEF what
  <2>7. /\ pc' \in [Procs -> Locations] /\ loc' \in [Procs -> Locals]
        /\ pc'[Tracker] \in {"idle", "checking"}
        /\ \A q \in Procs : pc'[q] \in {"reviewing", "marking"} => loc'[q].todo # {}
        /\ Busy'
    BY <2>3, <2>4, <2>5, <2>6, MovesType
  <2>8. QED
    BY <1>5, <2>2, <2>7 DEF EnoughAsked, TypeOK, history
<1>6. ASSUME NEW ok \in BOOLEAN, NEW n \in 0 .. MaxRows, MakePlan(p, n, ok) PROVE TypeInv'
  <2>1. eng' \in Engagements /\ faults' \in 0 .. MaxFaults
    BY <1>6, LocalFields, EngType, WrittenType DEF MakePlan, TypeOK
  <2> DEFINE what == [loc[p] EXCEPT !.left = n]
  <2>2. what \in Locals /\ what.todo = loc[p].todo /\ what.turn = loc[p].turn
    BY LocalFields DEF Locals
  <2>3. pc' = [pc EXCEPT ![p] = "creating"] /\ loc' = [loc EXCEPT ![p] = what]
    BY <1>6 DEF MakePlan, Goes
  <2>4. "creating" \in Locations /\ p # Tracker /\ Used' = Used
    BY <1>6 DEF MakePlan, Locations, Used, TypeOK
  <2>5. loc[p].turn \in Turns /\ loc[p].todo \subseteq Used
    BY <1>6 DEF MakePlan, Busy
  <2> HIDE DEF what
  <2>6. /\ pc' \in [Procs -> Locations] /\ loc' \in [Procs -> Locals]
        /\ pc'[Tracker] \in {"idle", "checking"}
        /\ \A q \in Procs : pc'[q] \in {"reviewing", "marking"} => loc'[q].todo # {}
        /\ Busy'
    BY <2>2, <2>3, <2>4, <2>5, MovesType
  <2>7. QED
    BY <1>6, <2>1, <2>6 DEF MakePlan, TypeOK, history
<1>7. ASSUME NEW ok \in BOOLEAN, CreateRow(p, ok) PROVE TypeInv'
  <2> DEFINE a == Min(Rows \ Used)
             new == [status |-> "pending", plan |-> loc[p].turn]
             what == [loc[p] EXCEPT !.left = loc[p].left - 1]
  <2>1. loc[p].turn \in Turns /\ loc[p].todo \subseteq Used
    BY <1>7 DEF CreateRow, Busy
  <2>2. new \in RowRecords /\ new.status # "none"
    BY <2>1 DEF RowRecords, Statuses
  <2>3. rows' = rows \/ rows' = [rows EXCEPT ![a] = new]
    BY <1>7 DEF CreateRow
  <2>4. what \in Locals /\ what.todo = loc[p].todo /\ what.turn = loc[p].turn
    BY <1>7, LocalFields, NatAssumption DEF Locals, CreateRow
  <2>5. loc' = [loc EXCEPT ![p] = what] /\ pc' = pc
    BY <1>7 DEF CreateRow
  <2>6. p # Tracker
    BY <1>7 DEF CreateRow, TypeOK
  <2> HIDE DEF a, new, what
  <2>7. rows' \in [Rows -> RowRecords] /\ Used \subseteq Used'
    BY <2>2, <2>3 DEF TypeOK, Used
  <2>8. pc' = [pc EXCEPT ![p] = "creating"] /\ "creating" \in Locations
    BY <1>7, <2>5 DEF CreateRow, TypeOK, Locations
  <2>9. what.todo \subseteq Used'
    BY <2>1, <2>4, <2>7
  <2>10. /\ pc' \in [Procs -> Locations] /\ loc' \in [Procs -> Locals]
         /\ pc'[Tracker] \in {"idle", "checking"}
         /\ \A q \in Procs : pc'[q] \in {"reviewing", "marking"} => loc'[q].todo # {}
         /\ Busy'
    BY <2>1, <2>4, <2>5, <2>6, <2>7, <2>8, <2>9, MovesType
  <2>11. faults' \in 0 .. MaxFaults
    BY <1>7, WrittenType DEF CreateRow
  <2>12. QED
    BY <1>7, <2>7, <2>10, <2>11 DEF CreateRow, TypeOK, history
<1>8. ASSUME NEW ok \in BOOLEAN, PlanReady(p, ok) PROVE TypeInv'
  <2>1. eng' \in Engagements /\ faults' \in 0 .. MaxFaults
    BY <1>8, EngType, WrittenType DEF PlanReady, TypeOK
  <2>2. loc[p].turn \in Turns
    BY <1>8 DEF PlanReady, Busy
  <2>3. QED
    BY <1>8, <2>1, <2>2, ReturnsType DEF PlanReady, TypeOK, Used
<1>9. QED
  BY <1>1, <1>2, <1>4, <1>5, <1>6, <1>7, <1>8 DEF Answer

LEMMA GrantedType ==
    ASSUME TypeOK, NEW a \in Rows, NEW s \in Statuses, Granted(a, s)
    PROVE  grants' \in [Rows -> Nat]
BY DEF TypeOK, Granted

LEMMA ReviewActionKeepsType ==
    ASSUME TypeInv, NEW a \in Rows, NEW s \in {"approved", "rejected"}, ReviewAction(a, s)
    PROVE  TypeInv'
<1> USE DEF TypeInv
<1>1. s \in Statuses /\ a \in Used
  BY DEF Statuses, ReviewAction
<1>2. rows' \in [Rows -> RowRecords] /\ Used' = Used /\ grants' \in [Rows -> Nat]
  BY <1>1, MarkType, GrantedType DEF ReviewAction
<1>3. TypeOK'
  BY <1>2, TurnType DEF ReviewAction, TypeOK
<1>4. Busy'
  BY <1>2 DEF ReviewAction, Busy
<1>5. QED
  BY <1>3, <1>4

LEMMA ReviewKeepsType ==
    ASSUME TypeInv, NEW p \in Procs, Review(p) PROVE TypeInv'
<1> USE DEF TypeInv
<1>1. ASSUME NEW s \in {"approved", "rejected"}, ReviewStart(p, s) PROVE TypeInv'
  <2> DEFINE what == [Nothing EXCEPT !.todo = WithStatus("pending"), !.write = s]
  <2>1. what \in Locals /\ what.todo = WithStatus("pending") /\ what.write = s
    BY NothingType DEF Locals, Nothing, WithStatus, Statuses
  <2>2. WithStatus("pending") \subseteq Used /\ WithStatus("pending") # {}
    BY <1>1 DEF WithStatus, Used, ReviewStart
  <2>3. pc' = [pc EXCEPT ![p] = "reviewing"] /\ loc' = [loc EXCEPT ![p] = what]
    BY <1>1 DEF ReviewStart, Goes
  <2>4. "reviewing" \in Locations /\ p # Tracker /\ Used' = Used
    BY <1>1, TrackerAssumption DEF ReviewStart, Locations, Used
  <2> HIDE DEF what
  <2>5. /\ pc' \in [Procs -> Locations] /\ loc' \in [Procs -> Locals]
        /\ pc'[Tracker] \in {"idle", "checking"}
        /\ \A q \in Procs : pc'[q] \in {"reviewing", "marking"} => loc'[q].todo # {}
        /\ Busy'
    BY <2>1, <2>2, <2>3, <2>4, MovesType
  <2>6. QED
    BY <1>1, <2>5, TurnType DEF ReviewStart, TypeOK, history
<1>2. ASSUME NEW ok \in BOOLEAN, ReviewNext(p, ok) PROVE TypeInv'
  <2> DEFINE a == Min(loc[p].todo)
             rest == loc[p].todo \ {a}
             what == [loc[p] EXCEPT !.todo = rest]
  <2>1. /\ loc[p].todo # {} /\ loc[p].todo \in SUBSET Rows /\ loc[p].todo \subseteq Used
        /\ loc[p].write \in {"approved", "rejected"} /\ p # Tracker
    BY <1>2, LocalFields DEF ReviewNext, Busy, TypeOK
  <2>2. a \in loc[p].todo /\ a \in Used /\ a \in Rows
    BY <2>1, FirstOfRows
  <2>3. loc[p].write \in Statuses
    BY LocalFields
  <2>4. \/ Mark(a, loc[p].write) /\ Granted(a, loc[p].write)
        \/ UNCHANGED <<rows, grants>>
    BY <1>2 DEF ReviewNext
  <2>5. \/ Returns(p)
        \/ loc' = [loc EXCEPT ![p] = what] /\ pc' = pc /\ rest # {}
    BY <1>2 DEF ReviewNext
  <2>6. what \in Locals /\ what.todo = rest /\ what.write = loc[p].write
    BY <2>1, LocalFields DEF Locals
  <2>7. pc[p] = "reviewing" /\ "reviewing" \in Locations
    BY <1>2 DEF ReviewNext, Locations
  <2> HIDE DEF a, what
  <2>8. rows' \in [Rows -> RowRecords] /\ Used' = Used /\ grants' \in [Rows -> Nat]
    <3>1. CASE Mark(a, loc[p].write) /\ Granted(a, loc[p].write)
      BY <2>2, <2>3, <3>1, MarkType, GrantedType
    <3>2. CASE UNCHANGED <<rows, grants>>
      BY <3>2 DEF TypeOK, Used
    <3>3. QED
      BY <2>4, <3>1, <3>2
  <2>9. /\ pc' \in [Procs -> Locations] /\ loc' \in [Procs -> Locals]
        /\ pc'[Tracker] \in {"idle", "checking"}
        /\ \A q \in Procs : pc'[q] \in {"reviewing", "marking"} => loc'[q].todo # {}
        /\ Busy'
    <3>1. CASE Returns(p)
      BY <2>8, <3>1, ReturnsType
    <3>2. CASE loc' = [loc EXCEPT ![p] = what] /\ pc' = pc /\ rest # {}
      <4>1. pc' = [pc EXCEPT ![p] = "reviewing"]
        BY <2>7, <3>2 DEF TypeOK
      <4>2. rest \subseteq Used'
        BY <2>1, <2>8
      <4>3. QED
        BY <2>1, <2>6, <2>7, <2>8, <3>2, <4>1, <4>2, MovesType
    <3>3. QED
      BY <2>5, <3>1, <3>2
  <2>10. faults' \in 0 .. MaxFaults
    BY <1>2, WrittenType DEF ReviewNext
  <2>11. QED
    BY <1>2, <2>8, <2>9, <2>10 DEF ReviewNext, TypeOK
<1>3. QED
  BY <1>1, <1>2 DEF Review

LEMMA ScheduledKeepsType ==
    ASSUME TypeInv, NEW p \in Procs, NEW ok \in BOOLEAN, Scheduled(p, ok)
    PROVE  TypeInv'
<1> USE DEF TypeInv
<1>1. NextCheck \in Nat
  BY DEF NextCheck, TypeOK, DayLength
<1>2. eng' \in Engagements /\ faults' \in 0 .. MaxFaults /\ checked' \in 0 .. MaxDay
  <2>1. eng' \in Engagements
    BY <1>1, EngType DEF Scheduled, TypeOK
  <2>2. QED
    BY <2>1, WrittenType DEF Scheduled, TypeOK
<1>3. QED
  BY <1>2, ReturnsType DEF Scheduled, TypeOK, Used

LEMMA ExecuteKeepsType ==
    ASSUME TypeInv, NEW p \in Procs, Execute(p) PROVE TypeInv'
<1> USE DEF TypeInv
<1>1. CASE ExecuteStart(p)
  <2> DEFINE what == [Nothing EXCEPT !.todo = Listed]
  <2>1. what \in Locals /\ what.todo = Listed
    BY NothingType DEF Locals, Nothing, Listed, WithStatus
  <2>2. Listed \subseteq Used
    BY DEF WithStatus, Used, Listed
  <2>3. pc' = [pc EXCEPT ![p] = "executing"] /\ loc' = [loc EXCEPT ![p] = what]
    BY <1>1 DEF ExecuteStart, Goes
  <2>4. "executing" \in Locations /\ p # Tracker /\ Used' = Used
    BY <1>1, TrackerAssumption DEF ExecuteStart, Locations, Used
  <2> HIDE DEF what
  <2>5. /\ pc' \in [Procs -> Locations] /\ loc' \in [Procs -> Locals]
        /\ pc'[Tracker] \in {"idle", "checking"}
        /\ \A q \in Procs : pc'[q] \in {"reviewing", "marking"} => loc'[q].todo # {}
        /\ Busy'
    BY <2>1, <2>2, <2>3, <2>4, MovesType
  <2>6. QED
    BY <1>1, <2>5, TurnType DEF ExecuteStart, TypeOK
<1>2. ASSUME NEW done \in BOOLEAN, Dispatch(p, done) PROVE TypeInv'
  <2> DEFINE what == [loc[p] EXCEPT !.write = Outcome(done)]
  <2>1. what \in Locals /\ what.todo = loc[p].todo
    BY LocalFields DEF Locals, Outcome, Statuses
  <2>2. loc[p].todo # {} /\ loc[p].todo \subseteq Used /\ p # Tracker
    BY <1>2 DEF Dispatch, Busy, TypeOK
  <2>3. pc' = [pc EXCEPT ![p] = "marking"] /\ loc' = [loc EXCEPT ![p] = what]
    BY <1>2 DEF Dispatch, Goes
  <2>4. "marking" \in Locations /\ Used' = Used
    BY <1>2 DEF Dispatch, Locations, Used
  <2>5. effects' \in [Rows -> Nat]
    <3> DEFINE a == Min(loc[p].todo)
    <3>1. effects' = effects \/ effects' = [effects EXCEPT ![a] = @ + 1]
      BY <1>2 DEF Dispatch
    <3>2. a \in Rows
      BY <2>2, LocalFields, FirstOfRows
    <3> HIDE DEF a
    <3>3. effects \in [Rows -> Nat]
      BY DEF TypeOK
    <3>4. QED
      BY <3>1, <3>2, <3>3
  <2> HIDE DEF what
  <2>6. /\ pc' \in [Procs -> Locations] /\ loc' \in [Procs -> Locals]
        /\ pc'[Tracker] \in {"idle", "checking"}
        /\ \A q \in Procs : pc'[q] \in {"reviewing", "marking"} => loc'[q].todo # {}
        /\ Busy'
    BY <2>1, <2>2, <2>3, <2>4, MovesType
  <2>7. QED
    BY <1>2, <2>5, <2>6 DEF Dispatch, TypeOK
<1>3. ASSUME NEW ok \in BOOLEAN, MarkDone(p, ok) PROVE TypeInv'
  <2> DEFINE a == Min(loc[p].todo)
             what == [loc[p] EXCEPT !.todo = @ \ {a}, !.write = "pending"]
  <2>1. loc[p].todo # {} /\ loc[p].todo \in SUBSET Rows /\ loc[p].todo \subseteq Used /\ p # Tracker
    BY <1>3, LocalFields DEF MarkDone, Busy, TypeOK
  <2>2. a \in Used
    BY <2>1, FirstOfRows
  <2>3. what \in Locals /\ what.todo \subseteq loc[p].todo
    BY <2>1, LocalFields DEF Locals, Statuses
  <2>4. loc' = [loc EXCEPT ![p] = what] /\ pc' = [pc EXCEPT ![p] = "executing"]
    BY <1>3 DEF MarkDone, Goes
  <2>5. Mark(a, loc[p].write) \/ UNCHANGED rows
    BY <1>3 DEF MarkDone
  <2> HIDE DEF a, what
  <2>6. rows' \in [Rows -> RowRecords] /\ Used' = Used
    BY <2>2, <2>5, MarkType, LocalFields DEF TypeOK, Used
  <2>7. what.todo \subseteq Used' /\ "executing" \in Locations
    BY <2>1, <2>3, <2>6 DEF Locations
  <2>8. /\ pc' \in [Procs -> Locations] /\ loc' \in [Procs -> Locals]
        /\ pc'[Tracker] \in {"idle", "checking"}
        /\ \A q \in Procs : pc'[q] \in {"reviewing", "marking"} => loc'[q].todo # {}
        /\ Busy'
    BY <2>1, <2>3, <2>4, <2>6, <2>7, MovesType
  <2>9. faults' \in 0 .. MaxFaults
    BY <1>3, WrittenType DEF MarkDone
  <2>10. QED
    BY <1>3, <2>6, <2>8, <2>9 DEF MarkDone, TypeOK, history
<1>4. ASSUME NEW ok \in BOOLEAN, TrackFrom(p, ok) PROVE TypeInv'
  <2>1. eng' \in Engagements /\ faults' \in 0 .. MaxFaults
    BY <1>4, EngType, WrittenType DEF TrackFrom, TypeOK
  <2>2. /\ loc' = [loc EXCEPT ![p] = loc[p]] /\ pc' = [pc EXCEPT ![p] = "scheduling"]
        /\ Used' = Used /\ "scheduling" \in Locations /\ p # Tracker
    BY <1>4 DEF TrackFrom, Goes, TypeOK, Used, Locations
  <2>3. loc[p] \in Locals /\ loc[p].todo \subseteq Used
    BY LocalFields DEF Busy
  <2>4. /\ pc' \in [Procs -> Locations] /\ loc' \in [Procs -> Locals]
        /\ pc'[Tracker] \in {"idle", "checking"}
        /\ \A q \in Procs : pc'[q] \in {"reviewing", "marking"} => loc'[q].todo # {}
        /\ Busy'
    BY <2>2, <2>3, MovesType
  <2>5. QED
    BY <1>4, <2>1, <2>4 DEF TrackFrom, TypeOK, history
<1>5. ASSUME NEW ok \in BOOLEAN, ScheduleCheck(p, ok) PROVE TypeInv'
  BY <1>5, ScheduledKeepsType DEF ScheduleCheck
<1>6. QED
  BY <1>1, <1>2, <1>3, <1>4, <1>5 DEF Execute

LEMMA CheckOrCloseKeepsType ==
    ASSUME TypeInv, NEW p \in Procs, CheckOrClose(p) PROVE TypeInv'
<1> USE DEF TypeInv
<1>1. ASSUME NEW where \in {"checking", "closing"}, Goes(p, where), p \in Requests,
             Turn, UNCHANGED <<eng, rows, loc, day, history, faults>>
      PROVE  TypeInv'
  <2>1. loc' = [loc EXCEPT ![p] = loc[p]] /\ pc' = [pc EXCEPT ![p] = where]
    BY <1>1 DEF Goes, TypeOK
  <2>2. Used' = Used /\ where \in Locations /\ p # Tracker
    BY <1>1, TrackerAssumption DEF Used, Locations
  <2>3. loc[p] \in Locals /\ loc[p].todo \subseteq Used
    BY LocalFields DEF Busy
  <2>4. /\ pc' \in [Procs -> Locations] /\ loc' \in [Procs -> Locals]
        /\ pc'[Tracker] \in {"idle", "checking"}
        /\ \A q \in Procs : pc'[q] \in {"reviewing", "marking"} => loc'[q].todo # {}
        /\ Busy'
    BY <2>1, <2>2, <2>3, MovesType
  <2>5. QED
    BY <1>1, <2>4, TurnType DEF TypeOK, history
<1>2. CASE CheckStart(p)
  BY <1>1, <1>2 DEF CheckStart
<1>3. CASE CloseStart(p)
  BY <1>1, <1>3 DEF CloseStart
<1>4. ASSUME NEW ok \in BOOLEAN, CheckEnd(p, ok) PROVE TypeInv'
  BY <1>4, ScheduledKeepsType DEF CheckEnd
<1>5. ASSUME NEW ok \in BOOLEAN, CloseEnd(p, ok) PROVE TypeInv'
  <2>1. eng' \in Engagements /\ faults' \in 0 .. MaxFaults
    BY <1>5, EngType, WrittenType DEF CloseEnd, TypeOK
  <2>2. QED
    BY <1>5, <2>1, ReturnsType DEF CloseEnd, TypeOK, Used, history
<1>6. QED
  BY <1>2, <1>3, <1>4, <1>5 DEF CheckOrClose

LEMMA NextDayKeepsType ==
    ASSUME TypeInv, NEW up \in BOOLEAN, NextDay(up) PROVE TypeInv'
<1> USE DEF TypeInv
<1>1. day' \in 0 .. MaxDay /\ faults' \in 0 .. MaxFaults
  BY WrittenType, NatAssumption DEF NextDay, TypeOK
<1>2. pc' = pc \/ pc' = [pc EXCEPT ![Tracker] = "checking"]
  BY DEF NextDay
<1>3. TypeOK'
  BY <1>1, <1>2, TurnType DEF NextDay, TypeOK, history, Procs, Locations
<1>4. Busy'
  BY <1>2 DEF NextDay, Busy, TypeOK, Used
<1>5. QED
  BY <1>3, <1>4

LEMMA CrashKeepsType ==
    ASSUME TypeInv, Crash PROVE TypeInv'
<1> USE DEF TypeInv
<1>1. faults' \in 0 .. MaxFaults
  BY NatAssumption DEF Crash, Fault, TypeOK
<1>2. TypeOK'
  BY <1>1, TurnType, NothingType DEF Crash, TypeOK, history, Procs, Locations
<1>3. Busy'
  BY DEF Crash, Busy, Nothing
<1>4. QED
  BY <1>2, <1>3

LEMMA TypeNext == TypeInv /\ [Next]_vars => TypeInv'
<1> SUFFICES ASSUME TypeInv, [Next]_vars PROVE TypeInv'
  OBVIOUS
<1>1. CASE UNCHANGED vars
  BY <1>1 DEF vars, TypeInv, TypeOK, Busy, Used
<1>2. QED
  BY <1>1, StartKeepsType, AnswerKeepsType, ExecuteKeepsType, ReviewKeepsType,
     ReviewActionKeepsType, CheckOrCloseKeepsType, NextDayKeepsType, CrashKeepsType
     DEF Next

\* Every reachable state has the types the module declares, for every number of
\* requests, rows, turns, days and faults.
THEOREM TypeCorrect == Spec => []TypeOK
<1>1. TypeInv => TypeOK
  BY DEF TypeInv
<1>2. QED
  BY <1>1, TypeInit, TypeNext, PTL DEF Spec

-----------------------------------------------------------------------------
(* What is marked done was performed                                       *)

Performed(a) == KindOf[a] = "note" \/ (KindOf[a] = "effect" /\ effects[a] > 0)

\* What is done, or about to be marked so, was performed.
ToldTrue ==
    /\ \A a \in Rows : rows[a].status = "done" => Performed(a)
    /\ \A p \in Procs :
        pc[p] = "marking" /\ loc[p].write = "done" => Performed(Min(loc[p].todo))

\* Enough for every step but an execution's: nothing becomes done, nobody starts
\* to mark, and no effect is undone.
LEMMA ToldStays ==
    ASSUME ToldTrue, effects' = effects,
           \A a \in Rows : rows'[a].status = "done" => rows[a].status = "done",
           \A p \in Procs : pc'[p] = "marking" => pc[p] = "marking" /\ loc'[p] = loc[p]
    PROVE  ToldTrue'
BY DEF ToldTrue, Performed

LEMMA ReturnsElsewhere ==
    ASSUME TypeOK, NEW p \in Procs, Returns(p), NEW q \in Procs, pc'[q] # "idle"
    PROVE  pc'[q] = pc[q] /\ loc'[q] = loc[q]
BY DEF Returns, TypeOK

LEMMA MarkStatus ==
    ASSUME TypeOK, NEW a, NEW s, Mark(a, s), NEW b \in Rows
    PROVE  IF b = a THEN rows'[b].status = s ELSE rows'[b] = rows[b]
<1>1. rows' = [rows EXCEPT ![a] = [rows[a] EXCEPT !.status = s]]
  BY DEF Mark
<1>2. CASE b = a
  <2>1. rows'[b] = [rows[b] EXCEPT !.status = s]
    BY <1>1, <1>2 DEF TypeOK
  <2>2. rows[b] \in RowRecords
    BY DEF TypeOK
  <2>3. rows[b] = [status |-> rows[b].status, plan |-> rows[b].plan]
    BY <2>2 DEF RowRecords, NoRow
  <2>4. QED
    BY <1>2, <2>1, <2>3
<1>3. CASE b # a
  BY <1>1, <1>3 DEF TypeOK
<1>4. QED
  BY <1>2, <1>3

LEMMA ToldNext ==
    ASSUME TypeInv, ToldTrue, [Next]_vars PROVE ToldTrue'
<1> USE DEF TypeInv
<1>1. ASSUME NEW p \in Procs, Answer(p) PROVE ToldTrue'
  <2>1. CASE AnswerStart(p)
    BY <2>1, ToldStays DEF AnswerStart, Goes, TypeOK, history
  <2>2. CASE PlanFails(p)
    BY <2>2, ToldStays, ReturnsElsewhere DEF PlanFails, history
  <2>3. ASSUME NEW ok \in BOOLEAN, AskNext(p, ok) PROVE ToldTrue'
    BY <2>3, ToldStays, ReturnsElsewhere DEF AskNext
  <2>4. ASSUME NEW ok \in BOOLEAN, EnoughAsked(p, ok) PROVE ToldTrue'
    BY <2>4, ToldStays DEF EnoughAsked, Goes, TypeOK, history
  <2>5. ASSUME NEW ok \in BOOLEAN, NEW n \in 0 .. MaxRows, MakePlan(p, n, ok)
        PROVE  ToldTrue'
    BY <2>5, ToldStays DEF MakePlan, Goes, TypeOK, history
  <2>6. ASSUME NEW ok \in BOOLEAN, CreateRow(p, ok) PROVE ToldTrue'
    <3> DEFINE a == Min(Rows \ Used)
               new == [status |-> "pending", plan |-> loc[p].turn]
    <3>1. rows' = rows \/ rows' = [rows EXCEPT ![a] = new]
      BY <2>6 DEF CreateRow
    <3>2. new.status # "done"
      OBVIOUS
    <3> HIDE DEF a, new
    <3>3. \A b \in Rows : rows'[b].status = "done" => rows[b].status = "done"
      BY <3>1, <3>2 DEF TypeOK
    <3>4. \A q \in Procs : pc'[q] = "marking" => pc[q] = "marking" /\ loc'[q] = loc[q]
      BY <2>6 DEF CreateRow, TypeOK
    <3>5. effects' = effects
      BY <2>6 DEF CreateRow, history
    <3>6. QED
      BY <3>3, <3>4, <3>5, ToldStays
  <2>7. ASSUME NEW ok \in BOOLEAN, PlanReady(p, ok) PROVE ToldTrue'
    BY <2>7, ToldStays, ReturnsElsewhere DEF PlanReady
  <2>8. QED
    BY <1>1, <2>1, <2>2, <2>3, <2>4, <2>5, <2>6, <2>7 DEF Answer
<1>2. ASSUME NEW p \in Procs, Execute(p) PROVE ToldTrue'
  <2>1. CASE ExecuteStart(p)
    BY <2>1, ToldStays DEF ExecuteStart, Goes, TypeOK
  <2>2. ASSUME NEW done \in BOOLEAN, Dispatch(p, done) PROVE ToldTrue'
    <3>1. PICK a \in Rows : a = Min(loc[p].todo)
      BY <2>2, LocalFields, FirstOfRows DEF Dispatch
    <3>2. /\ KindOf[a] = "manual" => ~done
          /\ effects' = IF done /\ KindOf[a] = "effect" THEN [effects EXCEPT ![a] = @ + 1]
                        ELSE effects
      BY <2>2, <3>1 DEF Dispatch
    <3>3. effects \in [Rows -> Nat]
      BY DEF TypeOK
    <3>4. \A b \in Rows : Performed(b) => Performed(b)'
      BY <3>2, <3>3 DEF Performed
    <3>5. done => Performed(a)'
      <4>1. KindOf[a] \in Kinds
        BY KindAssumption
      <4>2. QED
        BY <3>2, <3>3, <4>1 DEF Performed, Kinds
    <3>6. \A q \in Procs : q # p => pc'[q] = pc[q] /\ loc'[q] = loc[q]
      BY <2>2 DEF Dispatch, Goes, TypeOK
    <3>7. loc'[p].todo = loc[p].todo /\ loc'[p].write = Outcome(done)
      <4>1. loc'[p] = [loc[p] EXCEPT !.write = Outcome(done)]
        BY <2>2 DEF Dispatch, TypeOK
      <4>2. QED
        BY <4>1, LocalFields DEF Locals
    <3>8. ASSUME NEW q \in Procs, pc'[q] = "marking", loc'[q].write = "done",
                 NEW m \in Rows, m = Min(loc'[q].todo)
          PROVE  Performed(m)'
      <4>1. CASE q = p
        <5>1. Outcome(done) = "done" => done
          BY DEF Outcome
        <5>2. m = a /\ done
          BY <3>1, <3>7, <3>8, <4>1, <5>1
        <5>3. QED
          BY <3>5, <5>2
      <4>2. CASE q # p
        <5>1. Performed(Min(loc[q].todo)) /\ m = Min(loc[q].todo)
          BY <3>6, <3>8, <4>2 DEF ToldTrue
        <5>2. Performed(m)
          BY <5>1
        <5>3. QED
          BY <3>4, <5>2
      <4>3. QED
        BY <4>1, <4>2
    <3>9. \A q \in Procs : pc'[q] = "marking" => Min(loc'[q].todo) \in Rows
      <4>1. ASSUME NEW q \in Procs, pc'[q] = "marking"
            PROVE  loc'[q].todo # {} /\ loc'[q].todo \in SUBSET Rows
        <5>1. loc'[q].todo = loc[q].todo
          BY <3>6, <3>7
        <5>2. loc[q].todo # {}
          BY <2>2, <3>6, <4>1 DEF Dispatch, TypeOK
        <5>3. QED
          BY <5>1, <5>2, LocalFields
      <4>2. QED
        BY <4>1, FirstOfRows
    <3>10. \A b \in Rows : rows'[b].status = "done" => Performed(b)'
      BY <2>2, <3>4 DEF Dispatch, ToldTrue
    <3>11. QED
      BY <3>8, <3>9, <3>10 DEF ToldTrue, Performed
  <2>3. ASSUME NEW ok \in BOOLEAN, MarkDone(p, ok) PROVE ToldTrue'
    <3> DEFINE a == Min(loc[p].todo)
    <3>1. pc[p] = "marking" /\ effects' = effects
      BY <2>3 DEF MarkDone, history
    <3>2. Mark(a, loc[p].write) \/ rows' = rows
      BY <2>3 DEF MarkDone
    <3>3. loc[p].write = "done" => Performed(a)
      BY <3>1 DEF ToldTrue
    <3> HIDE DEF a
    <3>4. \A b \in Rows : rows'[b].status = "done" => Performed(b)
      BY <3>2, <3>3, MarkStatus DEF ToldTrue
    <3>5. \A q \in Procs : pc'[q] = "marking" => pc[q] = "marking" /\ loc'[q] = loc[q]
      BY <2>3 DEF MarkDone, Goes, TypeOK
    <3>6. QED
      BY <3>1, <3>4, <3>5 DEF ToldTrue, Performed
  <2>4. ASSUME NEW ok \in BOOLEAN, TrackFrom(p, ok) PROVE ToldTrue'
    BY <2>4, ToldStays DEF TrackFrom, Goes, TypeOK, history
  <2>5. ASSUME NEW ok \in BOOLEAN, ScheduleCheck(p, ok) PROVE ToldTrue'
    BY <2>5, ToldStays, ReturnsElsewhere DEF ScheduleCheck, Scheduled
  <2>6. QED
    BY <1>2, <2>1, <2>2, <2>3, <2>4, <2>5 DEF Execute
<1>3. ASSUME NEW p \in Procs, Review(p) PROVE ToldTrue'
  <2>1. ASSUME NEW s \in {"approved", "rejected"}, ReviewStart(p, s) PROVE ToldTrue'
    BY <2>1, ToldStays DEF ReviewStart, Goes, TypeOK, history
  <2>2. ASSUME NEW ok \in BOOLEAN, ReviewNext(p, ok) PROVE ToldTrue'
    <3>1. loc[p].write # "done" /\ effects' = effects /\ pc[p] = "reviewing"
      BY <2>2 DEF ReviewNext, Busy
    <3>2. Mark(Min(loc[p].todo), loc[p].write) \/ rows' = rows
      BY <2>2 DEF ReviewNext
    <3>3. \A b \in Rows : rows'[b].status = "done" => rows[b].status = "done"
      BY <3>1, <3>2, MarkStatus
    <3>4. Returns(p) \/ (pc' = pc /\ \A q \in Procs : q # p => loc'[q] = loc[q])
      BY <2>2 DEF ReviewNext, TypeOK
    <3>5. \A q \in Procs : pc'[q] = "marking" => pc[q] = "marking" /\ loc'[q] = loc[q]
      BY <3>1, <3>4, ReturnsElsewhere
    <3>6. QED
      BY <3>1, <3>3, <3>5, ToldStays
  <2>3. QED
    BY <1>3, <2>1, <2>2 DEF Review
<1>4. ASSUME NEW a \in Rows, NEW s \in {"approved", "rejected"}, ReviewAction(a, s)
      PROVE  ToldTrue'
  <2>1. \A b \in Rows : rows'[b].status = "done" => rows[b].status = "done"
    BY <1>4, MarkStatus DEF ReviewAction
  <2>2. QED
    BY <1>4, <2>1, ToldStays DEF ReviewAction
<1>5. ASSUME NEW p \in Procs, CheckOrClose(p) PROVE ToldTrue'
  <2>1. CASE CheckStart(p) \/ CloseStart(p)
    BY <2>1, ToldStays DEF CheckStart, CloseStart, Goes, TypeOK, history
  <2>2. ASSUME NEW ok \in BOOLEAN, CheckEnd(p, ok) \/ CloseEnd(p, ok) PROVE ToldTrue'
    BY <2>2, ToldStays, ReturnsElsewhere DEF CheckEnd, CloseEnd, Scheduled, history
  <2>3. QED
    BY <1>5, <2>1, <2>2 DEF CheckOrClose
<1>6. ASSUME NEW ok \in BOOLEAN, Start(ok) PROVE ToldTrue'
  BY <1>6, ToldStays DEF Start, history
<1>7. ASSUME NEW up \in BOOLEAN, NextDay(up) PROVE ToldTrue'
  BY <1>7, ToldStays DEF NextDay, TypeOK, history
<1>8. CASE Crash
  BY <1>8, ToldStays DEF Crash, history
<1>9. CASE UNCHANGED vars
  BY <1>9, ToldStays DEF vars
<1>10. QED
  BY <1>1, <1>2, <1>3, <1>4, <1>5, <1>6, <1>7, <1>8, <1>9 DEF Next

\* However requests interleave, statements fail and the process dies: an action
\* marked done had its effect, or is of a type that has none.
THEOREM DoneTellsTrue == Spec => []DoneWasPerformed
<1>1. Init => ToldTrue
  BY DEF Init, ToldTrue, NoRow
<1>2. TypeInv /\ ToldTrue => DoneWasPerformed
  BY DEF ToldTrue, Performed, DoneWasPerformed, WithStatus
<1>3. TypeInv /\ ToldTrue /\ [Next]_vars => (TypeInv /\ ToldTrue)'
  BY TypeNext, ToldNext
<1>4. QED
  BY <1>1, <1>2, <1>3, TypeInit, PTL DEF Spec

-----------------------------------------------------------------------------
(* Accepted answers                                                        *)

\* As long as no answers overlap and nothing fails, at most one answer is in
\* progress, what it loaded is what is stored, and what it has written is there.
AnswersSafe ==
    faults = 0 /\ "answers" \notin amiss =>
        /\ accepted \subseteq eng.answers
        /\ \A p, q \in Answering : p = q
        /\ \A p \in Procs : pc[p] = "asking" => loc[p].answers = eng.answers
        /\ \A p \in Procs : pc[p] \in {"planning", "creating"} => loc[p].turn \in eng.answers

\* Enough for every step but those that write the answers.
LEMMA AnswersStay ==
    ASSUME AnswersSafe, faults' = 0 => faults = 0, amiss \subseteq amiss',
           eng'.answers = eng.answers, accepted' = accepted,
           \A p \in Procs : pc'[p] = "asking" =>
               pc[p] = "asking" /\ loc'[p].answers = loc[p].answers,
           \A p \in Procs : pc'[p] \in {"planning", "creating"} =>
               pc[p] \in {"planning", "creating"} /\ loc'[p].turn = loc[p].turn
    PROVE  AnswersSafe'
<1>1. Answering' \subseteq Answering
  BY DEF Answering
<1>2. QED
  BY <1>1 DEF AnswersSafe

LEMMA WrittenFaults ==
    ASSUME TypeOK, NEW ok \in BOOLEAN, Written(ok)
    PROVE  faults' = 0 => faults = 0 /\ ok
BY DEF Written, Fault, TypeOK

LEMMA AnswersNext ==
    ASSUME TypeInv, AnswersSafe, [Next]_vars PROVE AnswersSafe'
<1> USE DEF TypeInv
<1>1. ASSUME NEW p \in Procs, Answer(p) PROVE AnswersSafe'
  <2>1. CASE AnswerStart(p)
    <3>1. CASE Answering # {}
      BY <2>1, <3>1 DEF AnswerStart, AnswersSafe
    <3>2. CASE Answering = {}
      <4> DEFINE what == [Nothing EXCEPT !.turn = turns', !.questions = eng.questions,
                                         !.answers = eng.answers]
      <4>1. what.answers = eng.answers
        BY DEF Nothing
      <4>2. pc' = [pc EXCEPT ![p] = "asking"] /\ loc' = [loc EXCEPT ![p] = what]
        BY <2>1 DEF AnswerStart, Goes
      <4> HIDE DEF what
      <4>3. \A q \in Procs : IF q = p THEN pc'[q] = "asking" /\ loc'[q].answers = eng.answers
                             ELSE pc'[q] \notin {"asking", "planning", "creating"}
        BY <3>2, <4>1, <4>2 DEF TypeOK, Answering
      <4>4. \A q \in Answering' : q = p
        BY <4>3 DEF Answering
      <4>5. UNCHANGED <<eng, accepted, faults>> /\ amiss' = amiss
        BY <2>1, <3>2 DEF AnswerStart
      <4>6. QED
        BY <4>3, <4>4, <4>5 DEF AnswersSafe
    <3>3. QED
      BY <3>1, <3>2
  <2>2. CASE PlanFails(p)
    BY <2>2, AnswersStay, ReturnsElsewhere DEF PlanFails, history
  <2>3. ASSUME NEW ok \in BOOLEAN, AskNext(p, ok) PROVE AnswersSafe'
    <3> SUFFICES ASSUME faults' = 0, "answers" \notin amiss' PROVE AnswersSafe'
      BY DEF AnswersSafe
    <3>1. faults = 0 /\ ok /\ "answers" \notin amiss
      BY <2>3, WrittenFaults DEF AskNext, Diagnosed
    <3>2. p \in Answering /\ loc[p].answers = eng.answers
      BY <2>3, <3>1 DEF AskNext, AnswersSafe, Answering
    <3>3. eng'.answers = eng.answers \cup {loc[p].turn}
      BY <2>3, <3>1, <3>2 DEF AskNext, Diagnosed, TypeOK, Engagements
    <3>4. \A q \in Procs : pc'[q] \notin {"asking", "planning", "creating"}
      <4>1. pc'[p] = "idle" /\ \A q \in Procs : pc'[q] # "idle" => pc'[q] = pc[q]
        BY <2>3, ReturnsElsewhere DEF AskNext, Returns, TypeOK
      <4>2. \A q \in Answering : q = p
        BY <3>1, <3>2 DEF AnswersSafe
      <4>3. QED
        BY <4>1, <4>2 DEF Answering
    <3>5. accepted' = accepted \cup {loc[p].turn}
      BY <2>3 DEF AskNext
    <3>6. QED
      BY <3>1, <3>3, <3>4, <3>5 DEF AnswersSafe, Answering
  <2>4. ASSUME NEW ok \in BOOLEAN, EnoughAsked(p, ok) PROVE AnswersSafe'
    <3> SUFFICES ASSUME faults' = 0, "answers" \notin amiss' PROVE AnswersSafe'
      BY DEF AnswersSafe
    <3>1. faults = 0 /\ ok /\ "answers" \notin amiss
      BY <2>4, WrittenFaults DEF EnoughAsked, Diagnosed, history
    <3>2. p \in Answering /\ loc[p].answers = eng.answers
      BY <2>4, <3>1 DEF EnoughAsked, AnswersSafe, Answering
    <3>3. eng'.answers = eng.answers \cup {loc[p].turn}
      BY <2>4, <3>1, <3>2 DEF EnoughAsked, Diagnosed, TypeOK, Engagements
    <3> DEFINE what == [Nothing EXCEPT !.turn = loc[p].turn]
    <3>4. what.turn = loc[p].turn
      BY DEF Nothing
    <3>5. pc' = [pc EXCEPT ![p] = "planning"] /\ loc' = [loc EXCEPT ![p] = what]
      BY <2>4 DEF EnoughAsked, Goes
    <3> HIDE DEF what
    <3>6. \A q \in Procs : IF q = p THEN pc'[q] = "planning" /\ loc'[q].turn = loc[p].turn
                           ELSE pc'[q] \notin {"asking", "planning", "creating"}
      BY <3>1, <3>2, <3>4, <3>5 DEF TypeOK, AnswersSafe, Answering
    <3>7. \A q \in Answering' : q = p
      BY <3>6 DEF Answering
    <3>8. accepted' = accepted
      BY <2>4 DEF EnoughAsked, history
    <3>9. QED
      BY <3>1, <3>3, <3>6, <3>7, <3>8 DEF AnswersSafe
  <2>5. ASSUME NEW ok \in BOOLEAN, NEW n \in 0 .. MaxRows, MakePlan(p, n, ok)
        PROVE  AnswersSafe'
    <3>1. eng'.answers = eng.answers
      BY <2>5 DEF MakePlan, TypeOK, Engagements
    <3> DEFINE what == [loc[p] EXCEPT !.left = n]
    <3>2. what.turn = loc[p].turn
      BY LocalFields DEF Locals
    <3>3. loc' = [loc EXCEPT ![p] = what] /\ pc' = [pc EXCEPT ![p] = "creating"] /\ pc[p] = "planning"
      BY <2>5 DEF MakePlan, Goes
    <3> HIDE DEF what
    <3>4. \A q \in Procs : IF q = p THEN pc'[q] = "creating" /\ loc'[q].turn = loc[q].turn
                           ELSE pc'[q] = pc[q] /\ loc'[q] = loc[q]
      BY <3>2, <3>3 DEF TypeOK
    <3>5. UNCHANGED <<accepted, amiss>> /\ (faults' = 0 => faults = 0)
      BY <2>5, WrittenFaults DEF MakePlan, history
    <3>6. QED
      BY <3>1, <3>3, <3>4, <3>5, AnswersStay
  <2>6. ASSUME NEW ok \in BOOLEAN, CreateRow(p, ok) PROVE AnswersSafe'
    <3> DEFINE what == [loc[p] EXCEPT !.left = loc[p].left - 1]
    <3>1. what.turn = loc[p].turn /\ what.answers = loc[p].answers
      BY LocalFields DEF Locals
    <3>2. loc' = [loc EXCEPT ![p] = what] /\ pc' = pc
      BY <2>6 DEF CreateRow
    <3> HIDE DEF what
    <3>3. \A q \in Procs : loc'[q].turn = loc[q].turn /\ loc'[q].answers = loc[q].answers
      BY <3>1, <3>2 DEF TypeOK
    <3>4. UNCHANGED <<eng, accepted, amiss>> /\ (faults' = 0 => faults = 0)
      BY <2>6, WrittenFaults DEF CreateRow, history
    <3>5. QED
      BY <3>2, <3>3, <3>4, AnswersStay
  <2>7. ASSUME NEW ok \in BOOLEAN, PlanReady(p, ok) PROVE AnswersSafe'
    <3>1. eng'.answers = eng.answers
      BY <2>7 DEF PlanReady, TypeOK, Engagements
    <3>2. accepted' = accepted \cup {loc[p].turn} /\ pc[p] = "creating" /\ amiss' = amiss
      BY <2>7 DEF PlanReady
    <3>3. faults' = 0 => faults = 0
      BY <2>7, WrittenFaults DEF PlanReady
    <3>4. \A q \in Procs : pc'[q] # "idle" => pc'[q] = pc[q] /\ loc'[q] = loc[q]
      BY <2>7, ReturnsElsewhere DEF PlanReady
    <3>5. Answering' \subseteq Answering
      BY <3>4 DEF Answering
    <3>6. QED
      BY <3>1, <3>2, <3>3, <3>4, <3>5 DEF AnswersSafe
  <2>8. QED
    BY <1>1, <2>1, <2>2, <2>3, <2>4, <2>5, <2>6, <2>7 DEF Answer
\* The other steps go to and from other places and leave the answers alone.
<1>2. ASSUME NEW p \in Procs, Execute(p) PROVE AnswersSafe'
  <2>1. CASE ExecuteStart(p)
    BY <2>1, AnswersStay DEF ExecuteStart, Goes, TypeOK
  <2>2. ASSUME NEW done \in BOOLEAN, Dispatch(p, done) PROVE AnswersSafe'
    BY <2>2, AnswersStay DEF Dispatch, Goes, TypeOK
  <2>3. ASSUME NEW ok \in BOOLEAN, MarkDone(p, ok) PROVE AnswersSafe'
    <3>1. \A q \in Procs : q # p => pc'[q] = pc[q] /\ loc'[q] = loc[q]
      BY <2>3 DEF MarkDone, Goes, TypeOK
    <3>2. pc'[p] = "executing"
      BY <2>3 DEF MarkDone, Goes, TypeOK
    <3>3. QED
      BY <2>3, <3>1, <3>2, WrittenFaults, AnswersStay DEF MarkDone, history
  <2>4. ASSUME NEW ok \in BOOLEAN, TrackFrom(p, ok) PROVE AnswersSafe'
    <3>1. eng'.answers = eng.answers
      BY <2>4 DEF TrackFrom, TypeOK, Engagements
    <3>2. QED
      BY <2>4, <3>1, WrittenFaults, AnswersStay DEF TrackFrom, Goes, TypeOK, history
  <2>5. ASSUME NEW ok \in BOOLEAN, ScheduleCheck(p, ok) PROVE AnswersSafe'
    <3>1. eng'.answers = eng.answers
      BY <2>5 DEF ScheduleCheck, Scheduled, TypeOK, Engagements
    <3>2. QED
      BY <2>5, <3>1, WrittenFaults, AnswersStay, ReturnsElsewhere
         DEF ScheduleCheck, Scheduled
  <2>6. QED
    BY <1>2, <2>1, <2>2, <2>3, <2>4, <2>5 DEF Execute
<1>3. ASSUME NEW p \in Procs, Review(p) PROVE AnswersSafe'
  <2>1. ASSUME NEW s \in {"approved", "rejected"}, ReviewStart(p, s) PROVE AnswersSafe'
    BY <2>1, AnswersStay DEF ReviewStart, Goes, TypeOK, history
  <2>2. ASSUME NEW ok \in BOOLEAN, ReviewNext(p, ok) PROVE AnswersSafe'
    <3>1. pc[p] = "reviewing"
      BY <2>2 DEF ReviewNext
    <3>2. Returns(p) \/ (pc' = pc /\ \A q \in Procs : q # p => loc'[q] = loc[q])
      BY <2>2 DEF ReviewNext, TypeOK
    <3>3. \A q \in Procs : pc'[q] \in {"asking", "planning", "creating"}
                            => pc'[q] = pc[q] /\ loc'[q] = loc[q]
      BY <3>1, <3>2, ReturnsElsewhere
    <3>4. UNCHANGED <<eng, accepted, amiss>> /\ (faults' = 0 => faults = 0)
      BY <2>2, WrittenFaults DEF ReviewNext
    <3>5. QED
      BY <3>3, <3>4, AnswersStay
  <2>3. QED
    BY <1>3, <2>1, <2>2 DEF Review
<1>4. ASSUME NEW a \in Rows, NEW s \in {"approved", "rejected"}, ReviewAction(a, s)
      PROVE  AnswersSafe'
  BY <1>4, AnswersStay DEF ReviewAction
<1>5. ASSUME NEW p \in Procs, CheckOrClose(p) PROVE AnswersSafe'
  <2>1. CASE CheckStart(p) \/ CloseStart(p)
    BY <2>1, AnswersStay DEF CheckStart, CloseStart, Goes, TypeOK, history
  <2>2. ASSUME NEW ok \in BOOLEAN, CheckEnd(p, ok) PROVE AnswersSafe'
    <3>1. eng'.answers = eng.answers
      BY <2>2 DEF CheckEnd, Scheduled, TypeOK, Engagements
    <3>2. QED
      BY <2>2, <3>1, WrittenFaults, AnswersStay, ReturnsElsewhere DEF CheckEnd, Scheduled
  <2>3. ASSUME NEW ok \in BOOLEAN, CloseEnd(p, ok) PROVE AnswersSafe'
    <3>1. eng'.answers = eng.answers
      BY <2>3 DEF CloseEnd, TypeOK, Engagements
    <3>2. QED
      BY <2>3, <3>1, WrittenFaults, AnswersStay, ReturnsElsewhere DEF CloseEnd, history
  <2>4. QED
    BY <1>5, <2>1, <2>2, <2>3 DEF CheckOrClose
<1>6. ASSUME NEW ok \in BOOLEAN, Start(ok) PROVE AnswersSafe'
  <2>1. eng'.answers = eng.answers
    BY <1>6 DEF Start, TypeOK, Engagements
  <2>2. QED
    BY <1>6, <2>1, WrittenFaults, AnswersStay DEF Start, history
<1>7. ASSUME NEW up \in BOOLEAN, NextDay(up) PROVE AnswersSafe'
  <2>1. \A q \in Procs : pc'[q] \in {"asking", "planning", "creating"} => pc'[q] = pc[q]
    BY <1>7 DEF NextDay, TypeOK
  <2>2. QED
    BY <1>7, <2>1, WrittenFaults, AnswersStay DEF NextDay, history
<1>8. CASE Crash
  <2>1. faults' # 0
    BY <1>8 DEF Crash, Fault, TypeOK
  <2>2. QED
    BY <2>1 DEF AnswersSafe
<1>9. CASE UNCHANGED vars
  BY <1>9, AnswersStay DEF vars
<1>10. QED
  BY <1>1, <1>2, <1>3, <1>4, <1>5, <1>6, <1>7, <1>8, <1>9 DEF Next

\* Unless answers overlap or a statement fails, every answer whose request
\* returned without an error is in the diagnosis, for any number of requests.
THEOREM AnswersAreKept == Spec => []AnswersKept
<1>1. Init => AnswersSafe
  BY DEF Init, AnswersSafe, Answering
<1>2. AnswersSafe => AnswersKept
  BY DEF AnswersSafe, AnswersKept
<1>3. TypeInv /\ AnswersSafe /\ [Next]_vars => (TypeInv /\ AnswersSafe)'
  BY TypeNext, AnswersNext
<1>4. QED
  BY <1>1, <1>2, <1>3, TypeInit, PTL DEF Spec

-----------------------------------------------------------------------------
(* Each approval is good for one execution                                 *)

\* Carried out and not yet marked.
BeingMarked(a) == \E p \in Procs : pc[p] = "marking" /\ a = Min(loc[p].todo)

\* An approval not yet used up.
Unspent(a) == effects[a] < grants[a]

\* As long as no executions overlap and nothing fails, there is at most one;
\* what it has still to carry out, and whatever is approved and not about to be
\* marked, has an approval that is not used up.
GrantsSafe ==
    faults = 0 /\ "executions" \notin amiss =>
        /\ \A p, q \in Executing : p = q
        /\ \A a \in Rows : effects[a] <= grants[a]
        /\ \A a \in Rows : rows[a].status = "approved" /\ ~ BeingMarked(a) => Unspent(a)
        /\ \A p \in Procs : pc[p] = "executing" => \A a \in loc[p].todo : Unspent(a)
        /\ \A p \in Procs : pc[p] = "marking" =>
              /\ loc[p].write \in {"done", "failed"}
              /\ \A a \in loc[p].todo : a = Min(loc[p].todo) \/ Unspent(a)

\* Enough for the steps of answers, reviews, checks, closings and days.
LEMMA GrantsStay ==
    ASSUME TypeOK, GrantsSafe, faults' = 0 => faults = 0, amiss \subseteq amiss',
           effects' = effects, grants' \in [Rows -> Nat],
           \A a \in Rows : grants[a] <= grants'[a],
           \A a \in Rows : rows'[a].status = "approved" =>
               rows[a].status = "approved" \/ grants[a] < grants'[a],
           \A p \in Procs : pc'[p] \in {"executing", "marking", "scheduling"} =>
               p \in Executing,
           \A p \in Procs : pc'[p] \in {"executing", "marking"} \/ pc[p] = "marking" =>
               pc'[p] = pc[p] /\ loc'[p] = loc[p]
    PROVE  GrantsSafe'
<1> SUFFICES ASSUME faults' = 0, "executions" \notin amiss' PROVE GrantsSafe'
  BY DEF GrantsSafe
<1>1. faults = 0 /\ "executions" \notin amiss
  OBVIOUS
<1>2. \A p, q \in Executing' : p = q
  BY <1>1 DEF GrantsSafe, Executing
<1>3. \A a \in Rows : effects[a] \in Nat /\ grants[a] \in Nat /\ grants'[a] \in Nat
  BY DEF TypeOK
<1>4. \A a \in Rows : effects'[a] <= grants'[a]
  BY <1>1, <1>3 DEF GrantsSafe
<1>5. \A a \in Rows : Unspent(a) => Unspent(a)'
  BY <1>3 DEF Unspent
<1>6. \A a \in Rows : BeingMarked(a) => BeingMarked(a)'
  BY DEF BeingMarked
<1>7. \A a \in Rows : rows'[a].status = "approved" /\ ~ BeingMarked(a)' => Unspent(a)'
  <2>1. TAKE a \in Rows
  <2>2. CASE grants[a] < grants'[a]
    <3>1. effects[a] <= grants[a]
      BY <1>1 DEF GrantsSafe
    <3>2. QED
      BY <1>3, <2>2, <3>1 DEF Unspent
  <2>3. CASE rows[a].status = "approved"
    BY <1>1, <1>5, <1>6, <2>3 DEF GrantsSafe
  <2>4. QED
    BY <2>2, <2>3
<1>8. \A p \in Procs : pc'[p] = "executing" => \A a \in loc'[p].todo : Unspent(a)'
  <2>1. ASSUME NEW p \in Procs, pc'[p] = "executing", NEW a \in loc'[p].todo
        PROVE  Unspent(a)'
    <3>1. pc[p] = "executing" /\ loc'[p] = loc[p] /\ a \in Rows
      BY <2>1, LocalFields
    <3>2. QED
      BY <1>1, <1>5, <2>1, <3>1 DEF GrantsSafe
  <2>2. QED
    BY <2>1
<1>9. \A p \in Procs : pc'[p] = "marking" =>
          /\ loc'[p].write \in {"done", "failed"}
          /\ \A a \in loc'[p].todo : a = Min(loc'[p].todo) \/ Unspent(a)'
  <2>1. ASSUME NEW p \in Procs, pc'[p] = "marking"
        PROVE  /\ loc'[p].write \in {"done", "failed"}
               /\ \A a \in loc'[p].todo : a = Min(loc'[p].todo) \/ Unspent(a)'
    <3>1. pc[p] = "marking" /\ loc'[p] = loc[p] /\ loc[p].todo \in SUBSET Rows
      BY <2>1, LocalFields
    <3>2. QED
      BY <1>1, <1>5, <3>1 DEF GrantsSafe
  <2>2. QED
    BY <2>1
<1>10. QED
  BY <1>2, <1>4, <1>7, <1>8, <1>9 DEF GrantsSafe

LEMMA GrantedMore ==
    ASSUME TypeOK, NEW a \in Rows, NEW s, Granted(a, s)
    PROVE  /\ grants' \in [Rows -> Nat]
           /\ \A b \in Rows : grants[b] <= grants'[b]
           /\ s = "approved" => grants[a] < grants'[a]
BY DEF Granted, TypeOK

LEMMA GrantsNext ==
    ASSUME TypeInv, GrantsSafe, [Next]_vars PROVE GrantsSafe'
<1> USE DEF TypeInv
<1>0. ASSUME grants' = grants PROVE grants' \in [Rows -> Nat] /\ \A a \in Rows : grants[a] <= grants'[a]
  BY <1>0 DEF TypeOK
\* A goroutine that is not executing moves elsewhere, and no row changes.
<1>1. ASSUME NEW p \in Procs, NEW where \in Locations \ {"executing", "marking", "scheduling"},
             pc' = [pc EXCEPT ![p] = where], pc[p] # "marking",
             \A q \in Procs : q # p => loc'[q] = loc[q],
             UNCHANGED <<rows, grants, effects>>, amiss \subseteq amiss',
             faults' = 0 => faults = 0
      PROVE  GrantsSafe'
  <2>1. \A q \in Procs : IF q = p THEN pc'[q] = where ELSE pc'[q] = pc[q] /\ loc'[q] = loc[q]
    BY <1>1 DEF TypeOK
  <2>2. \A q \in Procs : pc'[q] \in {"executing", "marking", "scheduling"} => q \in Executing
    BY <1>1, <2>1 DEF Executing
  <2>3. QED
    BY <1>0, <1>1, <2>1, <2>2, GrantsStay
<1>2. ASSUME NEW p \in Procs, Returns(p), pc[p] # "marking",
             UNCHANGED <<rows, grants, effects>>, amiss \subseteq amiss',
             faults' = 0 => faults = 0
      PROVE  GrantsSafe'
  <2>1. pc' = [pc EXCEPT ![p] = "idle"] /\ \A q \in Procs : q # p => loc'[q] = loc[q]
    BY <1>2 DEF Returns, TypeOK
  <2>2. "idle" \in Locations \ {"executing", "marking", "scheduling"}
    BY DEF Locations
  <2>3. QED
    BY <1>1, <1>2, <2>1, <2>2
<1>3. {"asking", "planning", "creating", "reviewing", "checking", "closing"}
          \subseteq Locations \ {"executing", "marking", "scheduling"}
  BY DEF Locations
<1>4. ASSUME NEW p \in Procs, Answer(p) PROVE GrantsSafe'
  <2>1. CASE AnswerStart(p)
    <3>1. \A q \in Procs : q # p => loc'[q] = loc[q]
      BY <2>1 DEF AnswerStart, TypeOK
    <3>2. QED
      BY <1>1, <1>3, <2>1, <3>1 DEF AnswerStart, Goes, Idle
  <2>2. CASE PlanFails(p)
    BY <1>2, <2>2 DEF PlanFails, history
  <2>3. ASSUME NEW ok \in BOOLEAN, AskNext(p, ok) PROVE GrantsSafe'
    BY <1>2, <2>3, WrittenFaults DEF AskNext, Diagnosed
  <2>4. ASSUME NEW ok \in BOOLEAN, EnoughAsked(p, ok) PROVE GrantsSafe'
    <3>1. \A q \in Procs : q # p => loc'[q] = loc[q]
      BY <2>4 DEF EnoughAsked, TypeOK
    <3>2. QED
      BY <1>1, <1>3, <2>4, <3>1, WrittenFaults DEF EnoughAsked, Diagnosed, Goes, history
  <2>5. ASSUME NEW ok \in BOOLEAN, NEW n \in 0 .. MaxRows, MakePlan(p, n, ok)
        PROVE  GrantsSafe'
    <3>1. \A q \in Procs : q # p => loc'[q] = loc[q]
      BY <2>5 DEF MakePlan, TypeOK
    <3>2. QED
      BY <1>1, <1>3, <2>5, <3>1, WrittenFaults DEF MakePlan, Goes, history
  <2>6. ASSUME NEW ok \in BOOLEAN, CreateRow(p, ok) PROVE GrantsSafe'
    <3> DEFINE a == Min(Rows \ Used)
               new == [status |-> "pending", plan |-> loc[p].turn]
    <3>1. rows' = rows \/ rows' = [rows EXCEPT ![a] = new]
      BY <2>6 DEF CreateRow
    <3>2. new.status # "approved"
      OBVIOUS
    <3> HIDE DEF a, new
    <3>3. \A b \in Rows : rows'[b].status = "approved" => rows[b].status = "approved"
      BY <3>1, <3>2 DEF TypeOK
    <3>4. pc' = pc /\ pc[p] = "creating" /\ \A q \in Procs : q # p => loc'[q] = loc[q]
      BY <2>6 DEF CreateRow, TypeOK
    <3>5. \A q \in Procs : pc'[q] \in {"executing", "marking", "scheduling"} => q \in Executing
      BY <3>4 DEF Executing
    <3>6. UNCHANGED <<grants, effects, amiss>> /\ (faults' = 0 => faults = 0)
      BY <2>6, WrittenFaults DEF CreateRow, history
    <3>7. QED
      BY <1>0, <3>3, <3>4, <3>5, <3>6, GrantsStay
  <2>7. ASSUME NEW ok \in BOOLEAN, PlanReady(p, ok) PROVE GrantsSafe'
    BY <1>2, <2>7, WrittenFaults DEF PlanReady
  <2>8. QED
    BY <1>4, <2>1, <2>2, <2>3, <2>4, <2>5, <2>6, <2>7 DEF Answer
<1>5. ASSUME NEW p \in Procs, Execute(p) PROVE GrantsSafe'
  <2>1. CASE ExecuteStart(p)
    <3> SUFFICES ASSUME faults' = 0, "executions" \notin amiss' PROVE GrantsSafe'
      BY DEF GrantsSafe
    <3>1. Executing = {} /\ faults = 0 /\ "executions" \notin amiss
      BY <2>1 DEF ExecuteStart
    <3> DEFINE what == [Nothing EXCEPT !.todo = Listed]
    <3>2. what.todo = Listed
      BY DEF Nothing
    <3>3. pc' = [pc EXCEPT ![p] = "executing"] /\ loc' = [loc EXCEPT ![p] = what]
      BY <2>1 DEF ExecuteStart, Goes
    <3> HIDE DEF what
    <3>4. \A q \in Procs : IF q = p THEN pc'[q] = "executing" /\ loc'[q].todo = Listed
                           ELSE pc'[q] \notin {"executing", "marking", "scheduling"}
      BY <3>1, <3>2, <3>3 DEF TypeOK, Executing
    <3>5. UNCHANGED <<rows, grants, effects>>
      BY <2>1 DEF ExecuteStart
    <3>6. \A a \in Rows : ~ BeingMarked(a)
      BY <3>1 DEF BeingMarked, Executing
    <3>7. \A a \in Rows : rows[a].status = "approved" => Unspent(a)'
      BY <3>1, <3>5, <3>6 DEF GrantsSafe, Unspent
    <3>8. \A q \in Procs : pc'[q] = "executing" => \A a \in loc'[q].todo : Unspent(a)'
      BY <3>4, <3>7 DEF Listed, WithStatus
    <3>9. \A q, r \in Executing' : q = r
      BY <3>4 DEF Executing
    <3>10. \A a \in Rows : effects'[a] <= grants'[a]
      BY <3>1, <3>5 DEF GrantsSafe
    <3>11. QED
      BY <3>4, <3>5, <3>7, <3>8, <3>9, <3>10 DEF GrantsSafe
  <2>2. ASSUME NEW done \in BOOLEAN, Dispatch(p, done) PROVE GrantsSafe'
    <3> SUFFICES ASSUME faults' = 0, "executions" \notin amiss' PROVE GrantsSafe'
      BY DEF GrantsSafe
    <3>1. /\ faults = 0 /\ "executions" \notin amiss /\ pc[p] = "executing"
          /\ loc[p].todo # {} /\ loc[p].todo \in SUBSET Rows /\ p \in Executing
          /\ UNCHANGED <<rows, grants>>
      BY <2>2, LocalFields DEF Dispatch, Executing
    <3>2. PICK a \in Rows : a = Min(loc[p].todo) /\ a \in loc[p].todo
      BY <3>1, FirstOfRows
    <3>3. effects' = effects \/ effects' = [effects EXCEPT ![a] = @ + 1]
      BY <2>2, <3>2 DEF Dispatch
    <3>4. effects \in [Rows -> Nat] /\ grants \in [Rows -> Nat]
      BY DEF TypeOK
    <3>5. Unspent(a)
      BY <3>1, <3>2 DEF GrantsSafe
    <3>6. \A b \in Rows : effects'[b] <= grants'[b]
      BY <3>1, <3>3, <3>4, <3>5 DEF GrantsSafe, Unspent
    <3>7. \A b \in Rows : b # a /\ Unspent(b) => Unspent(b)'
      BY <3>1, <3>3, <3>4 DEF Unspent
    <3>8. \A q \in Procs : q # p => pc'[q] = pc[q] /\ loc'[q] = loc[q]
      BY <2>2 DEF Dispatch, Goes, TypeOK
    <3>9. pc'[p] = "marking" /\ loc'[p].todo = loc[p].todo /\ loc'[p].write = Outcome(done)
      <4>1. loc'[p] = [loc[p] EXCEPT !.write = Outcome(done)]
        BY <2>2 DEF Dispatch, TypeOK
      <4>2. QED
        BY <2>2, <4>1, LocalFields DEF Locals, Dispatch, Goes, TypeOK
    <3>10. \A q \in Procs : q # p => pc'[q] \notin {"executing", "marking", "scheduling"}
      BY <3>1, <3>8 DEF GrantsSafe, Executing
    <3>11. \A q, r \in Executing' : q = r
      BY <3>10 DEF Executing
    <3>12. BeingMarked(a)'
      BY <3>2, <3>9 DEF BeingMarked
    <3>13. \A b \in Rows : ~ BeingMarked(b)
      BY <3>1 DEF BeingMarked, GrantsSafe, Executing
    <3>14. \A b \in Rows : rows'[b].status = "approved" /\ ~ BeingMarked(b)' => Unspent(b)'
      BY <3>1, <3>7, <3>12, <3>13 DEF GrantsSafe
    <3>15. \A b \in loc[p].todo : b = a \/ Unspent(b)'
      BY <3>1, <3>7 DEF GrantsSafe
    <3>16. \A q \in Procs : pc'[q] = "marking" =>
              /\ loc'[q].write \in {"done", "failed"}
              /\ \A b \in loc'[q].todo : b = Min(loc'[q].todo) \/ Unspent(b)'
      BY <3>2, <3>9, <3>10, <3>15 DEF Outcome
    <3>17. \A q \in Procs : pc'[q] # "executing"
      BY <3>9, <3>10
    <3>18. QED
      BY <3>6, <3>11, <3>14, <3>16, <3>17 DEF GrantsSafe
  <2>3. ASSUME NEW ok \in BOOLEAN, MarkDone(p, ok) PROVE GrantsSafe'
    <3> SUFFICES ASSUME faults' = 0, "executions" \notin amiss' PROVE GrantsSafe'
      BY DEF GrantsSafe
    <3>1. /\ faults = 0 /\ ok /\ "executions" \notin amiss /\ pc[p] = "marking"
          /\ p \in Executing /\ UNCHANGED <<grants, effects>>
      BY <2>3, WrittenFaults DEF MarkDone, Executing, history
    <3>2. loc[p].todo # {} /\ loc[p].todo \in SUBSET Rows
      BY <3>1, LocalFields DEF TypeOK
    <3>3. PICK a \in Rows : a = Min(loc[p].todo)
      BY <3>2, FirstOfRows
    <3>4. Mark(a, loc[p].write) /\ loc[p].write \in {"done", "failed"}
      BY <2>3, <3>1, <3>3 DEF MarkDone, GrantsSafe
    <3>5. \A b \in Rows : rows'[b].status = "approved" => b # a /\ rows[b].status = "approved"
      BY <3>4, MarkStatus
    <3>6. \A q \in Procs : q # p => pc'[q] = pc[q] /\ loc'[q] = loc[q]
      BY <2>3 DEF MarkDone, Goes, TypeOK
    <3>7. pc'[p] = "executing" /\ loc'[p].todo = loc[p].todo \ {a}
      <4> DEFINE what == [loc[p] EXCEPT !.todo = @ \ {Min(loc[p].todo)}, !.write = "pending"]
      <4>1. what.todo = loc[p].todo \ {a}
        BY <3>3, LocalFields DEF Locals
      <4>2. loc' = [loc EXCEPT ![p] = what] /\ pc' = [pc EXCEPT ![p] = "executing"]
        BY <2>3 DEF MarkDone, Goes
      <4> HIDE DEF what
      <4>3. QED
        BY <4>1, <4>2 DEF TypeOK
    <3>8. \A q \in Procs : q # p => pc'[q] \notin {"executing", "marking", "scheduling"}
      BY <3>1, <3>6 DEF GrantsSafe, Executing
    <3>9. \A q, r \in Executing' : q = r
      BY <3>8 DEF Executing
    <3>10. \A b \in Rows : BeingMarked(b) => b = a
      BY <3>1, <3>3 DEF BeingMarked, GrantsSafe, Executing
    <3>11. \A b \in Rows : Unspent(b) => Unspent(b)'
      BY <3>1 DEF Unspent
    <3>12. \A b \in Rows : rows'[b].status = "approved" => Unspent(b)'
      BY <3>1, <3>5, <3>10, <3>11 DEF GrantsSafe
    <3>13. \A q \in Procs : pc'[q] = "executing" => \A b \in loc'[q].todo : Unspent(b)'
      <4>1. \A b \in loc[p].todo \ {a} : Unspent(b)
        BY <3>1, <3>3 DEF GrantsSafe
      <4>2. QED
        BY <3>2, <3>7, <3>8, <3>11, <4>1
    <3>14. \A b \in Rows : effects'[b] <= grants'[b]
      BY <3>1 DEF GrantsSafe
    <3>15. \A q \in Procs : pc'[q] # "marking"
      BY <3>7, <3>8
    <3>16. QED
      BY <3>9, <3>12, <3>13, <3>14, <3>15 DEF GrantsSafe
  <2>4. ASSUME NEW ok \in BOOLEAN, TrackFrom(p, ok) PROVE GrantsSafe'
    <3>1. /\ pc[p] = "executing" /\ loc' = loc
          /\ \A q \in Procs : IF q = p THEN pc'[q] = "scheduling" ELSE pc'[q] = pc[q]
      BY <2>4 DEF TrackFrom, Goes, TypeOK
    <3>2. \A q \in Procs : pc'[q] \in {"executing", "marking", "scheduling"} => q \in Executing
      BY <3>1 DEF Executing
    <3>3. UNCHANGED <<rows, grants, effects, amiss>> /\ (faults' = 0 => faults = 0)
      BY <2>4, WrittenFaults DEF TrackFrom, history
    <3>4. QED
      BY <1>0, <3>1, <3>2, <3>3, GrantsStay
  <2>5. ASSUME NEW ok \in BOOLEAN, ScheduleCheck(p, ok) PROVE GrantsSafe'
    BY <1>2, <2>5, WrittenFaults DEF ScheduleCheck, Scheduled
  <2>6. QED
    BY <1>5, <2>1, <2>2, <2>3, <2>4, <2>5 DEF Execute
<1>6. ASSUME NEW p \in Procs, Review(p) PROVE GrantsSafe'
  <2>1. ASSUME NEW s \in {"approved", "rejected"}, ReviewStart(p, s) PROVE GrantsSafe'
    <3>1. \A q \in Procs : q # p => loc'[q] = loc[q]
      BY <2>1 DEF ReviewStart, TypeOK
    <3>2. QED
      BY <1>1, <1>3, <2>1, <3>1 DEF ReviewStart, Goes, Idle, history
  <2>2. ASSUME NEW ok \in BOOLEAN, ReviewNext(p, ok) PROVE GrantsSafe'
    <3>1. pc[p] = "reviewing" /\ UNCHANGED <<effects, amiss>> /\ (faults' = 0 => faults = 0)
      BY <2>2, WrittenFaults DEF ReviewNext
    <3>2. PICK a \in Rows : a = Min(loc[p].todo)
      BY <3>1, LocalFields, FirstOfRows DEF TypeOK
    <3>3. \/ Mark(a, loc[p].write) /\ Granted(a, loc[p].write)
          \/ UNCHANGED <<rows, grants>>
      BY <2>2, <3>2 DEF ReviewNext
    <3>4. /\ grants' \in [Rows -> Nat] /\ \A b \in Rows : grants[b] <= grants'[b]
          /\ \A b \in Rows : rows'[b].status = "approved" =>
                rows[b].status = "approved" \/ grants[b] < grants'[b]
      <4>1. CASE Mark(a, loc[p].write) /\ Granted(a, loc[p].write)
        BY <4>1, GrantedMore, MarkStatus
      <4>2. CASE UNCHANGED <<rows, grants>>
        BY <1>0, <4>2
      <4>3. QED
        BY <3>3, <4>1, <4>2
    <3>5. Returns(p) \/ (pc' = pc /\ \A q \in Procs : q # p => loc'[q] = loc[q])
      BY <2>2 DEF ReviewNext, TypeOK
    <3>6. \A q \in Procs : IF q = p THEN pc'[q] \in {"idle", "reviewing"}
                           ELSE pc'[q] = pc[q] /\ loc'[q] = loc[q]
      BY <3>1, <3>5 DEF Returns, TypeOK
    <3>7. \A q \in Procs : pc'[q] \in {"executing", "marking", "scheduling"} => q \in Executing
      BY <3>6 DEF Executing
    <3>8. QED
      BY <3>1, <3>4, <3>6, <3>7, GrantsStay
  <2>3. QED
    BY <1>6, <2>1, <2>2 DEF Review
<1>7. ASSUME NEW a \in Rows, NEW s \in {"approved", "rejected"}, ReviewAction(a, s)
      PROVE  GrantsSafe'
  <2>1. /\ grants' \in [Rows -> Nat] /\ \A b \in Rows : grants[b] <= grants'[b]
        /\ s = "approved" => grants[a] < grants'[a]
    BY <1>7, GrantedMore DEF ReviewAction
  <2>2. \A b \in Rows : rows'[b].status = "approved" =>
            rows[b].status = "approved" \/ grants[b] < grants'[b]
    BY <1>7, <2>1, MarkStatus DEF ReviewAction
  <2>3. \A q \in Procs : pc[q] \in {"executing", "marking", "scheduling"} => q \in Executing
    BY DEF Executing
  <2>4. QED
    BY <1>7, <2>1, <2>2, <2>3, GrantsStay DEF ReviewAction
<1>8. ASSUME NEW p \in Procs, CheckOrClose(p) PROVE GrantsSafe'
  <2>1. CASE CheckStart(p)
    BY <1>1, <1>3, <2>1 DEF CheckStart, Goes, Idle, history
  <2>2. CASE CloseStart(p)
    BY <1>1, <1>3, <2>2 DEF CloseStart, Goes, Idle, history
  <2>3. ASSUME NEW ok \in BOOLEAN, CheckEnd(p, ok) PROVE GrantsSafe'
    BY <1>2, <2>3, WrittenFaults DEF CheckEnd, Scheduled
  <2>4. ASSUME NEW ok \in BOOLEAN, CloseEnd(p, ok) PROVE GrantsSafe'
    BY <1>2, <2>4, WrittenFaults DEF CloseEnd, history
  <2>5. QED
    BY <1>8, <2>1, <2>2, <2>3, <2>4 DEF CheckOrClose
<1>9. ASSUME NEW ok \in BOOLEAN, Start(ok) PROVE GrantsSafe'
  <2>1. \A q \in Procs : pc[q] \in {"executing", "marking", "scheduling"} => q \in Executing
    BY DEF Executing
  <2>2. UNCHANGED <<rows, pc, loc, grants, effects, amiss>> /\ (faults' = 0 => faults = 0)
    BY <1>9, WrittenFaults DEF Start, history
  <2>3. QED
    BY <1>0, <2>1, <2>2, GrantsStay
<1>10. ASSUME NEW up \in BOOLEAN, NextDay(up) PROVE GrantsSafe'
  <2>1. \A q \in Procs : pc[q] # "idle" => pc'[q] = pc[q]
    BY <1>10 DEF NextDay, TypeOK
  <2>2. \A q \in Procs : pc'[q] \in {"executing", "marking", "scheduling"} => pc'[q] = pc[q] /\ q \in Executing
    BY <1>10 DEF NextDay, TypeOK, Executing
  <2>3. UNCHANGED <<rows, loc, grants, effects, amiss>> /\ (faults' = 0 => faults = 0)
    BY <1>10, WrittenFaults DEF NextDay, history
  <2>4. QED
    BY <1>0, <2>1, <2>2, <2>3, GrantsStay
<1>11. CASE Crash
  <2>1. faults' # 0
    BY <1>11 DEF Crash, Fault, TypeOK
  <2>2. QED
    BY <2>1 DEF GrantsSafe
<1>12. CASE UNCHANGED vars
  <2>1. \A q \in Procs : pc[q] \in {"executing", "marking", "scheduling"} => q \in Executing
    BY DEF Executing
  <2>2. QED
    BY <1>0, <1>12, <2>1, GrantsStay DEF vars
<1>13. QED
  BY <1>4, <1>5, <1>6, <1>7, <1>8, <1>9, <1>10, <1>11, <1>12 DEF Next

\* Unless executions overlap or a statement fails, an action is carried out no
\* more often than it was approved, however often reviews and answers interfere.
THEOREM GrantsAreSpentOnce == Spec => []GrantSpentOnce
<1>1. Init => GrantsSafe
  <2> SUFFICES ASSUME Init PROVE GrantsSafe
    OBVIOUS
  <2>1. \A p \in Procs : pc[p] = "idle"
    BY DEF Init
  <2>2. \A a \in Rows : rows[a].status = "none" /\ effects[a] = 0 /\ grants[a] = 0
    BY DEF Init, NoRow
  <2>3. QED
    BY <2>1, <2>2 DEF GrantsSafe, Executing
<1>2. GrantsSafe => GrantSpentOnce
  BY DEF GrantsSafe, GrantSpentOnce
<1>3. TypeInv /\ GrantsSafe /\ [Next]_vars => (TypeInv /\ GrantsSafe)'
  BY TypeNext, GrantsNext
<1>4. QED
  BY <1>1, <1>2, <1>3, TypeInit, PTL DEF Spec

-----------------------------------------------------------------------------
(* Looked at again                                                         *)

\* As long as nothing fails, next_check_at is the day after the last check, and
\* the job or an execution in progress will write it where the last check is
\* two days old.
Watched ==
    faults = 0 =>
        /\ eng.next = Never \/ eng.next = DayLength * checked + 1 + DayLength
        /\ checked <= day
        /\ eng.phase = "tracking" /\ pc[Tracker] = "idle" /\ Executing = {} =>
              day <= checked + 1

\* Enough for the steps between checks on one day.
LEMMA WatchStay ==
    ASSUME Watched, faults' = 0 => faults = 0, UNCHANGED <<day, checked>>,
           eng'.next = eng.next, eng'.phase = "tracking" => eng.phase = "tracking",
           pc'[Tracker] = "idle" => pc[Tracker] = "idle",
           Executing \subseteq Executing'
    PROVE  Watched'
BY DEF Watched

\* The two steps that check: this day is the day of the last check.
LEMMA CheckWatched ==
    ASSUME TypeOK, Watched, NEW p \in Procs, NEW ok \in BOOLEAN, Scheduled(p, ok)
    PROVE  Watched'
<1> SUFFICES ASSUME faults' = 0 PROVE Watched'
  BY DEF Watched
<1>1. ok /\ day' = day /\ day \in Nat
  BY WrittenFaults DEF Scheduled, TypeOK
<1>2. checked' = day
  BY <1>1 DEF Scheduled
<1>3. eng'.next = DayLength * day + 1 + DayLength
  BY <1>1 DEF Scheduled, NextCheck, TypeOK, Engagements
<1>4. QED
  BY <1>1, <1>2, <1>3 DEF Watched

LEMMA WatchNext ==
    ASSUME TypeInv, Watched, [Next]_vars PROVE Watched'
<1> USE DEF TypeInv
<1>0. /\ Tracker \in Procs /\ Tracker \notin Requests
      /\ pc[Tracker] \in {"idle", "checking"}
  BY TrackerAssumption DEF Procs, TypeOK
\* A goroutine other than the job's goes elsewhere, and does not leave an execution.
<1>1. ASSUME NEW p \in Procs, NEW where \in Locations, pc' = [pc EXCEPT ![p] = where],
             pc[p] \notin {"executing", "marking", "scheduling"}
                \/ where \in {"executing", "marking", "scheduling"},
             pc[p] # "checking", UNCHANGED <<day, checked>>, faults' = 0 => faults = 0,
             eng'.next = eng.next, eng'.phase = "tracking" => eng.phase = "tracking"
      PROVE  Watched'
  <2>1. \A q \in Procs : IF q = p THEN pc'[q] = where ELSE pc'[q] = pc[q]
    BY <1>1 DEF TypeOK
  <2>2. Executing \subseteq Executing'
    BY <1>1, <2>1 DEF Executing
  <2>3. p = Tracker => pc[Tracker] = "idle"
    BY <1>0, <1>1
  <2>4. pc'[Tracker] = "idle" => pc[Tracker] = "idle"
    BY <1>0, <2>1, <2>3
  <2>5. QED
    BY <1>1, <2>2, <2>4, WatchStay
<1>2. ASSUME pc' = pc, UNCHANGED <<day, checked>>, faults' = 0 => faults = 0,
             eng'.next = eng.next, eng'.phase = "tracking" => eng.phase = "tracking"
      PROVE  Watched'
  BY <1>2, WatchStay DEF Executing
<1>3. {"idle", "asking", "planning", "creating", "reviewing", "checking", "closing",
       "executing", "marking", "scheduling"} \subseteq Locations
  BY DEF Locations
<1>4. ASSUME NEW p \in Procs, Answer(p) PROVE Watched'
  <2>1. CASE AnswerStart(p)
    BY <1>1, <1>3, <2>1 DEF AnswerStart, Goes, Idle
  <2>2. CASE PlanFails(p)
    BY <1>1, <1>3, <2>2 DEF PlanFails, Returns, history
  <2>3. ASSUME NEW ok \in BOOLEAN, AskNext(p, ok) PROVE Watched'
    <3>1. eng'.next = eng.next /\ eng'.phase = eng.phase
      BY <2>3 DEF AskNext, Diagnosed, TypeOK, Engagements
    <3>2. QED
      BY <1>1, <1>3, <2>3, <3>1, WrittenFaults DEF AskNext, Diagnosed, Returns
  <2>4. ASSUME NEW ok \in BOOLEAN, EnoughAsked(p, ok) PROVE Watched'
    <3>1. eng'.next = eng.next /\ eng'.phase = eng.phase
      BY <2>4 DEF EnoughAsked, Diagnosed, TypeOK, Engagements
    <3>2. QED
      BY <1>1, <1>3, <2>4, <3>1, WrittenFaults DEF EnoughAsked, Diagnosed, Goes, history
  <2>5. ASSUME NEW ok \in BOOLEAN, NEW n \in 0 .. MaxRows, MakePlan(p, n, ok)
        PROVE  Watched'
    <3>1. eng'.next = eng.next /\ eng'.phase = eng.phase
      BY <2>5 DEF MakePlan, TypeOK, Engagements
    <3>2. QED
      BY <1>1, <1>3, <2>5, <3>1, WrittenFaults DEF MakePlan, Goes, history
  <2>6. ASSUME NEW ok \in BOOLEAN, CreateRow(p, ok) PROVE Watched'
    BY <1>2, <2>6, WrittenFaults DEF CreateRow, history
  <2>7. ASSUME NEW ok \in BOOLEAN, PlanReady(p, ok) PROVE Watched'
    <3>1. eng'.next = eng.next /\ (eng'.phase = "tracking" => eng.phase = "tracking")
      BY <2>7 DEF PlanReady, TypeOK, Engagements
    <3>2. QED
      BY <1>1, <1>3, <2>7, <3>1, WrittenFaults DEF PlanReady, Returns
  <2>8. QED
    BY <1>4, <2>1, <2>2, <2>3, <2>4, <2>5, <2>6, <2>7 DEF Answer
<1>5. ASSUME NEW p \in Procs, Execute(p) PROVE Watched'
  <2>1. CASE ExecuteStart(p)
    BY <1>1, <1>3, <2>1 DEF ExecuteStart, Goes, Idle
  <2>2. ASSUME NEW done \in BOOLEAN, Dispatch(p, done) PROVE Watched'
    BY <1>1, <1>3, <2>2 DEF Dispatch, Goes
  <2>3. ASSUME NEW ok \in BOOLEAN, MarkDone(p, ok) PROVE Watched'
    BY <1>1, <1>3, <2>3, WrittenFaults DEF MarkDone, Goes, history
  \* The phase is tracking now, and the check is still to be scheduled.
  <2>4. ASSUME NEW ok \in BOOLEAN, TrackFrom(p, ok) PROVE Watched'
    <3>1. p \in Executing'
      BY <2>4 DEF TrackFrom, Goes, Executing, TypeOK
    <3>2. eng'.next = eng.next /\ UNCHANGED <<day, checked>>
      BY <2>4 DEF TrackFrom, history, TypeOK, Engagements
    <3>3. faults' = 0 => faults = 0
      BY <2>4, WrittenFaults DEF TrackFrom
    <3>4. QED
      BY <3>1, <3>2, <3>3 DEF Watched
  <2>5. ASSUME NEW ok \in BOOLEAN, ScheduleCheck(p, ok) PROVE Watched'
    BY <2>5, CheckWatched DEF ScheduleCheck
  <2>6. QED
    BY <1>5, <2>1, <2>2, <2>3, <2>4, <2>5 DEF Execute
<1>6. ASSUME NEW p \in Procs, Review(p) PROVE Watched'
  <2>1. ASSUME NEW s \in {"approved", "rejected"}, ReviewStart(p, s) PROVE Watched'
    BY <1>1, <1>3, <2>1 DEF ReviewStart, Goes, Idle, history
  <2>2. ASSUME NEW ok \in BOOLEAN, ReviewNext(p, ok) PROVE Watched'
    <3>1. /\ pc[p] = "reviewing" /\ UNCHANGED <<eng, day, checked>>
          /\ faults' = 0 => faults = 0
      BY <2>2, WrittenFaults DEF ReviewNext
    <3>2. pc' = [pc EXCEPT ![p] = "idle"] \/ pc' = pc
      BY <2>2 DEF ReviewNext, Returns
    <3>3. QED
      BY <1>1, <1>2, <1>3, <3>1, <3>2
  <2>3. QED
    BY <1>6, <2>1, <2>2 DEF Review
<1>7. ASSUME NEW a \in Rows, NEW s \in {"approved", "rejected"}, ReviewAction(a, s)
      PROVE  Watched'
  BY <1>2, <1>7 DEF ReviewAction
<1>8. ASSUME NEW p \in Procs, CheckOrClose(p) PROVE Watched'
  <2>1. CASE CheckStart(p)
    BY <1>1, <1>3, <2>1 DEF CheckStart, Goes, Idle, history
  <2>2. CASE CloseStart(p)
    BY <1>1, <1>3, <2>2 DEF CloseStart, Goes, Idle, history
  <2>3. ASSUME NEW ok \in BOOLEAN, CheckEnd(p, ok) PROVE Watched'
    BY <2>3, CheckWatched DEF CheckEnd
  <2>4. ASSUME NEW ok \in BOOLEAN, CloseEnd(p, ok) PROVE Watched'
    <3>1. eng'.next = eng.next /\ (eng'.phase = "tracking" => eng.phase = "tracking")
      BY <2>4 DEF CloseEnd, TypeOK, Engagements
    <3>2. QED
      BY <1>1, <1>3, <2>4, <3>1, WrittenFaults DEF CloseEnd, Returns, history
  <2>5. QED
    BY <1>8, <2>1, <2>2, <2>3, <2>4 DEF CheckOrClose
<1>9. ASSUME NEW ok \in BOOLEAN, Start(ok) PROVE Watched'
  <2>1. eng'.next = eng.next /\ eng'.phase # "tracking"
    BY <1>9 DEF Start, TypeOK, Engagements
  <2>2. QED
    BY <1>2, <1>9, <2>1, WrittenFaults DEF Start, history
\* The job finds the engagement due, or it was checked the day before.
<1>10. ASSUME NEW up \in BOOLEAN, NextDay(up) PROVE Watched'
  <2> SUFFICES ASSUME faults' = 0 PROVE Watched'
    BY DEF Watched
  <2>1. faults = 0 /\ up
    BY <1>10, WrittenFaults DEF NextDay
  <2>2. /\ UNCHANGED <<eng, checked>> /\ day' = day + 1 /\ pc[Tracker] = "idle"
        /\ day \in Nat /\ checked \in Nat /\ eng.next \in Nat
    BY <1>10 DEF NextDay, history, TypeOK, Engagements
  <2>3. checked' <= day'
    BY <2>1, <2>2 DEF Watched
  <2>4. ASSUME eng.phase = "tracking", pc'[Tracker] = "idle" PROVE day' <= checked' + 1
    <3>1. ~ Due(DayLength * day')
      BY <1>10, <2>1, <2>2, <2>4, <1>0 DEF NextDay, TypeOK
    <3>2. eng.next = DayLength * checked + 1 + DayLength /\ ~ (eng.next <= DayLength * day')
      BY <2>1, <2>4, <3>1 DEF Due, Watched
    <3>3. QED
      BY <2>2, <3>2 DEF DayLength
  <2>5. QED
    BY <2>1, <2>2, <2>3, <2>4 DEF Watched
<1>11. CASE Crash
  <2>1. faults' # 0
    BY <1>11 DEF Crash, Fault, TypeOK
  <2>2. QED
    BY <2>1 DEF Watched
<1>12. CASE UNCHANGED vars
  BY <1>2, <1>12 DEF vars
<1>13. QED
  BY <1>4, <1>5, <1>6, <1>7, <1>8, <1>9, <1>10, <1>11, <1>12 DEF Next

\* As long as nothing fails and the process stays up, an engagement in tracking
\* was checked on this day or the day before, for any number of days.
THEOREM CheckedAgain == Spec => []CheckedEverySecondDay
<1>1. Init => Watched
  BY DEF Init, Watched
<1>2. Watched => CheckedEverySecondDay
  BY DEF Watched, CheckedEverySecondDay
<1>3. TypeInv /\ Watched /\ [Next]_vars => (TypeInv /\ Watched)'
  BY TypeNext, WatchNext
<1>4. QED
  BY <1>1, <1>2, <1>3, TypeInit, PTL DEF Spec
=============================================================================
