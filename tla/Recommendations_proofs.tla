----------------------- MODULE Recommendations_proofs -----------------------
(***************************************************************************)
(* Proofs about Recommendations: for any number of stores, requests,       *)
(* subjects, ranks, rows, instants and faults.                             *)
(***************************************************************************)
EXTENDS Recommendations, TLAPS

-----------------------------------------------------------------------------
(* Rows                                                                    *)

LEMMA InputFields ==
    ASSUME NEW in \in Inputs
    PROVE  in.subject \in Subjects /\ in.rank \in Ranks
BY DEF Inputs, ScanInputs, TriggerInputs, WorldModelInputs, MemoryInputs, Input

LEMMA HoldingType ==
    ASSUME NEW in \in Inputs \cup {NoInput}, NEW a \in Ids \cup {0}
    PROVE  /\ Holding(in, a) \in Locals
           /\ Holding(in, a).input = in
           /\ Holding(in, a).row = a
BY DEF Holding, Locals

LEMMA RunningType ==
    ASSUME NEW a \in Ids, NEW todo \in SUBSET DOMAIN Actions[a], NEW s \in {"accepted", "executed"}
    PROVE  /\ Running(a, todo, s) \in Locals
           /\ Running(a, todo, s).row = a
           /\ Running(a, todo, s).todo = todo
           /\ Running(a, todo, s).write = s
<1>1. Actions[a] \in Seq(DOMAIN Results)
  BY ActionsAssumption DEF Ids
<1>2. DOMAIN Actions[a] \subseteq Nat
  BY <1>1
<1>3. QED
  BY <1>2 DEF Running, Locals

LEMMA NothingType == Nothing \in Locals /\ Nothing.row = 0
BY HoldingType DEF Nothing

LEMMA StoredFields ==
    ASSUME TypeOK, NEW a \in Stored
    PROVE  /\ a \in Ids
           /\ recs[a] \in Recs
           /\ recs[a].status \in Statuses
           /\ recs[a].subject \in Subjects
           /\ recs[a].rank \in Ranks
           /\ recs[a].age \in 0 .. Window
BY DEF TypeOK, Stored, NoRec, Recs

\* The rows keep their types, none disappears, and none changes its subject or
\* its rank.
RowsKept ==
    /\ recs' \in [Ids -> Recs \cup {NoRec}]
    /\ Stored \subseteq Stored'
    /\ \A a \in Stored : recs'[a].subject = recs[a].subject /\ recs'[a].rank = recs[a].rank

\* No row comes to be live, or executed.
NoneRevived ==
    /\ Stored' = Stored
    /\ \A a \in Stored :
        /\ recs'[a].status = "pending" =>
              recs[a].status = "pending" /\ (recs'[a].age < Window => recs[a].age < Window)
        /\ recs'[a].status = "executed" => recs[a].status = "executed"

LEMMA ChangedFields ==
    ASSUME TypeOK, NEW a \in Stored, NEW s \in Statuses, NEW g \in 0 .. Window
    PROVE  /\ Changed(a, s, g) \in Recs
           /\ Changed(a, s, g).status = s
           /\ Changed(a, s, g).subject = recs[a].subject
           /\ Changed(a, s, g).rank = recs[a].rank
           /\ Changed(a, s, g).age = g
BY StoredFields DEF Changed, Recs

LEMMA MarkKeeps ==
    ASSUME TypeOK, NEW a \in Stored, NEW s \in Statuses, Mark(a, s)
    PROVE  /\ RowsKept
           /\ Stored' = Stored
           /\ \A b \in Ids : b # a => recs'[b] = recs[b]
           /\ recs'[a].status = IF recs[a].status = "deleted" THEN "deleted" ELSE s
<1>1. a \in Ids /\ recs[a] \in Recs /\ recs[a].status # "none" /\ recs[a].status \in Statuses
  BY StoredFields DEF Stored
<1>2. CASE a \notin Present
  <2>1. recs' = recs /\ recs[a].status = "deleted"
    BY <1>2 DEF Mark, Present
  <2>2. QED
    BY <2>1 DEF TypeOK, RowsKept, Stored
<1>3. CASE a \in Present
  <2> DEFINE row == Changed(a, s, 0)
  <2>1. /\ row \in Recs /\ row.status = s
        /\ row.subject = recs[a].subject /\ row.rank = recs[a].rank
    BY ChangedFields, NatAssumption
  <2>2. recs' = [recs EXCEPT ![a] = row]
    BY <1>3 DEF Mark
  <2>3. recs[a].status # "deleted" /\ s # "none"
    BY <1>3 DEF Present, Statuses
  <2> HIDE DEF row
  <2>4. recs' \in [Ids -> Recs \cup {NoRec}] /\ recs'[a] = row /\ \A b \in Ids : b # a => recs'[b] = recs[b]
    BY <1>1, <2>1, <2>2 DEF TypeOK
  <2>5. Stored' = Stored
    BY <1>1, <2>1, <2>3, <2>4 DEF Stored
  <2>6. QED
    BY <1>1, <2>1, <2>3, <2>4, <2>5 DEF RowsKept, Stored
<1>4. QED
  BY <1>2, <1>3

\* A request that starts or runs an action touches no row and no store.
LEMMA RequestsAside ==
    ASSUME TypeOK, NEW p \in Procs,
           (\E a \in Ids : Execute(p, a)) \/ \E i \in loc[p].todo, result \in {"effect", "nothing", "error"} : Act(p, i, result)
    PROVE  /\ UNCHANGED <<recs, replaced, refused, overlapped, faults>>
           /\ p \in Requests /\ pc'[p] = "executing"
           /\ \A q \in Procs : q # p => pc'[q] = pc[q] /\ loc'[q] = loc[q]
           /\ \A q \in Stores : pc'[q] = pc[q] /\ loc'[q] = loc[q]
<1>1. p \in Requests /\ UNCHANGED <<recs, replaced, refused, overlapped, faults>>
  BY DEF Execute, Act, TypeOK, history
<1>2. \E what : Goes(p, "executing", what)
  BY DEF Execute, Act
<1>3. pc'[p] = "executing" /\ \A q \in Procs : q # p => pc'[q] = pc[q] /\ loc'[q] = loc[q]
  BY <1>2 DEF Goes, TypeOK
<1>4. QED
  BY <1>1, <1>3, ProcAssumption DEF Procs

LEMMA ScanKeeps ==
    ASSUME TypeOK, Scan
    PROVE  RowsKept /\ NoneRevived
<1> DEFINE new(a) == Changed(a, "expired", 0)
<1>1. ASSUME NEW a \in Stored
      PROVE  /\ new(a) \in Recs /\ new(a).status = "expired"
             /\ new(a).subject = recs[a].subject /\ new(a).rank = recs[a].rank
  BY ChangedFields, NatAssumption DEF Statuses
<1>2. recs' = [a \in Ids |-> IF a \in Stored /\ Old(a) THEN new(a) ELSE recs[a]]
  BY DEF Scan
<1> HIDE DEF new
<1>3. ASSUME NEW a \in Ids
      PROVE  /\ recs'[a] \in Recs \cup {NoRec}
             /\ a \in Stored <=> recs'[a].status # "none"
             /\ a \in Stored => /\ recs'[a].subject = recs[a].subject
                                /\ recs'[a].rank = recs[a].rank
                                /\ recs'[a] = recs[a] \/ recs'[a].status = "expired"
  BY <1>1, <1>2 DEF TypeOK, Stored
<1>4. recs' \in [Ids -> Recs \cup {NoRec}]
  BY <1>2, <1>3
<1>5. Stored' = Stored
  BY <1>3 DEF Stored
<1>6. QED
  BY <1>3, <1>4, <1>5 DEF RowsKept, NoneRevived, Stored

LEMMA TickKeeps ==
    ASSUME TypeOK, Tick
    PROVE  RowsKept /\ NoneRevived
<1> DEFINE new(a) == Changed(a, "pending", recs[a].age + 1)
<1>1. ASSUME NEW a \in Stored, Young(a)
      PROVE  /\ new(a) \in Recs /\ new(a).status = recs[a].status
             /\ new(a).subject = recs[a].subject /\ new(a).rank = recs[a].rank
             /\ recs[a].age < Window
  <2>1. recs[a].age + 1 \in 0 .. Window /\ "pending" \in Statuses
    BY <1>1, StoredFields, NatAssumption DEF Young, Statuses
  <2>2. QED
    BY <1>1, <2>1, ChangedFields DEF Young
<1>2. recs' = [a \in Ids |-> IF a \in Stored /\ Young(a) THEN new(a) ELSE recs[a]]
  BY DEF Tick
<1> HIDE DEF new
<1>3. ASSUME NEW a \in Ids
      PROVE  /\ recs'[a] \in Recs \cup {NoRec}
             /\ recs'[a].status = recs[a].status
             /\ a \in Stored => /\ recs'[a].subject = recs[a].subject
                                /\ recs'[a].rank = recs[a].rank
                                /\ recs'[a] = recs[a] \/ recs[a].age < Window
  BY <1>1, <1>2 DEF TypeOK
<1>4. recs' \in [Ids -> Recs \cup {NoRec}]
  BY <1>2, <1>3
<1>5. Stored' = Stored
  BY <1>3 DEF Stored
<1>6. QED
  BY <1>3, <1>4, <1>5 DEF RowsKept, NoneRevived, Stored

LEMMA CreateKeeps ==
    ASSUME TypeOK, NEW p \in Procs, NEW ok \in BOOLEAN, Create(p, ok)
    PROVE  /\ RowsKept
           /\ \A b \in Stored : recs'[b] = recs[b]
           /\ \/ recs' = recs /\ (ok => ~ Accepted(loc[p].input.source))
              \/ \E a \in Ids \ Stored :
                    /\ Stored' = Stored \cup {a}
                    /\ recs'[a] = NewRec(loc[p].input)
<1>1. loc[p].input \in Inputs
  BY DEF TypeOK, Create
<1>2. CASE ~ (ok /\ Accepted(loc[p].input.source))
  BY <1>2 DEF Create, TypeOK, RowsKept, Stored
<1>3. CASE ok /\ Accepted(loc[p].input.source)
  <2>1. PICK a \in Ids \ Stored : recs' = [recs EXCEPT ![a] = NewRec(loc[p].input)]
    BY <1>3 DEF Create
  <2> DEFINE row == NewRec(loc[p].input)
  <2>2. row \in Recs /\ row.status # "none"
    BY <1>1, InputFields, NatAssumption DEF NewRec, Recs, Statuses
  <2> HIDE DEF row
  <2>3. /\ recs' \in [Ids -> Recs \cup {NoRec}]
        /\ recs'[a] = row
        /\ \A b \in Ids : b # a => recs'[b] = recs[b]
    BY <2>1, <2>2 DEF TypeOK, row
  <2>4. Stored' = Stored \cup {a}
    BY <2>1, <2>2, <2>3 DEF Stored
  <2>5. QED
    BY <2>1, <2>3, <2>4 DEF RowsKept, row, Stored
<1>4. QED
  BY <1>2, <1>3

-----------------------------------------------------------------------------
(* Types                                                                   *)

LEMMA TypeInit == Init => TypeOK
BY NothingType, NatAssumption DEF Init, TypeOK, Stored, NoRec, Locations, Recs

\* What holds of the rows and of the goroutines, apart.
RowsOK ==
    /\ recs \in [Ids -> Recs \cup {NoRec}]
    /\ effects \subseteq Stored \X Nat
    /\ refused \subseteq Stored

ProcsOK ==
    /\ pc \in [Procs -> Locations]
    /\ loc \in [Procs -> Locals]
    /\ \A p \in Procs :
        /\ pc[p] \in {"expiring", "creating"} => p \in Stores /\ loc[p].input \in Inputs
        /\ pc[p] = "executing" => p \in Requests /\ loc[p].todo \subseteq DOMAIN Actions[loc[p].row]
        /\ pc[p] \in {"expiring", "executing"} => loc[p].row # 0
        /\ loc[p].row # 0 => loc[p].row \in Stored

\* A goroutine that goes on keeps the types of all.
LEMMA GoesType ==
    ASSUME TypeOK, NEW p \in Procs, NEW where \in Locations, NEW what \in Locals,
           Goes(p, where, what), Stored \subseteq Stored',
           where \in {"expiring", "creating"} => p \in Stores /\ what.input \in Inputs,
           where = "executing" => p \in Requests /\ what.todo \subseteq DOMAIN Actions[what.row],
           where \in {"expiring", "executing"} => what.row # 0,
           what.row # 0 => what.row \in Stored
    PROVE  ProcsOK'
BY DEF TypeOK, Goes, ProcsOK

LEMMA StaysType ==
    ASSUME TypeOK, UNCHANGED <<pc, loc>>, Stored \subseteq Stored'
    PROVE  ProcsOK'
BY DEF TypeOK, ProcsOK

LEMMA FaultType == ASSUME TypeOK, NEW ok, Written(ok) PROVE faults' \in 0 .. MaxFaults
BY NatAssumption DEF TypeOK, Written, Fault

LEMMA TypeStep == TypeOK /\ [Next]_vars => TypeOK'
<1> SUFFICES ASSUME TypeOK, [Next]_vars PROVE TypeOK'
  OBVIOUS
<1>1. ASSUME RowsOK', ProcsOK', replaced' \in [Ids -> Ranks \cup {0}],
             overlapped' \subseteq Subjects, faults' \in 0 .. MaxFaults
      PROVE  TypeOK'
  BY <1>1 DEF RowsOK, ProcsOK, TypeOK
<1> USE DEF history
<1>2. ASSUME NEW p \in Procs, NEW in \in Inputs, NEW ok \in BOOLEAN, Find(p, in, ok)
      PROVE  TypeOK'
  <2>1. RowsOK' /\ Stored' = Stored
    BY <1>2 DEF Find, RowsOK, TypeOK, Stored
  <2>2. ASSUME NEW a \in Found(in.subject), Goes(p, "expiring", Holding(in, a))
        PROVE  ProcsOK'
    <3>1. a \in Stored /\ a \in Ids /\ a # 0 /\ p \in Stores
      BY <1>2, <2>2, NatAssumption DEF Found, Pending, Stored, Find, Ids
    <3>2. QED
      BY <1>2, <2>1, <2>2, <3>1, HoldingType, GoesType DEF Locations
  <2>3. ASSUME Goes(p, "creating", Holding(in, 0))
        PROVE  ProcsOK'
    <3>1. p \in Stores
      BY <1>2 DEF Find
    <3>2. QED
      BY <1>2, <2>1, <2>3, <3>1, HoldingType, GoesType DEF Locations
  <2>4. ProcsOK'
    BY <1>2, <2>2, <2>3 DEF Find
  <2>5. overlapped' \subseteq Subjects /\ replaced' = replaced
    BY <1>2, InputFields DEF Find, TypeOK
  <2>6. QED
    BY <1>1, <1>2, <2>1, <2>4, <2>5, FaultType DEF Find, TypeOK
<1>3. ASSUME NEW p \in Procs, NEW ok \in BOOLEAN, Expire(p, ok)
      PROVE  TypeOK'
  <2>1. /\ loc[p].row \in Stored /\ loc[p].row \in Ids /\ loc[p] \in Locals
        /\ p \in Stores /\ loc[p].input \in Inputs
    BY <1>3 DEF Expire, TypeOK, Stored
  <2>2. RowsKept
    BY <1>3, <2>1, MarkKeeps DEF Expire, RowsKept, TypeOK, Stored, Statuses
  <2>3. RowsOK'
    BY <1>3, <2>2 DEF Expire, RowsOK, RowsKept, TypeOK
  <2>4. ProcsOK'
    BY <1>3, <2>1, <2>2, GoesType DEF Expire, RowsKept, Locations
  <2>5. replaced' \in [Ids -> Ranks \cup {0}]
    BY <1>3, <2>1, InputFields DEF Expire, TypeOK
  <2>6. QED
    BY <1>1, <1>3, <2>3, <2>4, <2>5, FaultType DEF Expire, TypeOK
<1>4. ASSUME NEW p \in Procs, NEW ok \in BOOLEAN, Create(p, ok)
      PROVE  TypeOK'
  <2>1. RowsKept
    BY <1>4, CreateKeeps
  <2>2. refused' \subseteq Stored
    BY <1>4 DEF Create, TypeOK
  <2>3. RowsOK'
    BY <1>4, <2>1, <2>2 DEF Create, RowsOK, RowsKept, TypeOK
  <2>4. ProcsOK'
    BY <1>4, <2>1, NothingType, GoesType DEF Create, RowsKept, Locations
  <2>5. QED
    BY <1>1, <1>4, <2>3, <2>4, FaultType DEF Create, TypeOK
<1>5. ASSUME NEW p \in Procs, NEW a \in Ids, Execute(p, a)
      PROVE  TypeOK'
  <2>1. a \in Stored /\ Stored' = Stored /\ a # 0 /\ p \in Requests
    BY <1>5, NatAssumption DEF Execute, Present, Stored, Ids
  <2>2. RowsOK'
    BY <1>5, <2>1 DEF Execute, RowsOK, TypeOK
  <2>3. ASSUME NEW todo \in SUBSET DOMAIN Actions[a], NEW s \in {"accepted", "executed"},
               Goes(p, "executing", Running(a, todo, s))
        PROVE  ProcsOK'
    BY <2>1, <2>3, RunningType, GoesType DEF Locations
  <2>4. ProcsOK'
    BY <1>5, <2>3 DEF Execute
  <2>5. QED
    BY <1>1, <1>5, <2>2, <2>4 DEF Execute, TypeOK
<1>13. ASSUME NEW p \in Procs, NEW i \in loc[p].todo, NEW result \in {"effect", "nothing", "error"}, Act(p, i, result)
      PROVE  TypeOK'
  <2> DEFINE a == loc[p].row
  <2>1. /\ a \in Ids /\ a \in Stored /\ a # 0 /\ p \in Requests /\ Stored' = Stored
        /\ loc[p].todo \subseteq DOMAIN Actions[a] /\ loc[p] \in Locals
    BY <1>13 DEF Act, TypeOK, Stored
  <2>2. i \in Nat /\ loc[p].write \in {"accepted", "executed"}
    BY <2>1 DEF Locals
  <2>3. RowsOK'
    BY <1>13, <2>1, <2>2 DEF Act, RowsOK, TypeOK
  <2>4. Outcome(result, loc[p].write) \in {"accepted", "executed"}
    BY <2>2 DEF Outcome
  <2>5. ProcsOK'
    BY <1>13, <2>1, <2>4, RunningType, GoesType DEF Act, Locations
  <2>6. QED
    BY <1>1, <1>13, <2>3, <2>5 DEF Act, TypeOK
<1>6. ASSUME NEW p \in Procs, NEW ok \in BOOLEAN, MarkExecuted(p, ok)
      PROVE  TypeOK'
  <2>1. loc[p].row \in Stored /\ loc[p].write \in Statuses
    BY <1>6 DEF MarkExecuted, TypeOK, Locals, Statuses
  <2>2. RowsKept
    BY <1>6, <2>1, MarkKeeps DEF MarkExecuted, RowsKept, TypeOK, Stored
  <2>3. RowsOK'
    BY <1>6, <2>2 DEF MarkExecuted, RowsOK, RowsKept, TypeOK
  <2>4. ProcsOK'
    BY <1>6, <2>2, NothingType, GoesType DEF MarkExecuted, RowsKept, Locations
  <2>5. QED
    BY <1>1, <1>6, <2>3, <2>4, FaultType DEF MarkExecuted, TypeOK
<1>7. ASSUME RowsKept, UNCHANGED <<pc, loc, history, faults>>
      PROVE  TypeOK'
  <2>1. RowsOK'
    BY <1>7 DEF RowsOK, RowsKept, TypeOK
  <2>2. QED
    BY <1>1, <1>7, <2>1, StaysType DEF RowsKept, TypeOK
<1>8. ASSUME NEW a \in Ids, Dismiss(a) \/ Delete(a)
      PROVE  TypeOK'
  <2>1. a \in Stored /\ (Mark(a, "dismissed") \/ Mark(a, "deleted"))
    BY <1>8 DEF Dismiss, Delete, Present
  <2>2. RowsKept
    BY <2>1, MarkKeeps DEF Statuses
  <2>3. QED
    BY <1>7, <1>8, <2>2 DEF Dismiss, Delete
<1>9. CASE Scan \/ Tick
  BY <1>7, <1>9, ScanKeeps, TickKeeps DEF Scan, Tick
<1>10. CASE Crash
  <2>1. RowsOK' /\ ProcsOK'
    BY <1>10, NothingType DEF Crash, RowsOK, ProcsOK, TypeOK, Stored, Locations
  <2>2. faults' \in 0 .. MaxFaults
    BY <1>10, NatAssumption DEF Crash, Fault, TypeOK
  <2>3. QED
    BY <1>1, <1>10, <2>1, <2>2 DEF Crash, TypeOK
<1>11. CASE UNCHANGED vars
  BY <1>11 DEF vars, TypeOK, Stored
<1>12. QED
  BY <1>2, <1>3, <1>4, <1>5, <1>6, <1>8, <1>9, <1>10, <1>11, <1>13 DEF Next, Store, Request

\* Every variable always holds a value of its type, for any stores, requests,
\* rows and faults.
THEOREM TypeCorrect == Spec => []TypeOK
BY TypeInit, TypeStep, PTL DEF Spec

-----------------------------------------------------------------------------
(* One live recommendation of a subject                                    *)

\* As long as no two stores for a subject overlap: there is one store for it; the
\* row it is about to expire is the only live one, and once it creates there is none.
OneStore ==
    faults = 0 =>
        \A p \in Stores :
            pc[p] \in {"expiring", "creating"} /\ loc[p].input.subject \notin overlapped =>
                /\ \A q \in Storing(loc[p].input.subject) : q = p
                /\ \A a \in Live(loc[p].input.subject) : pc[p] = "expiring" /\ a = loc[p].row

LiveInv == TypeOK /\ OneStore /\ OneLivePending

\* Where rows come to be live nowhere, both invariants stay, if the stores do.
LEMMA LiveShrinks ==
    ASSUME TypeOK, RowsKept, NoneRevived
    PROVE  \A s \in Subjects : Live(s)' \subseteq Live(s)
BY DEF Live, Pending, NoneRevived, RowsKept, Stored

LEMMA MarkRevivesNone ==
    ASSUME TypeOK, NEW a \in Stored, NEW s \in Statuses \ {"pending"}, Mark(a, s)
    PROVE  /\ \A t \in Subjects : Live(t)' \subseteq Live(t) \ {a}
           /\ RowsKept
<1>1. RowsKept /\ Stored' = Stored /\ recs'[a].status # "pending"
  BY MarkKeeps
<1>2. \A b \in Stored : b # a => recs'[b] = recs[b]
  BY MarkKeeps DEF Stored
<1>3. QED
  BY <1>1, <1>2 DEF Live, Pending, RowsKept

LEMMA LiveStays ==
    ASSUME LiveInv, faults' = 0 => faults = 0, overlapped \subseteq overlapped',
           overlapped' \subseteq Subjects,
           \A s \in Subjects : Live(s)' \subseteq Live(s),
           \A p \in Stores :
               \/ pc'[p] = pc[p] /\ loc'[p] = loc[p]
               \/ pc'[p] \notin {"expiring", "creating"}
    PROVE  OneStore' /\ OneLivePending'
<1>1. OneLivePending'
  BY DEF LiveInv, OneLivePending
<1>2. ASSUME faults' = 0, NEW p \in Stores, pc'[p] \in {"expiring", "creating"},
             loc'[p].input.subject \notin overlapped'
      PROVE  /\ \A q \in Storing(loc[p].input.subject)' : q = p
             /\ \A a \in Live(loc[p].input.subject)' : pc'[p] = "expiring" /\ a = loc'[p].row
             /\ loc'[p] = loc[p]
  <2>1. pc'[p] = pc[p] /\ loc'[p] = loc[p] /\ loc[p].input.subject \in Subjects
    BY <1>2, InputFields DEF LiveInv, TypeOK, Procs
  <2>2. \A s \in Subjects : Storing(s)' \subseteq Storing(s)
    BY DEF Storing
  <2>3. QED
    BY <1>2, <2>1, <2>2 DEF LiveInv, OneStore
<1>3. QED
  BY <1>1, <1>2 DEF OneStore

LEMMA SuccessOnly ==
    ASSUME TypeOK, NEW ok, Written(ok)
    PROVE  faults' = 0 => ok /\ faults = 0
BY NatAssumption DEF TypeOK, Written, Fault

LEMMA LiveFind ==
    ASSUME LiveInv, NEW p \in Procs, NEW in \in Inputs, NEW ok \in BOOLEAN, Find(p, in, ok)
    PROVE  OneStore' /\ OneLivePending'
<1>1. PICK s \in Subjects : s = in.subject
  BY InputFields
<1>2. /\ \A t \in Subjects : Live(t)' = Live(t)
      /\ overlapped \subseteq overlapped'
      /\ faults' = 0 => ok /\ faults = 0
  BY SuccessOnly DEF Find, Live, Pending, Stored, LiveInv
<1>3. OneLivePending'
  BY <1>2 DEF LiveInv, OneLivePending
<1>4. /\ p \in Stores /\ pc[p] = "idle"
      /\ pc'[p] \in {"expiring", "creating"} /\ loc'[p].input = in
      /\ \A q \in Stores : q # p => pc'[q] = pc[q] /\ loc'[q] = loc[q]
  <2>1. ASSUME NEW a \in Found(in.subject), Goes(p, "expiring", Holding(in, a))
        PROVE  <1>4!2 /\ <1>4!3
    BY <2>1 DEF Goes, Holding, LiveInv, TypeOK, Procs
  <2>2. ASSUME Goes(p, "creating", Holding(in, 0))
        PROVE  <1>4!2 /\ <1>4!3
    BY <2>2 DEF Goes, Holding, LiveInv, TypeOK, Procs
  <2>3. QED
    BY <2>1, <2>2 DEF Find
<1>5. ASSUME faults' = 0, s \notin overlapped'
      PROVE  /\ \A q \in Storing(s)' : q = p
             /\ \A a \in Live(s)' : pc'[p] = "expiring" /\ a = loc'[p].row
  <2>1. Storing(s) = {} /\ s \notin overlapped
    BY <1>1, <1>5 DEF Find
  <2>2. \A q \in Storing(s)' : q = p
    BY <1>4, <2>1 DEF Storing
  <2>3. Found(s) = Live(s)
    BY DEF Found, Live
  <2>4. \A a, b \in Live(s) : a = b
    BY <1>2, <1>5, <2>1 DEF LiveInv, OneLivePending
  <2>5. ASSUME NEW a \in Found(s), Goes(p, "expiring", Holding(in, a))
        PROVE  pc'[p] = "expiring" /\ loc'[p].row = a
    BY <1>4, <2>5 DEF Goes, Holding, LiveInv, TypeOK, Procs
  <2>6. Found(s) = {} \/ \E a \in Found(s) : pc'[p] = "expiring" /\ loc'[p].row = a
    BY <1>1, <1>2, <1>5, <2>5 DEF Find
  <2>7. QED
    BY <1>2, <2>2, <2>3, <2>4, <2>6
<1>6. ASSUME faults' = 0, NEW q \in Stores, q # p, NEW t \in Subjects,
             pc[q] \in {"expiring", "creating"}, loc[q].input.subject = t, t \notin overlapped'
      PROVE  /\ \A r \in Storing(t)' : r = q
             /\ \A a \in Live(t)' : pc[q] = "expiring" /\ a = loc[q].row
  <2>1. t # s
    <3>1. q \in Storing(t)
      BY <1>6 DEF Storing
    <3>2. QED
      BY <1>1, <1>6, <3>1 DEF Find
  <2>2. Storing(t)' \subseteq Storing(t)
    BY <1>1, <1>4, <2>1 DEF Storing
  <2>3. QED
    BY <1>2, <1>6, <2>2 DEF LiveInv, OneStore
<1>7. ASSUME faults' = 0, NEW q \in Stores, pc'[q] \in {"expiring", "creating"},
             NEW t \in Subjects, loc'[q].input.subject = t, t \notin overlapped'
      PROVE  /\ \A r \in Storing(t)' : r = q
             /\ \A a \in Live(t)' : pc'[q] = "expiring" /\ a = loc'[q].row
  <2>1. CASE q = p
    BY <1>1, <1>4, <1>5, <1>7, <2>1
  <2>2. CASE q # p
    <3>1. pc'[q] = pc[q] /\ loc'[q] = loc[q]
      BY <1>4, <2>2
    <3>2. QED
      BY <1>6, <1>7, <2>2, <3>1
  <2>3. QED
    BY <2>1, <2>2
<1>8. \A q \in Stores : pc'[q] \in {"expiring", "creating"} => loc'[q].input.subject \in Subjects
  BY <1>4, InputFields DEF LiveInv, TypeOK, Procs
<1>9. OneStore'
  BY <1>7, <1>8 DEF OneStore
<1>10. QED
  BY <1>3, <1>9

LEMMA LiveExpire ==
    ASSUME LiveInv, NEW p \in Procs, NEW ok \in BOOLEAN, Expire(p, ok)
    PROVE  OneStore' /\ OneLivePending'
<1>1. /\ p \in Stores /\ pc[p] = "expiring" /\ loc[p].row \in Stored
      /\ pc'[p] = "creating"
      /\ \A q \in Procs : loc'[q] = loc[q] /\ (q # p => pc'[q] = pc[q])
      /\ overlapped' = overlapped
  BY DEF Expire, Goes, LiveInv, TypeOK, Procs
<1>2. SUFFICES ASSUME faults' = 0 PROVE OneStore' /\ OneLivePending'
  BY DEF OneStore, OneLivePending
<1>3. ok /\ faults = 0
  BY <1>2, SuccessOnly DEF Expire, LiveInv
<1>4. \A t \in Subjects : Live(t)' \subseteq Live(t) \ {loc[p].row}
  <2>1. Mark(loc[p].row, "expired") /\ "expired" \in Statuses \ {"pending"}
    BY <1>3 DEF Expire, Statuses
  <2>2. QED
    BY <1>1, <2>1, MarkRevivesNone DEF LiveInv
<1>5. OneLivePending'
  BY <1>1, <1>3, <1>4 DEF LiveInv, OneLivePending
<1>6. \A t \in Subjects : Storing(t)' \subseteq Storing(t)
  BY <1>1 DEF Storing, Procs
<1>7. ASSUME NEW q \in Stores, pc'[q] \in {"expiring", "creating"},
             NEW t \in Subjects, loc'[q].input.subject = t, t \notin overlapped'
      PROVE  /\ \A r \in Storing(t)' : r = q
             /\ \A a \in Live(t)' : pc'[q] = "expiring" /\ a = loc'[q].row
  <2>1. /\ \A r \in Storing(t) : r = q
        /\ \A a \in Live(t) : pc[q] = "expiring" /\ a = loc[q].row
    BY <1>1, <1>3, <1>7 DEF LiveInv, OneStore, Procs
  <2>2. QED
    BY <1>1, <1>4, <1>6, <2>1 DEF Procs
<1>8. \A q \in Stores : pc'[q] \in {"expiring", "creating"} => loc'[q].input.subject \in Subjects
  BY <1>1, InputFields DEF LiveInv, TypeOK, Procs
<1>9. QED
  BY <1>5, <1>7, <1>8 DEF OneStore

LEMMA LiveCreate ==
    ASSUME LiveInv, NEW p \in Procs, NEW ok \in BOOLEAN, Create(p, ok)
    PROVE  OneStore' /\ OneLivePending'
<1>1. /\ p \in Stores /\ pc[p] = "creating" /\ loc[p].input \in Inputs
      /\ pc'[p] = "idle"
      /\ \A q \in Procs : q # p => loc'[q] = loc[q] /\ pc'[q] = pc[q]
      /\ overlapped' = overlapped
  BY DEF Create, Goes, LiveInv, TypeOK, Procs
<1>2. SUFFICES ASSUME faults' = 0 PROVE OneStore' /\ OneLivePending'
  BY DEF OneStore, OneLivePending
<1>3. ok /\ faults = 0
  BY <1>2, SuccessOnly DEF Create, LiveInv
<1>4. PICK s \in Subjects : s = loc[p].input.subject
  BY <1>1, InputFields
<1>5. \E a :
        /\ \A t \in Subjects : t # s => Live(t)' \subseteq Live(t)
        /\ Live(s)' \subseteq Live(s) \cup {a}
  <2>1. \A b \in Stored : recs'[b] = recs[b]
    BY CreateKeeps DEF LiveInv
  <2>2. CASE recs' = recs
    BY <2>2 DEF Live, Pending, Stored
  <2>3. ASSUME NEW a \in Ids \ Stored, Stored' = Stored \cup {a},
               recs'[a] = NewRec(loc[p].input)
        PROVE  <1>5
    <3>1. recs'[a].subject = s
      BY <1>4, <2>3 DEF NewRec
    <3>2. \A t \in Subjects : Live(t)' \subseteq Live(t) \cup {a}
      BY <2>1, <2>3 DEF Live, Pending
    <3>3. \A t \in Subjects : t # s => a \notin Live(t)'
      BY <3>1 DEF Live, Pending
    <3>4. QED
      BY <2>3, <3>2, <3>3
  <2>4. QED
    BY <2>2, <2>3, CreateKeeps DEF LiveInv
<1>6. s \notin overlapped => Live(s) = {} /\ \A q \in Storing(s) : q = p
  BY <1>1, <1>3, <1>4 DEF LiveInv, OneStore
<1>7. OneLivePending'
  BY <1>1, <1>3, <1>5, <1>6 DEF LiveInv, OneLivePending
<1>8. \A t \in Subjects : Storing(t)' \subseteq Storing(t)
  BY <1>1 DEF Storing, Procs
<1>9. ASSUME NEW q \in Stores, pc'[q] \in {"expiring", "creating"},
             NEW t \in Subjects, loc'[q].input.subject = t, t \notin overlapped'
      PROVE  /\ \A r \in Storing(t)' : r = q
             /\ \A a \in Live(t)' : pc'[q] = "expiring" /\ a = loc'[q].row
  <2>1. q # p /\ pc'[q] = pc[q] /\ loc'[q] = loc[q] /\ q \in Storing(t)
    BY <1>1, <1>9 DEF Procs, Storing
  <2>2. /\ \A r \in Storing(t) : r = q
        /\ \A a \in Live(t) : pc[q] = "expiring" /\ a = loc[q].row
    BY <1>1, <1>3, <1>9, <2>1 DEF LiveInv, OneStore
  <2>3. t # s
    BY <1>1, <1>6, <1>9, <2>1
  <2>4. QED
    BY <1>5, <1>8, <2>1, <2>2, <2>3
<1>10. \A q \in Stores : pc'[q] \in {"expiring", "creating"} => loc'[q].input.subject \in Subjects
  BY <1>1, InputFields DEF LiveInv, TypeOK, Procs
<1>11. QED
  BY <1>7, <1>9, <1>10 DEF OneStore

LEMMA LiveStep == LiveInv /\ [Next]_vars => LiveInv'
<1> SUFFICES ASSUME LiveInv, [Next]_vars PROVE LiveInv'
  OBVIOUS
<1>1. TypeOK'
  BY TypeStep DEF LiveInv
<1> SUFFICES OneStore' /\ OneLivePending'
  BY <1>1 DEF LiveInv
<1> USE DEF history
<1>2. overlapped' \subseteq Subjects
  BY <1>1 DEF TypeOK
<1>3. ASSUME \A s \in Subjects : Live(s)' \subseteq Live(s),
             UNCHANGED <<pc, loc, overlapped, faults>>
      PROVE  OneStore' /\ OneLivePending'
  BY <1>2, <1>3, LiveStays
<1>4. ASSUME NEW p \in Procs,
             (\E a \in Ids : Execute(p, a)) \/ \E i \in loc[p].todo, result \in {"effect", "nothing", "error"} : Act(p, i, result)
      PROVE  OneStore' /\ OneLivePending'
  <2>1. /\ UNCHANGED <<recs, overlapped, faults>>
        /\ \A q \in Stores : pc'[q] = pc[q] /\ loc'[q] = loc[q]
    BY <1>4, RequestsAside DEF LiveInv
  <2>2. \A s \in Subjects : Live(s)' = Live(s)
    BY <2>1 DEF Live, Pending, Stored
  <2>3. QED
    BY <1>2, <2>1, <2>2, LiveStays
<1>5. ASSUME NEW p \in Procs, NEW ok \in BOOLEAN, MarkExecuted(p, ok)
      PROVE  OneStore' /\ OneLivePending'
  <2>1. /\ p \in Requests /\ loc[p].row \in Stored
        /\ loc[p].write \in Statuses \ {"pending"}
    BY <1>5 DEF MarkExecuted, LiveInv, TypeOK, Locals, Statuses
  <2>4. \A s \in Subjects : Live(s)' \subseteq Live(s)
    <3>1. ASSUME ok PROVE \A s \in Subjects : Live(s)' \subseteq Live(s)
      BY <1>5, <2>1, <3>1, MarkRevivesNone DEF MarkExecuted, LiveInv
    <3>2. ASSUME ~ ok PROVE \A s \in Subjects : Live(s)' \subseteq Live(s)
      BY <1>5, <3>2 DEF MarkExecuted, Live, Pending, Stored
    <3>3. QED
      BY <3>1, <3>2
  <2>5. \A q \in Stores : pc'[q] = pc[q] /\ loc'[q] = loc[q]
    BY <1>5, <2>1, ProcAssumption DEF MarkExecuted, Goes, LiveInv, TypeOK, Procs
  <2>6. faults' = 0 => faults = 0
    BY <1>5, SuccessOnly DEF MarkExecuted, LiveInv
  <2>7. QED
    BY <1>2, <1>5, <2>4, <2>5, <2>6, LiveStays DEF MarkExecuted
<1>6. ASSUME NEW a \in Ids, Dismiss(a) \/ Delete(a)
      PROVE  OneStore' /\ OneLivePending'
  <2>1. a \in Stored /\ (Mark(a, "dismissed") \/ Mark(a, "deleted"))
    BY <1>6 DEF Dismiss, Delete, Present
  <2>2. \A s \in Subjects : Live(s)' \subseteq Live(s)
    BY <2>1, MarkRevivesNone DEF Statuses, LiveInv
  <2>3. QED
    BY <1>3, <1>6, <2>2 DEF Dismiss, Delete
<1>7. CASE Scan \/ Tick
  <2>1. RowsKept /\ NoneRevived
    BY <1>7, ScanKeeps, TickKeeps DEF LiveInv
  <2>2. \A s \in Subjects : Live(s)' \subseteq Live(s)
    BY <2>1, LiveShrinks DEF LiveInv
  <2>3. QED
    BY <1>3, <1>7, <2>2 DEF Scan, Tick
<1>8. CASE Crash
  <2>1. faults' # 0
    BY <1>8, NatAssumption DEF Crash, Fault, LiveInv, TypeOK
  <2>2. QED
    BY <2>1 DEF OneStore, OneLivePending
<1>9. CASE UNCHANGED vars
  <2>1. \A s \in Subjects : Live(s)' = Live(s)
    BY <1>9 DEF vars, Live, Pending, Stored
  <2>2. QED
    BY <1>3, <1>9, <2>1 DEF vars
<1>10. QED
  BY <1>4, <1>5, <1>6, <1>7, <1>8, <1>9, LiveFind, LiveExpire, LiveCreate DEF Next, Store, Request

\* Unless stores for a subject overlap or a statement fails, no more than one
\* recommendation for it is pending and young, for any number of stores.
THEOREM OneIsLive == Spec => []OneLivePending
<1>1. Init => LiveInv
  <2>1. Init => \A s \in Subjects : Live(s) = {}
    BY DEF Init, Live, Pending, Stored, NoRec
  <2>2. Init => OneStore /\ OneLivePending
    BY <2>1 DEF Init, OneStore, OneLivePending, Procs
  <2>3. QED
    BY <2>2, TypeInit DEF LiveInv
<1>2. LiveInv => OneLivePending
  BY DEF LiveInv
<1>3. QED
  BY <1>1, <1>2, LiveStep, PTL DEF Spec

-----------------------------------------------------------------------------
(* The status of a row tells what was done for it                          *)

\* What a request about to write "executed" has run so far has passed.
Told ==
    \A p \in Procs : pc[p] = "executing" /\ loc[p].write = "executed" =>
        \A i \in DOMAIN Actions[loc[p].row] : i \in loc[p].todo \/ Passed(loc[p].row, i)

ToldInv == TypeOK /\ Told /\ MarkedAsPerformed

\* Steps that run no action, execute nothing and make nothing pending.
LEMMA ToldStays ==
    ASSUME ToldInv, effects' = effects,
           \A a \in Stored' : recs'[a].status = "executed" =>
               a \in Stored /\ recs[a].status = "executed",
           faults' = 0 => /\ faults = 0
                          /\ \A a \in Stored : recs'[a].status = "pending" => recs[a].status = "pending"
                          /\ \A p \in Requests : pc[p] = "executing" =>
                                 pc'[p] = "executing" /\ loc'[p].row = loc[p].row,
           \A p \in Procs : pc'[p] = "executing" => pc[p] = "executing" /\ loc'[p] = loc[p]
    PROVE  Told' /\ MarkedAsPerformed'
<1>1. \A a, i : Passed(a, i) => Passed(a, i)'
  BY DEF Passed
<1>2. Told'
  BY <1>1 DEF ToldInv, Told
<1>3. ASSUME NEW a \in Stored', recs'[a].status = "executed", NEW i \in DOMAIN Actions[a] PROVE Passed(a, i)'
  BY <1>1, <1>3 DEF ToldInv, MarkedAsPerformed
<1>4. ASSUME faults' = 0, NEW done \in effects', recs'[done[1]].status = "pending"
      PROVE  \E p \in Requests : pc'[p] = "executing" /\ loc'[p].row = done[1]
  <2>1. done \in effects /\ done[1] \in Stored
    BY <1>4 DEF ToldInv, TypeOK
  <2>2. PICK p \in Requests : pc[p] = "executing" /\ loc[p].row = done[1]
    BY <1>4, <2>1 DEF ToldInv, MarkedAsPerformed
  <2>3. QED
    BY <1>4, <2>2
<1>5. QED
  BY <1>2, <1>3, <1>4 DEF MarkedAsPerformed

LEMMA MarkExecutesNone ==
    ASSUME TypeOK, NEW a \in Stored, NEW s \in Statuses \ {"executed", "pending"}, Mark(a, s)
    PROVE  /\ \A b \in Stored' : recs'[b].status = "executed" =>
                  b \in Stored /\ recs[b].status = "executed"
           /\ \A b \in Stored : recs'[b].status = "pending" => recs[b].status = "pending"
BY MarkKeeps DEF Stored

\* A store at work is no request.
LEMMA StoreAside ==
    ASSUME TypeOK, NEW p \in Stores, NEW where \in {"idle", "expiring", "creating"}, NEW what, Goes(p, where, what)
    PROVE  /\ \A q \in Procs : pc'[q] = "executing" => pc[q] = "executing" /\ loc'[q] = loc[q]
           /\ \A q \in Requests : pc'[q] = pc[q] /\ loc'[q] = loc[q]
BY ProcAssumption DEF Goes, TypeOK, Procs

\* An action that has run without an error has passed.
LEMMA ResultPasses ==
    ASSUME NEW kind \in DOMAIN Results, NEW result \in Results[kind], result # "error"
    PROVE  IF "effect" \in Results[kind] THEN result = "effect" ELSE "nothing" \in Results[kind]
BY DEF Results

LEMMA ToldAct ==
    ASSUME ToldInv, NEW p \in Procs, NEW i \in loc[p].todo, NEW result \in {"effect", "nothing", "error"},
           Act(p, i, result)
    PROVE  Told' /\ MarkedAsPerformed'
<1>1. PICK a \in Ids : a = loc[p].row
  BY DEF Act, ToldInv, TypeOK, Stored
<1>2. /\ a \in Stored /\ p \in Requests /\ i \in DOMAIN Actions[a] /\ pc[p] = "executing"
      /\ result \in Results[Actions[a][i]] /\ loc[p].todo \subseteq DOMAIN Actions[a]
  BY <1>1 DEF Act, ToldInv, TypeOK
<1>3. /\ effects' = IF result = "effect" THEN effects \cup {<<a, i>>} ELSE effects
      /\ UNCHANGED <<recs, faults>> /\ Stored' = Stored
  BY <1>1 DEF Act, Stored
<1>4. pc'[p] = "executing" /\ loc'[p] = Running(a, loc[p].todo \ {i}, Outcome(result, loc[p].write))
      /\ \A q \in Procs : q # p => pc'[q] = pc[q] /\ loc'[q] = loc[q]
  BY <1>1 DEF Act, Goes, ToldInv, TypeOK
<1>5. loc'[p].row = a /\ loc'[p].todo = loc[p].todo \ {i} /\ loc'[p].write = Outcome(result, loc[p].write)
  BY <1>4 DEF Running
<1>6. \A b, j : Passed(b, j) => Passed(b, j)'
  BY <1>3 DEF Passed
<1>7. result # "error" => Passed(a, i)'
  <2>1. Actions[a] \in Seq(DOMAIN Results)
    BY <1>1, ActionsAssumption DEF Ids
  <2>2. Actions[a][i] \in DOMAIN Results
    BY <1>2, <2>1
  <2>3. QED
    BY <1>2, <1>3, <2>2, ResultPasses DEF Passed
<1>8. Told'
  <2>1. \A j \in DOMAIN Actions[a] : loc'[p].write = "executed" => j \in loc'[p].todo \/ Passed(a, j)'
    <3>1. loc'[p].write = "executed" => result # "error" /\ loc[p].write = "executed"
      BY <1>5 DEF Outcome
    <3>2. loc[p].write = "executed" => \A j \in DOMAIN Actions[a] : j \in loc[p].todo \/ Passed(a, j)
      BY <1>1, <1>2 DEF ToldInv, Told
    <3>3. QED
      BY <1>5, <1>6, <1>7, <3>1, <3>2
  <2>2. \A q \in Procs : q # p /\ pc'[q] = "executing" /\ loc'[q].write = "executed" =>
           \A j \in DOMAIN Actions[loc'[q].row] : j \in loc'[q].todo \/ Passed(loc[q].row, j)'
    <3>1. SUFFICES ASSUME NEW q \in Procs, q # p, pc'[q] = "executing", loc'[q].write = "executed",
                          NEW j \in DOMAIN Actions[loc'[q].row]
                   PROVE  j \in loc'[q].todo \/ Passed(loc[q].row, j)'
      OBVIOUS
    <3>2. j \in loc[q].todo \/ Passed(loc[q].row, j)
      BY <1>4, <3>1 DEF ToldInv, Told
    <3>3. Passed(loc[q].row, j) => Passed(loc[q].row, j)'
      BY <1>3, <1>4, <3>1 DEF Passed
    <3>4. QED
      BY <1>4, <3>1, <3>2, <3>3
  <2>3. QED
    BY <1>5, <2>1, <2>2 DEF Told, Passed
<1>9. MarkedAsPerformed'
  <2>1. \A b \in Stored' : recs'[b].status = "executed" => \A j \in DOMAIN Actions[b] : Passed(b, j)'
    BY <1>3, <1>6 DEF ToldInv, MarkedAsPerformed
  <2>2. ASSUME faults' = 0, NEW done \in effects', recs'[done[1]].status = "pending"
        PROVE  \E q \in Requests : pc'[q] = "executing" /\ loc'[q].row = done[1]
    <3>1. CASE done = <<a, i>>
      BY <1>2, <1>4, <1>5, <3>1
    <3>2. CASE done \in effects
      <4>1. PICK q \in Requests : pc[q] = "executing" /\ loc[q].row = done[1]
        BY <1>3, <2>2, <3>2 DEF ToldInv, MarkedAsPerformed
      <4>2. pc'[q] = "executing" /\ loc'[q].row = loc[q].row
        BY <1>1, <1>4, <1>5, <4>1 DEF Procs
      <4>3. QED
        BY <4>1, <4>2
    <3>3. QED
      BY <1>3, <2>2, <3>1, <3>2
  <2>3. QED
    BY <2>1, <2>2 DEF MarkedAsPerformed
<1>10. QED
  BY <1>8, <1>9

\* A request begins with all actions before it.
LEMMA ToldExecute ==
    ASSUME ToldInv, NEW p \in Procs, NEW a \in Ids, Execute(p, a)
    PROVE  Told' /\ MarkedAsPerformed'
<1>1. /\ effects' = effects /\ UNCHANGED <<recs, faults>> /\ Stored' = Stored
      /\ \A b, i : Passed(b, i) => Passed(b, i)'
  BY DEF Execute, history, Stored, Passed
<1>2. /\ p \in Requests /\ pc[p] = "idle"
      /\ \A q \in Procs : q # p => pc'[q] = pc[q] /\ loc'[q] = loc[q]
  BY DEF Execute, Goes, ToldInv, TypeOK
<1>3. loc'[p].write = "executed" => loc'[p].row = a /\ loc'[p].todo = DOMAIN Actions[a]
  <2>1. \/ loc'[p] = Running(a, DOMAIN Actions[a], "executed")
        \/ \E i \in DOMAIN Actions[a] : loc'[p] = Running(a, {i}, "accepted")
    BY DEF Execute, Goes, ToldInv, TypeOK
  <2>2. CASE loc'[p] = Running(a, DOMAIN Actions[a], "executed")
    BY <2>2 DEF Running
  <2>3. CASE \E i \in DOMAIN Actions[a] : loc'[p] = Running(a, {i}, "accepted")
    <3>1. loc'[p].write = "accepted"
      BY <2>3 DEF Running
    <3>2. QED
      BY <3>1
  <2>4. QED
    BY <2>1, <2>2, <2>3
<1>4. Told'
  <2>1. SUFFICES ASSUME NEW q \in Procs, pc'[q] = "executing", loc'[q].write = "executed",
                        NEW i \in DOMAIN Actions[loc'[q].row]
                 PROVE  i \in loc'[q].todo \/ Passed(loc[q].row, i)'
    BY DEF Told
  <2>2. CASE q = p
    BY <1>3, <2>1, <2>2
  <2>3. CASE q # p
    <3>1. i \in loc[q].todo \/ Passed(loc[q].row, i)
      BY <1>2, <2>1, <2>3 DEF ToldInv, Told
    <3>2. QED
      BY <1>1, <1>2, <2>1, <2>3, <3>1 DEF Passed
  <2>4. QED
    BY <2>2, <2>3
<1>5. MarkedAsPerformed'
  <2>1. \A b \in Stored' : recs'[b].status = "executed" => \A j \in DOMAIN Actions[b] : Passed(b, j)'
    BY <1>1 DEF ToldInv, MarkedAsPerformed
  <2>2. ASSUME faults' = 0, NEW done \in effects', recs'[done[1]].status = "pending"
        PROVE  \E q \in Requests : pc'[q] = "executing" /\ loc'[q].row = done[1]
    <3>1. PICK q \in Requests : pc[q] = "executing" /\ loc[q].row = done[1]
      BY <1>1, <2>2 DEF ToldInv, MarkedAsPerformed
    <3>2. QED
      BY <1>2, <3>1 DEF Procs
  <2>3. QED
    BY <2>1, <2>2 DEF MarkedAsPerformed
<1>6. QED
  BY <1>4, <1>5

LEMMA ToldMark ==
    ASSUME ToldInv, NEW p \in Procs, NEW ok \in BOOLEAN, MarkExecuted(p, ok)
    PROVE  Told' /\ MarkedAsPerformed'
<1>1. PICK a \in Stored : a = loc[p].row
  BY DEF MarkExecuted, ToldInv, TypeOK
<1>2. /\ loc[p].write \in {"accepted", "executed"} /\ {"accepted", "executed"} \subseteq Statuses
      /\ pc[p] = "executing" /\ effects' = effects
  BY DEF MarkExecuted, ToldInv, TypeOK, Locals, Statuses, history
<1>3. loc[p].write = "executed" => \A i \in DOMAIN Actions[a] : Passed(a, i)
  BY <1>1 DEF MarkExecuted, ToldInv, Told
<1>4. pc'[p] = "idle" /\ \A q \in Procs : q # p => pc'[q] = pc[q] /\ loc'[q] = loc[q]
  BY DEF MarkExecuted, Goes, ToldInv, TypeOK
<1>5. \A b, i : Passed(b, i) => Passed(b, i)'
  BY <1>2 DEF Passed
<1>6. /\ Stored' = Stored
      /\ \A b \in Stored : b # a => recs'[b] = recs[b]
      /\ recs'[a] = recs[a] \/ recs'[a].status \in {"deleted", loc[p].write}
      /\ ok => recs'[a].status \in {"deleted", loc[p].write}
  <2>1. CASE ok
    BY <1>1, <1>2, <2>1, MarkKeeps DEF MarkExecuted, ToldInv, Stored
  <2>2. CASE ~ ok
    BY <2>2 DEF MarkExecuted, Stored
  <2>3. QED
    BY <2>1, <2>2
<1>7. Told'
  <2>1. SUFFICES ASSUME NEW q \in Procs, pc'[q] = "executing", loc'[q].write = "executed",
                        NEW i \in DOMAIN Actions[loc'[q].row]
                 PROVE  i \in loc'[q].todo \/ Passed(loc[q].row, i)'
    BY DEF Told
  <2>2. q # p
    BY <1>4, <2>1
  <2>3. i \in loc[q].todo \/ Passed(loc[q].row, i)
    BY <1>4, <2>1, <2>2 DEF ToldInv, Told
  <2>4. QED
    BY <1>2, <1>4, <2>1, <2>2, <2>3 DEF Passed
<1>8. ASSUME NEW b \in Stored', recs'[b].status = "executed", NEW i \in DOMAIN Actions[b]
      PROVE  Passed(b, i)'
  <2>1. recs[b].status = "executed" \/ (b = a /\ loc[p].write = "executed")
    BY <1>6, <1>8
  <2>2. QED
    BY <1>3, <1>5, <1>6, <1>8, <2>1 DEF ToldInv, MarkedAsPerformed
<1>9. ASSUME faults' = 0, NEW done \in effects', recs'[done[1]].status = "pending"
      PROVE  \E q \in Requests : pc'[q] = "executing" /\ loc'[q].row = done[1]
  <2>1. ok /\ faults = 0
    BY <1>9, SuccessOnly DEF MarkExecuted, ToldInv
  <2>2. done \in effects /\ done[1] \in Stored
    BY <1>2, <1>9 DEF ToldInv, TypeOK
  <2>3. done[1] # a /\ recs[done[1]].status = "pending"
    BY <1>2, <1>6, <1>9, <2>1, <2>2
  <2>4. PICK q \in Requests : pc[q] = "executing" /\ loc[q].row = done[1]
    BY <2>1, <2>2, <2>3 DEF ToldInv, MarkedAsPerformed
  <2>5. q # p
    BY <1>1, <2>3, <2>4
  <2>6. QED
    BY <1>4, <2>4, <2>5 DEF Procs
<1>10. QED
  BY <1>7, <1>8, <1>9 DEF MarkedAsPerformed

LEMMA ToldStep == ToldInv /\ [Next]_vars => ToldInv'
<1> SUFFICES ASSUME ToldInv, [Next]_vars PROVE ToldInv'
  OBVIOUS
<1>1. TypeOK'
  BY TypeStep DEF ToldInv
<1> SUFFICES Told' /\ MarkedAsPerformed'
  BY <1>1 DEF ToldInv
<1>2. ASSUME NEW p \in Procs, NEW in \in Inputs, NEW ok \in BOOLEAN, Find(p, in, ok)
      PROVE  Told' /\ MarkedAsPerformed'
  <2>1. /\ effects' = effects /\ recs' = recs /\ Stored' = Stored /\ p \in Stores
        /\ \E what : Goes(p, "expiring", what) \/ Goes(p, "creating", what)
    BY <1>2 DEF Find, Stored
  <2>2. faults' = 0 => faults = 0
    BY <1>2, SuccessOnly DEF Find, ToldInv
  <2>3. /\ \A q \in Procs : pc'[q] = "executing" => pc[q] = "executing" /\ loc'[q] = loc[q]
        /\ \A q \in Requests : pc'[q] = pc[q] /\ loc'[q] = loc[q]
    BY <2>1, StoreAside DEF ToldInv
  <2>4. QED
    BY <2>1, <2>2, <2>3, ToldStays
<1>3. ASSUME NEW p \in Procs, NEW ok \in BOOLEAN, Expire(p, ok)
      PROVE  Told' /\ MarkedAsPerformed'
  <2>1. /\ loc[p].row \in Stored /\ "expired" \in Statuses \ {"executed", "pending"}
        /\ p \in Stores /\ effects' = effects
    BY <1>3 DEF Expire, ToldInv, TypeOK, Statuses
  <2>2. /\ \A b \in Stored' : recs'[b].status = "executed" => b \in Stored /\ recs[b].status = "executed"
        /\ \A b \in Stored : recs'[b].status = "pending" => recs[b].status = "pending"
    BY <1>3, <2>1, MarkExecutesNone DEF Expire, ToldInv, Stored
  <2>3. /\ \A q \in Procs : pc'[q] = "executing" => pc[q] = "executing" /\ loc'[q] = loc[q]
        /\ \A q \in Requests : pc'[q] = pc[q] /\ loc'[q] = loc[q]
    BY <1>3, <2>1, StoreAside DEF Expire, ToldInv
  <2>4. faults' = 0 => faults = 0
    BY <1>3, SuccessOnly DEF Expire, ToldInv
  <2>5. QED
    BY <2>1, <2>2, <2>3, <2>4, ToldStays
<1>4. ASSUME NEW p \in Procs, NEW ok \in BOOLEAN, Create(p, ok)
      PROVE  Told' /\ MarkedAsPerformed'
  <2>1. \A b \in Stored : recs'[b] = recs[b]
    BY <1>4, CreateKeeps DEF ToldInv
  <2>2. \A b \in Stored' : b \notin Stored => recs'[b].status # "executed"
    <3>1. NewRec(loc[p].input).status = "pending"
      BY DEF NewRec
    <3>2. QED
      BY <1>4, <3>1, CreateKeeps DEF ToldInv, Stored
  <2>3. p \in Stores /\ effects' = effects
    BY <1>4 DEF Create, ToldInv, TypeOK
  <2>4. /\ \A q \in Procs : pc'[q] = "executing" => pc[q] = "executing" /\ loc'[q] = loc[q]
        /\ \A q \in Requests : pc'[q] = pc[q] /\ loc'[q] = loc[q]
    BY <1>4, <2>3, StoreAside DEF Create, ToldInv
  <2>5. faults' = 0 => faults = 0
    BY <1>4, SuccessOnly DEF Create, ToldInv
  <2>6. QED
    BY <2>1, <2>2, <2>3, <2>4, <2>5, ToldStays
<1>5. ASSUME NEW a \in Ids, Dismiss(a) \/ Delete(a)
      PROVE  Told' /\ MarkedAsPerformed'
  <2>1. /\ a \in Stored /\ (Mark(a, "dismissed") \/ Mark(a, "deleted"))
        /\ UNCHANGED <<pc, loc, effects, faults>>
    BY <1>5 DEF Dismiss, Delete, Present, history
  <2>2. /\ \A b \in Stored' : recs'[b].status = "executed" => b \in Stored /\ recs[b].status = "executed"
        /\ \A b \in Stored : recs'[b].status = "pending" => recs[b].status = "pending"
    BY <2>1, MarkExecutesNone DEF Statuses, ToldInv
  <2>3. QED
    BY <2>1, <2>2, ToldStays
<1>6. CASE Scan \/ Tick
  BY <1>6, ScanKeeps, TickKeeps, ToldStays DEF Scan, Tick, NoneRevived, ToldInv, history
<1>7. CASE Crash
  <2>1. faults' # 0
    BY <1>7, NatAssumption DEF Crash, Fault, ToldInv, TypeOK
  <2>2. QED
    BY <1>7, <2>1, ToldStays DEF Crash, Stored, history
<1>8. CASE UNCHANGED vars
  BY <1>8, ToldStays DEF vars, Stored
<1>9. QED
  BY <1>2, <1>3, <1>4, <1>5, <1>6, <1>7, <1>8, ToldAct, ToldExecute, ToldMark DEF Next, Store, Request

\* Whatever crashes, overlaps or fails, every action with an effect of an executed
\* recommendation took effect, and without a fault nothing has been done for a pending one
\* that no request is at.
THEOREM ExecutedTellsTrue == Spec => []MarkedAsPerformed
<1>1. Init => ToldInv
  BY TypeInit DEF Init, ToldInv, Told, MarkedAsPerformed, Stored, NoRec
<1>2. ToldInv => MarkedAsPerformed
  BY DEF ToldInv
<1>3. QED
  BY <1>1, <1>2, ToldStep, PTL DEF Spec

-----------------------------------------------------------------------------
(* What is expired early is replaced                                       *)

BetterStored(a) ==
    \E b \in Stored : /\ recs[b].subject = recs[a].subject
                      /\ recs[b].rank = replaced[a] /\ recs[b].rank < recs[a].rank

\* p is about to store what the row a was expired for.
Brings(p, a) ==
    /\ pc[p] = "creating" /\ loc[p].row = a
    /\ loc[p].input.subject = recs[a].subject
    /\ loc[p].input.rank = replaced[a] /\ loc[p].input.rank < recs[a].rank

\* Only stored rows have been replaced; a store expires a row of its own subject and
\* of a lower priority; a replaced row has its better one, stored or coming.
Replacing ==
    /\ \A a \in Ids \ Stored : replaced[a] = 0
    /\ \A p \in Stores : pc[p] = "expiring" =>
          /\ loc[p].input.subject = recs[loc[p].row].subject
          /\ loc[p].input.rank < recs[loc[p].row].rank
    /\ faults = 0 =>
          \A a \in Stored \ refused : replaced[a] # 0 =>
              BetterStored(a) \/ \E p \in Stores : Brings(p, a)

ReplacedInv == TypeOK /\ Replacing

LEMMA ReplacingStays ==
    ASSUME ReplacedInv, RowsKept, Stored' = Stored, faults' = 0 => faults = 0,
           replaced' = replaced, refused' = refused,
           \A p \in Stores : pc'[p] = pc[p] /\ loc'[p] = loc[p]
    PROVE  Replacing'
<1>1. \A p \in Stores : pc[p] = "expiring" => loc[p].row \in Stored
  BY DEF ReplacedInv, TypeOK, Procs
<1>2. ASSUME NEW p \in Stores, pc'[p] = "expiring"
      PROVE  /\ loc'[p].input.subject = recs'[loc'[p].row].subject
             /\ loc'[p].input.rank < recs'[loc'[p].row].rank
  BY <1>1, <1>2 DEF ReplacedInv, Replacing, RowsKept
<1>3. ASSUME NEW a \in Stored
      PROVE  /\ BetterStored(a) => BetterStored(a)'
             /\ \A p \in Stores : Brings(p, a) => Brings(p, a)'
  BY <1>3 DEF BetterStored, Brings, RowsKept
<1>4. QED
  BY <1>2, <1>3 DEF ReplacedInv, Replacing

LEMMA ReplacingFind ==
    ASSUME ReplacedInv, NEW p \in Procs, NEW in \in Inputs, NEW ok \in BOOLEAN, Find(p, in, ok)
    PROVE  Replacing'
<1>1. /\ pc[p] = "idle" /\ UNCHANGED <<recs, replaced, refused>> /\ Stored' = Stored
      /\ \A q \in Procs : q # p => pc'[q] = pc[q] /\ loc'[q] = loc[q]
      /\ faults' = 0 => faults = 0
  BY SuccessOnly DEF Find, Goes, Stored, ReplacedInv, TypeOK
<1>2. ASSUME pc'[p] = "expiring"
      PROVE  /\ loc'[p].input.subject = recs[loc'[p].row].subject
             /\ loc'[p].input.rank < recs[loc'[p].row].rank
  <2>1. PICK a \in Found(in.subject) :
            Better(in.rank, a) /\ loc'[p] = Holding(in, a)
    BY <1>2 DEF Find, Goes, ReplacedInv, TypeOK
  <2>2. loc'[p].input = in /\ loc'[p].row = a
    BY <2>1 DEF Holding
  <2>3. QED
    BY <2>1, <2>2 DEF Found, Pending, Better
<1>3. \A q \in Stores : pc'[q] = "expiring" =>
          /\ loc'[q].input.subject = recs[loc'[q].row].subject
          /\ loc'[q].input.rank < recs[loc'[q].row].rank
  BY <1>1, <1>2 DEF ReplacedInv, Replacing, Procs
<1>4. \A a \in Stored : BetterStored(a) => BetterStored(a)'
  BY <1>1 DEF BetterStored
<1>5. \A a \in Stored, q \in Stores : Brings(q, a) => Brings(q, a)'
  BY <1>1 DEF Brings, Procs
<1>6. QED
  BY <1>1, <1>3, <1>4, <1>5 DEF ReplacedInv, Replacing

LEMMA ReplacingExpire ==
    ASSUME ReplacedInv, NEW p \in Procs, NEW ok \in BOOLEAN, Expire(p, ok)
    PROVE  Replacing'
<1>1. /\ p \in Stores /\ pc[p] = "expiring" /\ pc'[p] = "creating"
      /\ loc[p].row \in Stored /\ loc[p].row \in Ids /\ refused' = refused
      /\ \A q \in Procs : loc'[q] = loc[q] /\ (q # p => pc'[q] = pc[q])
  BY DEF Expire, Goes, ReplacedInv, TypeOK, Stored
<1>2. RowsKept /\ Stored' = Stored
  BY <1>1, MarkKeeps DEF Expire, RowsKept, ReplacedInv, TypeOK, Stored, Statuses
<1>3. \A a \in Ids : a # loc[p].row => replaced'[a] = replaced[a]
  BY DEF Expire, ReplacedInv, TypeOK
<1>4. \A q \in Stores : pc'[q] = "expiring" =>
          /\ loc'[q].input.subject = recs'[loc'[q].row].subject
          /\ loc'[q].input.rank < recs'[loc'[q].row].rank
  <2>1. \A q \in Stores : pc[q] = "expiring" => loc[q].row \in Stored
    BY DEF ReplacedInv, TypeOK, Procs
  <2>2. QED
    BY <1>1, <1>2, <2>1 DEF ReplacedInv, Replacing, RowsKept, Procs
<1>5. ASSUME faults' = 0, NEW a \in Stored \ refused, replaced'[a] # 0
      PROVE  BetterStored(a)' \/ \E q \in Stores : Brings(q, a)'
  <2>1. ok /\ faults = 0
    BY <1>5, SuccessOnly DEF Expire, ReplacedInv
  <2>2. CASE a = loc[p].row
    <3>1. replaced'[a] = loc[p].input.rank
      BY <1>1, <2>1, <2>2 DEF Expire, ReplacedInv, TypeOK
    <3>2. /\ loc[p].input.subject = recs'[a].subject
          /\ loc[p].input.rank < recs'[a].rank
      BY <1>1, <1>2, <2>2 DEF ReplacedInv, Replacing, RowsKept
    <3>3. Brings(p, a)'
      BY <1>1, <2>2, <3>1, <3>2 DEF Brings
    <3>4. QED
      BY <1>1, <3>3
  <2>3. CASE a # loc[p].row
    <3>1. replaced'[a] = replaced[a]
      BY <1>3, <2>3 DEF Stored
    <3>2. BetterStored(a) => BetterStored(a)'
      BY <1>2, <3>1 DEF BetterStored, RowsKept
    <3>3. \A q \in Stores : Brings(q, a) => Brings(q, a)'
      BY <1>1, <1>2, <3>1 DEF Brings, RowsKept, Procs
    <3>4. QED
      BY <1>5, <2>1, <3>1, <3>2, <3>3 DEF ReplacedInv, Replacing
  <2>4. QED
    BY <2>2, <2>3
<1>6. QED
  BY <1>1, <1>2, <1>3, <1>4, <1>5 DEF ReplacedInv, Replacing

LEMMA ReplacingCreate ==
    ASSUME ReplacedInv, NEW p \in Procs, NEW ok \in BOOLEAN, Create(p, ok)
    PROVE  Replacing'
<1>1. /\ p \in Stores /\ pc[p] = "creating" /\ pc'[p] = "idle" /\ replaced' = replaced
      /\ \A q \in Procs : q # p => loc'[q] = loc[q] /\ pc'[q] = pc[q]
  BY DEF Create, Goes, ReplacedInv, TypeOK
<1>2. RowsKept /\ Stored \subseteq Stored' /\ Stored' \subseteq Ids
  BY CreateKeeps DEF ReplacedInv, RowsKept, Stored
<1>3. \A q \in Stores : pc'[q] = "expiring" =>
          /\ loc'[q].input.subject = recs'[loc'[q].row].subject
          /\ loc'[q].input.rank < recs'[loc'[q].row].rank
  <2>1. \A q \in Stores : pc[q] = "expiring" => loc[q].row \in Stored
    BY DEF ReplacedInv, TypeOK, Procs
  <2>2. QED
    BY <1>1, <1>2, <2>1 DEF ReplacedInv, Replacing, RowsKept, Procs
<1>4. ASSUME faults' = 0, NEW a \in Stored' \ refused', replaced'[a] # 0
      PROVE  BetterStored(a)' \/ \E q \in Stores : Brings(q, a)'
  <2>1. ok /\ faults = 0
    BY <1>4, SuccessOnly DEF Create, ReplacedInv
  <2>2. a \in Stored \ refused
    BY <1>1, <1>2, <1>4 DEF Create, ReplacedInv, Replacing
  <2>3. BetterStored(a) => BetterStored(a)'
    BY <1>1, <1>2, <2>2 DEF BetterStored, RowsKept
  <2>4. \A q \in Stores : q # p /\ Brings(q, a) => Brings(q, a)'
    BY <1>1, <1>2, <2>2 DEF Brings, RowsKept, Procs
  <2>5. Brings(p, a) => BetterStored(a)'
    <3>1. SUFFICES ASSUME Brings(p, a) PROVE BetterStored(a)'
      OBVIOUS
    <3>2. a # 0 /\ loc[p].row = a
      BY <2>2, <3>1, NatAssumption DEF Brings, Stored, Ids
    <3>3. Accepted(loc[p].input.source)
      BY <1>4, <3>2 DEF Create
    <3>4. PICK b \in Ids \ Stored :
              Stored' = Stored \cup {b} /\ recs'[b] = NewRec(loc[p].input)
      BY <2>1, <3>3, CreateKeeps DEF ReplacedInv
    <3>5. recs'[b].subject = loc[p].input.subject /\ recs'[b].rank = loc[p].input.rank
      BY <3>4 DEF NewRec
    <3>6. recs'[a].subject = recs[a].subject /\ recs'[a].rank = recs[a].rank
      BY <1>2, <2>2 DEF RowsKept
    <3>7. QED
      BY <1>1, <3>1, <3>4, <3>5, <3>6 DEF Brings, BetterStored
  <2>6. QED
    BY <1>1, <1>4, <2>1, <2>2, <2>3, <2>4, <2>5 DEF ReplacedInv, Replacing
<1>5. QED
  BY <1>1, <1>2, <1>3, <1>4 DEF ReplacedInv, Replacing

LEMMA ReplacingStep == ReplacedInv /\ [Next]_vars => ReplacedInv'
<1> SUFFICES ASSUME ReplacedInv, [Next]_vars PROVE ReplacedInv'
  OBVIOUS
<1>1. TypeOK'
  BY TypeStep DEF ReplacedInv
<1> SUFFICES Replacing'
  BY <1>1 DEF ReplacedInv
<1> USE DEF history
<1>2. ASSUME RowsKept, Stored' = Stored, UNCHANGED <<pc, loc, replaced, refused, faults>>
      PROVE  Replacing'
  BY <1>2, ReplacingStays
<1>3. recs' = recs => RowsKept /\ Stored' = Stored
  BY DEF ReplacedInv, TypeOK, RowsKept, Stored
<1>4. ASSUME NEW p \in Procs,
             (\E a \in Ids : Execute(p, a)) \/ \E i \in loc[p].todo, result \in {"effect", "nothing", "error"} : Act(p, i, result)
      PROVE  Replacing'
  <2>1. /\ UNCHANGED <<recs, replaced, refused, faults>>
        /\ \A q \in Stores : pc'[q] = pc[q] /\ loc'[q] = loc[q]
    BY <1>4, RequestsAside DEF ReplacedInv
  <2>2. QED
    BY <1>3, <2>1, ReplacingStays
<1>5. ASSUME NEW p \in Procs, NEW ok \in BOOLEAN, MarkExecuted(p, ok)
      PROVE  Replacing'
  <2>1. p \in Requests /\ loc[p].row \in Stored /\ loc[p].write \in Statuses
    BY <1>5 DEF MarkExecuted, ReplacedInv, TypeOK, Locals, Statuses
  <2>2. RowsKept /\ Stored' = Stored
    BY <1>3, <1>5, <2>1, MarkKeeps DEF MarkExecuted, ReplacedInv
  <2>3. \A q \in Stores : pc'[q] = pc[q] /\ loc'[q] = loc[q]
    BY <1>5, <2>1, ProcAssumption DEF MarkExecuted, Goes, ReplacedInv, TypeOK, Procs
  <2>4. faults' = 0 => faults = 0
    BY <1>5, SuccessOnly DEF MarkExecuted, ReplacedInv
  <2>5. QED
    BY <1>5, <2>2, <2>3, <2>4, ReplacingStays DEF MarkExecuted
<1>6. ASSUME NEW a \in Ids, Dismiss(a) \/ Delete(a)
      PROVE  Replacing'
  <2>1. a \in Stored /\ (Mark(a, "dismissed") \/ Mark(a, "deleted"))
    BY <1>6 DEF Dismiss, Delete, Present
  <2>2. RowsKept /\ Stored' = Stored
    BY <2>1, MarkKeeps DEF Statuses, ReplacedInv
  <2>3. QED
    BY <1>2, <1>6, <2>2 DEF Dismiss, Delete
<1>7. CASE Scan \/ Tick
  BY <1>2, <1>7, ScanKeeps, TickKeeps DEF Scan, Tick, NoneRevived, ReplacedInv
<1>8. CASE Crash
  <2>1. faults' # 0 /\ \A p \in Stores : pc'[p] # "expiring"
    BY <1>8, NatAssumption DEF Crash, Fault, ReplacedInv, TypeOK, Procs
  <2>2. QED
    BY <1>8, <2>1 DEF Crash, Replacing, ReplacedInv, Stored
<1>9. CASE UNCHANGED vars
  BY <1>2, <1>3, <1>9 DEF vars
<1>10. QED
  BY <1>4, <1>5, <1>6, <1>7, <1>8, <1>9, ReplacingFind, ReplacingExpire, ReplacingCreate
     DEF Next, Store, Request

\* Unless a statement fails or the CHECK refuses it, a recommendation expired early
\* makes room for a better one of its subject, for any overlap of stores.
THEOREM BetterReplaces == Spec => []ReplacedByBetter
<1>1. Init => ReplacedInv
  BY TypeInit DEF Init, ReplacedInv, Replacing, Stored, NoRec, Procs
<1>2. ReplacedInv => ReplacedByBetter
  BY Zenon DEF ReplacedInv, Replacing, ReplacedByBetter, BetterStored, Brings
<1>3. QED
  BY <1>1, <1>2, ReplacingStep, PTL DEF Spec
=============================================================================
