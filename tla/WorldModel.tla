----------------------------- MODULE WorldModel -----------------------------
(***************************************************************************)
(* The world model of one tenant: internal/worldmodel, the tables          *)
(* world_model_... and cmd/brain/world_model_triggers.go.  After a report  *)
(* a goroutine merges what the LLM found into the tables, statement by     *)
(* statement, and looks for what to recommend.  A nightly job lets         *)
(* confidence decay and another writes the team's insights.                *)
(*                                                                         *)
(* Confidence and strength are in thousandths, as NUMERIC(4,3) holds them. *)
(* A row's age is in days, and the moment of the day at which the decay    *)
(* runs is left open: it is counted as the days gone by or as one more.    *)
(***************************************************************************)
EXTENDS Integers, Sequences, FiniteSets

CONSTANTS
    Workers,       \* goroutines that extract
    Employees,     \* who report
    Names,         \* of skills
    Categories,    \* of blockers
    Pairs,         \* relationships: who, with whom, of which type
    Helps,         \* pairs of a skill's name and a category it contains
    Proficiencies, \* what the LLM says of a skill
    None,
    MaxItems,      \* bound: findings of an extraction
    MaxMentions,   \* bound: mentions of a skill, a pair or a blocker
    MaxBlockers,   \* bound: rows of blockers
    MaxInsights,   \* bound: insights written in a day
    MaxDays,       \* bound: days a row is not seen
    MaxNights,     \* bound: runs of the decay while a row is not seen
    MaxFaults      \* bound: failed statements and crashes

VARIABLES
    skill,    \* the table world_model_skills, by its unique key
    tie,      \* the table world_model_relationships, by its unique key
    blocker,  \* the table world_model_blockers, by the order of creation
    insights, \* the table world_model_insights: rows by their age in days
    work,     \* where each goroutine is and what it has read
    reported, \* history: the mentions of each blocker in the reports
    lost,     \* history: those a failed statement or a crash dropped
    advised,  \* history: what the goroutines recommended
    racing,   \* history: how often a mention was looked for while another
              \* goroutine was about to write one, or its search failed
    faults    \* history: the number of faults

vars == <<skill, tie, blocker, insights, work, reported, lost, advised, racing, faults>>

Skills == Employees \X Names
Problems == Employees \X Categories
NoSkill == [seen |-> 0, sure |-> 0, days |-> 0, runs |-> 0]
Growth == [kind |-> "growth"]
Idle == [at |-> "idle", who |-> None, todo |-> {}, item |-> None, found |-> 0]
At(p, l) == work[p].at = l

\* What the LLM may find in a report of e.
Items(e) ==
    {[kind |-> "skill", of |-> <<e, n>>, as |-> l] : n \in Names, l \in Proficiencies}
    \cup {[kind |-> "tie", of |-> r] : r \in {x \in Pairs : e \in {x[1], x[2]}}}
    \cup {[kind |-> "blocker", of |-> <<e, c>>, resolved |-> b] : c \in Categories, b \in BOOLEAN}
    \cup {Growth}

-----------------------------------------------------------------------------
(* Queries                                                                 *)

Least(a, b) == IF a <= b THEN a ELSE b
Greatest(a, b) == IF a >= b THEN a ELSE b

\* proficiencyToConfidence.
Confidence(l) ==
    CASE l = "expert" -> 950
      [] l = "high" -> 800
      [] l = "medium" -> 600
      [] l = "low" -> 400
      [] OTHER -> 500

\* UpsertWorldModelSkill.
UpsertSkill(k, l) ==
    skill' = [skill EXCEPT ![k] =
       [seen |-> @.seen + 1, sure |-> Greatest(@.sure, Confidence(l)), days |-> 0, runs |-> 0]]

\* UpsertWorldModelRelationship.
UpsertTie(r) ==
    tie' = [tie EXCEPT ![r] =
       [seen |-> @.seen + 1, sure |-> IF @.seen = 0 THEN 500 ELSE Least(1000, @.sure + 100),
        days |-> 0, runs |-> 0]]

Rows == 1 .. Len(blocker)
Of(b) == <<blocker[b].who, blocker[b].category>>
Active(b) == blocker[b].status \in {"active", "recurring"}

\* FindSimilarBlocker: the latest of them, or 0.
FindSimilar(k) ==
    LET same == {b \in Rows : Of(b) = k /\ blocker[b].status # "resolved"}
    IN  IF same = {} THEN 0 ELSE CHOOSE b \in same : \A c \in same : c <= b

CreateBlocker(k) ==
    /\ Len(blocker) < MaxBlockers
    /\ blocker' = Append(blocker,
          [who |-> k[1], category |-> k[2], status |-> "active", recurrence |-> 1])

Sets(b, status, n) ==
    blocker' = [blocker EXCEPT ![b] =
       [who |-> blocker[b].who, category |-> blocker[b].category, status |-> status, recurrence |-> n]]

\* ResolveBlocker, by the row's id.
Resolve(b) == Sets(b, "resolved", blocker[b].recurrence)

\* A mutation: the count that was read is written back.
IncrementStale(b) == Sets(b, "recurring", 2)

\* IncrementBlockerRecurrence, by the row's id and whatever its status.
Increment(b) == Sets(b, "recurring", blocker[b].recurrence + 1)

\* What the lists and the LLM are shown: ListSkillsByTenant and
\* ListActiveBlockersByTenant.
ShownSkills == {k \in Skills : skill[k].sure >= 200}
ActiveBlockers == {b \in Rows : Active(b)}

\* GetEscalatingBlockers and GetActiveBlockersByEmployee.
Escalating == {b \in ActiveBlockers : blocker[b].recurrence >= 3}
ActiveOf(e) == {b \in ActiveBlockers : blocker[b].who = e}

\* FindSkillMatchForBlocker: the surest other employee with such a skill.
Matches(b) == {k \in Skills : <<k[2], blocker[b].category>> \in Helps
                              /\ skill[k].sure > 600 /\ k[1] # blocker[b].who}
Best(s) == {k \in s : \A l \in s : skill[l].sure <= skill[k].sure}

-----------------------------------------------------------------------------
Init ==
    /\ skill = [k \in Skills |-> NoSkill]
    /\ tie = [r \in Pairs |-> NoSkill]
    /\ blocker = <<>>
    /\ insights = [d \in 0 .. 2 |-> 0]
    /\ work = [p \in Workers |-> Idle]
    /\ reported = [k \in Problems |-> 0]
    /\ lost = [k \in Problems |-> 0]
    /\ advised = {}
    /\ racing = [k \in Problems |-> 0]
    /\ faults = 0

Fault == faults < MaxFaults /\ faults' = faults + 1
Written(ok) == IF ok THEN UNCHANGED faults ELSE Fault
Goes(p, l, todo, item, found) ==
    work' = [work EXCEPT ![p] =
       [at |-> l, who |-> work[p].who, todo |-> todo, item |-> item, found |-> found]]

\* mergeResults goes by kind: skills, relationships, blockers, growth events.
Rank(i) == CASE i.kind = "skill" -> 1 [] i.kind = "tie" -> 2
             [] i.kind = "blocker" -> 3 [] OTHER -> 4
Turn(p, i) ==
    /\ At(p, "merge")
    /\ i \in work[p].todo /\ \A j \in work[p].todo : Rank(i) <= Rank(j)
Rest(p, i) == Goes(p, "merge", work[p].todo \ {i}, None, 0)

\* The mentions of a blocker that goroutines have still to write.
Mention(k) == [kind |-> "blocker", of |-> k, resolved |-> FALSE]
Writing(k) == {p \in Workers : At(p, "write") /\ work[p].item = Mention(k)}
Carrying(k) == Writing(k) \cup {p \in Workers : Mention(k) \in work[p].todo}

\* A report was saved: the goroutine reads the employee's model, which only
\* guides the LLM, and gets its findings.
Report(p, e) ==
    /\ At(p, "idle")
    /\ \E s \in SUBSET Items(e) :
          /\ s # {} /\ Cardinality(s) <= MaxItems
          /\ work' = [work EXCEPT ![p] =
                [at |-> "merge", who |-> e, todo |-> s, item |-> None, found |-> 0]]
          /\ reported' = [k \in Problems |-> reported[k] + IF Mention(k) \in s THEN 1 ELSE 0]
          /\ \A k \in Problems : reported'[k] <= MaxMentions
    /\ UNCHANGED <<skill, tie, blocker, insights, lost, advised, racing, faults>>

\* An upsert; its error is logged.
MergeSkill(p, i) ==
    /\ Turn(p, i) /\ i.kind = "skill" /\ skill[i.of].seen < MaxMentions
    /\ \/ UpsertSkill(i.of, i.as) /\ UNCHANGED faults
       \/ Fault /\ UNCHANGED skill
    /\ Rest(p, i)
    /\ UNCHANGED <<tie, blocker, insights, reported, lost, advised, racing>>

\* The colleague's name is looked for, and a pair that collaborates is put in
\* the order of the ids; a name that is not found is skipped.
MergeTie(p, i) ==
    /\ Turn(p, i) /\ i.kind = "tie" /\ tie[i.of].seen < MaxMentions
    /\ \/ UpsertTie(i.of) /\ UNCHANGED faults
       \/ UNCHANGED <<tie, faults>>
       \/ Fault /\ UNCHANGED tie
    /\ Rest(p, i)
    /\ UNCHANGED <<skill, blocker, insights, reported, lost, advised, racing>>

\* A row for the event; nothing here reads it.
MergeGrowth(p, i) ==
    /\ Turn(p, i) /\ i.kind = "growth"
    /\ Rest(p, i)
    /\ UNCHANGED <<skill, tie, blocker, insights, reported, lost, advised, racing, faults>>

\* A blocker is looked for by its category; an error counts as none found.
MergeBlocker(p, i) ==
    /\ Turn(p, i) /\ i.kind = "blocker"
    /\ \E ok \in BOOLEAN :
          /\ Written(ok)
          /\ Goes(p, "write", work[p].todo \ {i}, i, IF ok THEN FindSimilar(i.of) ELSE 0)
          /\ racing' = [racing EXCEPT ![i.of] =
                IF ~i.resolved /\ (Writing(i.of) # {} \/ ~ok) THEN @ + 1 ELSE @]
    /\ UNCHANGED <<skill, tie, blocker, insights, reported, lost, advised>>

\* Then it is resolved, counted or created; that it failed is not looked at,
\* and a mention is lost.
WriteBlocker(p) ==
    LET i == work[p].item
        b == work[p].found
    IN  /\ At(p, "write")
        /\ \/ /\ i.resolved
              /\ IF b = 0 THEN UNCHANGED blocker ELSE Resolve(b)
              /\ UNCHANGED <<lost, faults>>
           \/ /\ ~i.resolved
              /\ IF b = 0 THEN CreateBlocker(i.of) ELSE Increment(b)
              /\ UNCHANGED <<lost, faults>>
           \/ /\ Fault
              /\ lost' = [lost EXCEPT ![i.of] = IF i.resolved THEN @ ELSE @ + 1]
              /\ UNCHANGED blocker
        /\ Goes(p, "merge", work[p].todo, None, 0)
        /\ UNCHANGED <<skill, tie, insights, reported, advised, racing>>

-----------------------------------------------------------------------------
(* Recommendations                                                         *)

Score == [positive |-> 3, neutral |-> 2, negative |-> 1]

\* isDecliningSentiment of the last three reports, the latest first.
Declining(t) ==
    /\ Len(t) >= 3
    /\ Score[t[1]] < Score[t[Len(t)]]
    /\ \A n \in 1 .. Len(t) - 1 : Score[t[n]] <= Score[t[n + 1]]

Sentiments == UNION {[1 .. n -> DOMAIN Score] : n \in {2, 3}}

\* evaluateWorldModelTriggers: escalation of the employee's blockers, one match
\* of a blocker with a helper, and the compound risk.  The statements only
\* read, and the recommendations are stored by another module.
Escalations(e) == {<<"escalation", Of(b)>> : b \in {c \in Escalating : blocker[c].who = e}}
Match(e) ==
    LET helped == {b \in ActiveOf(e) : Matches(b) # {}}
        first == {b \in helped : \A c \in helped : blocker[c].recurrence <= blocker[b].recurrence}
    IN  UNION {{<<"match", Of(b), k[1]>> : k \in Best(Matches(b))} : b \in first}
Risk(e, t) == IF ActiveOf(e) # {} /\ Declining(t) THEN {<<"risk", e>>} ELSE {}

Trigger(p) ==
    LET e == work[p].who
    IN  /\ At(p, "merge") /\ work[p].todo = {}
        /\ \E t \in Sentiments :
              \E m \in IF Match(e) = {} THEN {{}} ELSE {{x} : x \in Match(e)} :
                 advised' = advised \cup Escalations(e) \cup Risk(e, t) \cup m
        /\ work' = [work EXCEPT ![p] = Idle]
        /\ UNCHANGED <<skill, tie, blocker, insights, reported, lost, racing, faults>>

-----------------------------------------------------------------------------
(* Jobs                                                                    *)

\* 0.95 to the power of an age of 0 to 8 days over 7, in ten-thousandths.
Weekly == <<10000, 9927, 9855, 9783, 9711, 9640, 9570, 9500, 9431>>
Weight(x, late) == Weekly[x.days + (IF late THEN 2 ELSE 1)]

\* A strength, rounded as its column rounds.
Aged(x, late) == (x.sure * Weight(x, late) + 5000) \div 10000

\* A mutation: what was seen once is dropped.
FadedOnce(x, late) == (x.sure * Weight(x, late) * Least(x.seen - 1, 10) + 25000) \div 50000

\* DecaySkillConfidence of a row, with no upper limit: what the last run left is
\* multiplied again, by its age and by LEAST(mention_count / 5, 2).
Faded(x, late) == (x.sure * Weight(x, late) * Least(x.seen, 10) + 25000) \div 50000

Known == {k \in Skills : skill[k].seen > 0}
Met == {r \in Pairs : tie[r].seen > 0}
Rated(x, sure) == [seen |-> x.seen, sure |-> Greatest(50, sure), days |-> x.days, runs |-> x.runs + 1]

\* A confidence of ten or more does not fit its column, and the statement fails
\* for every row.
DecaySkillConfidence ==
    \E late \in [Skills -> BOOLEAN] :
       skill' = IF \E k \in Known : Faded(skill[k], late[k]) > 9999 THEN skill
                ELSE [k \in Skills |-> IF k \in Known THEN Rated(skill[k], Faded(skill[k], late[k]))
                                       ELSE skill[k]]

DecayRelationshipStrength ==
    \E late \in [Pairs -> BOOLEAN] :
       tie' = [r \in Pairs |-> IF r \in Met THEN Rated(tie[r], Aged(tie[r], late[r])) ELSE tie[r]]

\* The job wm_decay, at night or once more after a restart; an error of the one
\* statement does not keep it from the other.
Decay ==
    /\ \A k \in Skills : skill[k].runs < MaxNights
    /\ \A r \in Pairs : tie[r].runs < MaxNights
    /\ DecaySkillConfidence
    /\ DecayRelationshipStrength
    /\ UNCHANGED <<blocker, insights, work, reported, lost, advised, racing, faults>>

\* ExpireOldInsights: of those expired for a day or more.
ExpireOldInsights(i) == [i EXCEPT ![2] = 0]
\* CreateWorldModelInsight, n times.
CreateInsights(i, n) == [i EXCEPT ![0] = @ + n]

\* GenerateForTenant, once a day: the old ones go and the new ones are written;
\* without a skill or a blocker, or if the LLM fails, nothing happens.
Insights(n) ==
    /\ ShownSkills # {} \/ ActiveBlockers # {}
    /\ insights[0] + n <= MaxInsights
    /\ insights' = CreateInsights(ExpireOldInsights(insights), n)
    /\ UNCHANGED <<skill, tie, blocker, work, reported, lost, advised, racing, faults>>

Older(x) == IF x.seen > 0 THEN [x EXCEPT !.days = @ + 1] ELSE x
Day ==
    /\ skill' = [k \in Skills |-> Older(skill[k])] /\ \A k \in Skills : skill'[k].days <= MaxDays
    /\ tie' = [r \in Pairs |-> Older(tie[r])] /\ \A r \in Pairs : tie'[r].days <= MaxDays
    /\ insights' = [d \in 0 .. 2 |->
          IF d = 0 THEN 0 ELSE IF d = 1 THEN insights[0] ELSE insights[1] + insights[2]]
    /\ insights'[2] <= MaxInsights
    /\ UNCHANGED <<blocker, work, reported, lost, advised, racing, faults>>

\* The process ends, and with it the goroutines and what they had to write.
Crash ==
    /\ Fault
    /\ work' = [p \in Workers |-> Idle]
    /\ lost' = [k \in Problems |-> lost[k] + Cardinality(Carrying(k))]
    /\ UNCHANGED <<skill, tie, blocker, insights, reported, advised, racing>>

Next ==
    \/ \E p \in Workers :
          \/ \E e \in Employees : Report(p, e)
          \/ \E i \in work[p].todo : \/ MergeSkill(p, i) \/ MergeTie(p, i) \/ MergeGrowth(p, i)
                                     \/ MergeBlocker(p, i)
          \/ WriteBlocker(p) \/ Trigger(p)
    \/ Decay \/ Day
    \/ \E n \in 1 .. MaxInsights : Insights(n)
    \/ Crash

Spec == Init /\ [][Next]_vars

-----------------------------------------------------------------------------
(* Properties                                                              *)

\* How often the rows of a blocker say it was mentioned.
Counted(k) ==
    LET sum[n \in 0 .. Len(blocker)] ==
            IF n = 0 THEN 0 ELSE sum[n - 1] + (IF Of(n) = k THEN blocker[n].recurrence ELSE 0)
    IN  sum[Len(blocker)]

\* Every variable holds a value of its type; the columns fit.
TypeOK ==
    /\ \A k \in Skills : skill[k].sure \in 0 .. 9999 /\ skill[k].days \in 0 .. MaxDays
    /\ \A r \in Pairs : tie[r].sure \in 0 .. 1000
    /\ \A b \in Rows : Of(b) \in Problems
                       /\ blocker[b].status \in {"active", "recurring", "resolved"}
    /\ insights \in [0 .. 2 -> 0 .. MaxInsights]
    /\ \A p \in Workers : work[p].at \in {"idle", "merge", "write"}
    /\ faults \in 0 .. MaxFaults

\* Every mention of a blocker is counted once, in whichever row, is still on its
\* way, or was dropped by a failed write or a crash, whose errors nobody looks at
\* (extractor.go:275-285); and a blocker has at most one open row more than
\* searches for it failed or overlapped another mention's write.
CountedInOneRow ==
    \A k \in Problems :
       /\ reported[k] = Counted(k) + Cardinality(Carrying(k)) + lost[k]
       /\ Cardinality({b \in ActiveBlockers : Of(b) = k}) <= 1 + racing[k]

\* The boss hears that a blocker keeps recurring only after three mentions of it
\* (world_model_triggers.go:31).
AdvisedAfterThree ==
    \A k \in Problems : <<"escalation", k>> \in advised => reported[k] >= 3

\* A skill mentioned five times, and within the week, is shown though each run
\* of the decay multiplies what the last one left, so long as no more than
\* thirteen ran since: a week's nights, and six after restarts (decay.go:28).
OftenMentionedShown ==
    \A k \in Skills : skill[k].seen >= 5 /\ skill[k].days < 7 /\ skill[k].runs <= 13 => k \in ShownSkills

-----------------------------------------------------------------------------
(* What the documents say, which the code does not keep                    *)

\* "math.Min(1.0, result)": no confidence above one.
NeverTooSure == \A k \in Skills : skill[k].sure <= 1000

\* The test's "1 week old" skill, mentioned three times, has at least 0.40.
NeverHiddenNextWeek ==
    \A k \in Skills : skill[k].seen >= 3 /\ skill[k].days <= 7 => skill[k].sure >= 400

\* A blocker has one row that is open.
NeverTwoOpen == \A b, c \in ActiveBlockers : Of(b) = Of(c) => b = c
=============================================================================
