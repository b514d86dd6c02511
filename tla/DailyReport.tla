---------------------------- MODULE DailyReport ----------------------------
(***************************************************************************)
(* What the daily check-in promises to the rest of the system, with no     *)
(* conversation, no handler and no storage in it.  For every employee and  *)
(* every day there is at most one report; it is announced on the event bus *)
(* at most once, and only after it has been saved; it is analysed only     *)
(* after it has been saved.  CheckIn is shown to implement this module.    *)
(***************************************************************************)
EXTENDS Naturals

CONSTANTS Employees, Days

VARIABLES
    saved,      \* the <<employee, day>> pairs that have a report
    announced,  \* how often ReportSubmitted was published for each pair
    analysed    \* the pairs whose report carries blockers and sentiment

vars == <<saved, announced, analysed>>

Key == Employees \X Days

Init ==
    /\ saved = {}
    /\ announced = [k \in Key |-> 0]
    /\ analysed = {}

Save(k) ==
    /\ k \notin saved
    /\ saved' = saved \cup {k}
    /\ UNCHANGED <<announced, analysed>>

Announce(k) ==
    /\ k \in saved
    /\ announced[k] = 0
    /\ announced' = [announced EXCEPT ![k] = 1]
    /\ UNCHANGED <<saved, analysed>>

Analyse(k) ==
    /\ k \in saved
    /\ analysed' = analysed \cup {k}
    /\ UNCHANGED <<saved, announced>>

Next == \E k \in Key : Save(k) \/ Announce(k) \/ Analyse(k)

Spec == Init /\ [][Next]_vars

=============================================================================
