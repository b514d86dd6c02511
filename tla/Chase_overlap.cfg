CONSTANTS
    Employees = {e1, e2}
    Runs = {r1, r2}
    Callers = {"api"}
    Escalation <- Dalio
    Delay <- InamoriDelay
    NoNaming = {e1}
    Yesterday = {e1}
    CatchUp = 1
    MaxHour = 1
    Nil = Nil
    MaxStarts = 2
    SendFaults = TRUE
    DBFaults = TRUE
    Crashes = TRUE
SPECIFICATION FairSpec
CHECK_DEADLOCK FALSE
INVARIANTS
    RepeatedOnlyByOverlap
PROPERTIES
    RunsEnd
