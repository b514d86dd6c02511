CONSTANTS
    remind = remind
    chase = chase
    roleJob = roleJob
    BootJobs <- TwoJobs
    RoleJobs = {}
    Due <- TwoDue
    NewDue = {3}
    Updaters = {}
    Adders = {}
    Spare = 0
    Threshold = 2
    MaxTime = 6
    MaxId = 6
    Nil = Nil
    ManualJobs = {}
    RedisFaults = TRUE
    Crashes = TRUE
SPECIFICATION FairSpec
CHECK_DEADLOCK FALSE
INVARIANTS
    CaughtUpBeforeCron
PROPERTIES
    StartEnds
