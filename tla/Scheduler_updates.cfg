CONSTANTS
    remind = remind
    chase = chase
    roleJob = roleJob
    BootJobs <- OneJob
    RoleJobs = {roleJob}
    Due <- OneDue
    NewDue = {2, 3}
    Updaters = {u1, u2}
    Adders = {a1, a2}
    Spare = 1
    Threshold = 2
    MaxTime = 0
    MaxId = 4
    Nil = Nil
    ManualJobs = {roleJob}
    RedisFaults = FALSE
    Crashes = FALSE
SYMMETRY Symmetry
SPECIFICATION Spec
CHECK_DEADLOCK FALSE
INVARIANTS
    AddedOnceRunsOnce
