SPECIFICATION Spec
CONSTANTS
    Requests = {r1, r2}
    Tracker = tracker
    KindOf <- Types
    MaxQuestions = 2
    MaxRows = 2
    MaxTurns = 4
    MaxFaults = 1
    MaxDay = 2
SYMMETRY AnyOrder
INVARIANT GrantSpentOnce
INVARIANT DoneWasPerformed
INVARIANT AnswersKept
INVARIANT CheckedEverySecondDay
CHECK_DEADLOCK FALSE
