CONSTANTS
    Employees = {e1}
    Handlers = {h1}
    Checkers = {}
    Messages = {m1, m2, m3}
    MentorQuestions = 2
    DefaultQuestions = 1
    MaxDay = 1
    Nil = Nil
    RedisFaults = FALSE
    DBFaults = FALSE
    Expiry = FALSE
    Crashes = TRUE
SPECIFICATION Spec
SYMMETRY Symmetry
INVARIANTS
    CompleteMeansSaved
