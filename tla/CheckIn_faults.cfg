CONSTANTS
    Employees = {e1}
    Handlers = {h1, h2}
    Checkers = {c1}
    Messages = {m1, m2}
    MentorQuestions = 2
    DefaultQuestions = 1
    MaxDay = 2
    Nil = Nil
    RedisFaults = TRUE
    DBFaults = TRUE
    Expiry = TRUE
    Crashes = TRUE
SPECIFICATION Spec
INVARIANTS
    ConversationsWellFormed
    OnlyOvertakenReportsIncomplete
PROPERTIES
    DailySpec
