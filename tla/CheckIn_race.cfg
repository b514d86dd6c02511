CONSTANTS
    Employees = {e1}
    Handlers = {h1, h2}
    Checkers = {}
    Messages = {m1, m2, m3}
    MentorQuestions = 2
    DefaultQuestions = 1
    MaxDay = 1
    Nil = Nil
    RedisFaults = FALSE
    DBFaults = TRUE
    Expiry = FALSE
    Crashes = FALSE
SPECIFICATION FairSpec
INVARIANTS
    AnnouncedOnceAfterSave
PROPERTIES
    CompleteIsDecided
