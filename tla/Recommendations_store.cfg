SPECIFICATION Spec
CONSTANTS
    Stores = {s1, s2}
    Requests = {q1}
    Subjects = {"person"}
    Ranks = {2, 3}
    Window = 2
    Actions <- Suggested
    MaxRecs = 2
    MaxFaults = 1
SYMMETRY AnyOrder
INVARIANT OneLivePending
INVARIANT ReplacedByBetter
INVARIANT MarkedAsPerformed
