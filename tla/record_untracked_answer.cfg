SPECIFICATION Spec
CONSTANTS
    Messages = {m1}
    Confirms = {c1}
    Requests = {q1}
    Faults <- CrashesOnly
    PollLimit = 2
    MaxWorkflows = 2
    MaxQuestions = 2
    MaxFaults = 0
INVARIANTS
    AnswersAreTracked
CHECK_DEADLOCK FALSE
