SPECIFICATION FairSpec
CONSTANTS
    Messages = {m1}
    Confirms = {c1}
    Requests = {q1}
    Faults <- CrashesOnly
    PollLimit = 2
    MaxWorkflows = 2
    MaxQuestions = 1
    MaxFaults = 0
PROPERTIES
    ConfirmingIsNotCancelled
CHECK_DEADLOCK FALSE
