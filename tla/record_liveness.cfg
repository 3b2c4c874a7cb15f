SPECIFICATION FairSpec
CONSTANTS
    Messages = {m1}
    Confirms = {c1}
    Requests = {q1}
    Faults <- CrashesOnly
    PollLimit = 1
    MaxWorkflows = 2
    MaxQuestions = 1
    MaxFaults = 1

    
PROPERTIES
    TasksResolve
    SuccessIsRecorded
CHECK_DEADLOCK FALSE
