SPECIFICATION Spec
CONSTANTS
    Messages = {m1}
    Confirms = {c1}
    Requests = {q1}
    Faults <- AllFaults
    PollLimit = 2
    MaxWorkflows = 2
    MaxQuestions = 1
    MaxFaults = 2
INVARIANTS
    TypeOK
    ConfirmedIsComplete
    SuccessIsReal
    OneTrackerPerWorkflow
PROPERTIES
    ClosedTasksStayClosed
CHECK_DEADLOCK FALSE
