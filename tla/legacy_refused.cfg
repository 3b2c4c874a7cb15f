SPECIFICATION Spec
CONSTANTS
    s1 = s1
    w1 = w1
    w2 = w2
    Sessions = {s1}
    Workers = {w1, w2}
    Asked <- Create
    UseLlm = FALSE
    LlmPlans <- NoPlans
    MaxDeliveries = 2
    Faults <- CrashOnly
    MaxFaults = 1
    MaxAnswers = 1
INVARIANT
    RefusedIsNotWritten
CHECK_DEADLOCK FALSE
