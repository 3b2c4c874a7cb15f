SPECIFICATION Spec
CONSTANTS
    s1 = s1
    w1 = w1
    Sessions = {s1}
    Workers = {w1}
    Asked <- Create
    UseLlm = TRUE
    LlmPlans <- EarlyWrite
    MaxDeliveries = 2
    Faults <- NoFault
    MaxFaults = 0
    MaxAnswers = 1
INVARIANT
    NoWriteWithoutAnswer
CHECK_DEADLOCK FALSE
