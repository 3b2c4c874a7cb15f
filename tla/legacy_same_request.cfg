SPECIFICATION Spec
CONSTANTS
    s1 = s1
    s2 = s2
    w1 = w1
    w2 = w2
    Sessions = {s1, s2}
    Workers = {w1, w2}
    Asked <- Create
    UseLlm = FALSE
    LlmPlans <- NoPlans
    MaxDeliveries = 1
    Faults <- NoFault
    MaxFaults = 0
    MaxAnswers = 2
INVARIANT
    RequestCarriedOutOnce
CHECK_DEADLOCK FALSE
