SPECIFICATION Spec
CONSTANTS
    s1 = s1
    w1 = w1
    w2 = w2
    Sessions = {s1}
    Workers = {w1, w2}
    Asked <- AnyText
    UseLlm = TRUE
    LlmPlans <- HandWritten
    MaxDeliveries = 2
    Faults <- AnyFault
    MaxFaults = 1
    MaxAnswers = 2
INVARIANTS
    TypeOK
    NoWriteWithoutAnswer
    WriteSentOnce
    
    OneWorkerPerSession
    
    NoMessageStuck
CHECK_DEADLOCK FALSE
