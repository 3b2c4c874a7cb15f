SPECIFICATION FairSpec
CONSTANTS
    Handlers = {h1}
    Records = {r1}
    Payloads = {p1}
    PlannerActions <- RetryActions
    Operations <- BothOperations
    MaxSteps = 7
    RepeatLimit = 3
    MaxTurns = 2
    NoRecord = NoRecord
    NoPayload = NoPayload
INVARIANTS
    NoWriteAfterSuccess
    DraftTasksOnlyDraft
    RetriesAreBounded
PROPERTIES
    EveryCallReturns
CHECK_DEADLOCK FALSE
