SPECIFICATION Spec
CONSTANTS
    Handlers = {h1}
    Records = {r1, r2}
    Payloads = {p1}
    PlannerActions <- UpdateActions
    Operations <- GeneralOnly
    MaxSteps = 7
    RepeatLimit = 3
    MaxTurns = 1
    NoRecord = NoRecord
    NoPayload = NoPayload
SYMMETRY RecordSymmetry
INVARIANTS
    WritesHitConfirmedRecord
CHECK_DEADLOCK FALSE
