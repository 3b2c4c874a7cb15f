SPECIFICATION ViewSpec
CONSTANTS
    Handlers = {h1}
    Records = {r1, r2}
    Payloads = {p1}
    PlannerActions <- UpdateActions
    Operations <- BothOperations
    MaxSteps = 5
    RepeatLimit = 3
    MaxTurns = 3
    NoRecord = NoRecord
    NoPayload = NoPayload
SYMMETRY RecordSymmetry
INVARIANTS
    TypeOK
    WritesWereApproved
    ConfirmationIsCurrent
    SnapshotsCanBeActedOn
PROPERTIES
    TerminalIsFinal
    KeepsPromise
CHECK_DEADLOCK FALSE
