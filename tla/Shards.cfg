SPECIFICATION ShardSpec
CONSTANTS
    Key = {u}
    DeltaRetention = 2
    Worker = {w1}
    NoWorker = NoWorker
    File = {a, b}
    AuthFile = {b}
    MaxEdits = 2
    MaxCalls = 3
INVARIANTS
    ShardTypeOK
    VersionNamesFiles
    CommittedVersionKept
CHECK_DEADLOCK FALSE
PROPERTIES
    IndexMovesForward
