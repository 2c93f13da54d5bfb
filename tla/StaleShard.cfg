SPECIFICATION ShardSpec
CONSTANTS
    Key = {u}
    DeltaRetention = 1
    Worker = {w1, w2}
    NoWorker = NoWorker
    File = {a}
    AuthFile = {a}
    MaxEdits = 2
    MaxCalls = 1
INVARIANTS
    StaleShardKnown
CHECK_DEADLOCK FALSE
