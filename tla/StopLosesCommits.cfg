SPECIFICATION HistorySpec
CONSTANTS
    Owner = {u}
    Worker = {w}
    Primary = p
    Runtime = {"single"}
    Request = {r}
    NoRequest = NoRequest
    NoCommit = NoCommit
    Base = 2
    LongWait = 1
    LongDebounce = 1
    ExtendedWait = 2
    ExtendedDebounce = 1
    ImmediateWait = 2
    MaxEdits = 2
    MaxFaults = 1
    MaxRequests = 1
PROPERTIES
    StopFlushes
\* A server with no change left to make may rest.
CHECK_DEADLOCK FALSE
