SPECIFICATION FairHistorySpec
CONSTANTS
    Owner = {u, v}
    Worker = {w}
    Primary = p
    Runtime = {"single", "cluster"}
    Request = {r, s}
    NoRequest = NoRequest
    NoCommit = NoCommit
    Base = 2
    LongWait = 1
    LongDebounce = 1
    ExtendedWait = 2
    ExtendedDebounce = 1
    ImmediateWait = 2
    MaxEdits = 2
    MaxFaults = 1
    MaxRequests = 2
INVARIANTS
    HistoryTypeOK
    NothingForgotten
    WaitIsBounded
PROPERTIES
    RollbackKeepsEdits
    RootsReachHistory
\* A server with no change left to make may rest.
CHECK_DEADLOCK FALSE
