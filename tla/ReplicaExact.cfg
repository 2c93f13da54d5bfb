SPECIFICATION Spec
SYMMETRY Interchangeable
CONSTANTS
    Key = {k1, k2}
    Value = {a}
    Absent = Absent
    DeltaRetention = 2
    Worker = {w1, w2}
    NoWorker = nobody
    CommitDuringBoot = FALSE
    MaxVersion = 2
    MaxInbox = 1
    MaxExits = 1
INVARIANTS
    ReplayExact
    ReplicaComplete
PROPERTIES
    ImplementsStore
\* A cluster without commits left to make may stop.
CHECK_DEADLOCK FALSE
