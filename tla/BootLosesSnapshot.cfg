SPECIFICATION Spec
CONSTANTS
    Key = {k1, k2}
    Value = {a}
    Absent = Absent
    DeltaRetention = 2
    Worker = {w1}
    NoWorker = nobody
    CommitDuringBoot = TRUE
    MaxVersion = 3
    MaxInbox = 3
    MaxExits = 0
INVARIANTS
    ReplicaComplete
\* A cluster without commits left to make may stop.
CHECK_DEADLOCK FALSE
