SPECIFICATION FencedSpec
CONSTANTS
    Key = {k1}
    Value = {a}
    Absent = Absent
    DeltaRetention = 1
    Worker = {w1}
    NoWorker = nobody
    CommitDuringBoot = TRUE
    MaxVersion = 3
    MaxInbox = 3
    MaxExits = 1
INVARIANTS
    TypeOK
    ReplicaSound
PROPERTIES
    ServingVersionMonotone
    EveryWorkerServes
    FencedCatchUp
\* A cluster without commits left to make may stop.
CHECK_DEADLOCK FALSE
