SPECIFICATION FairJobSpec
CONSTANTS
    Process = {p}
    Primary = p
    Job = {"inactive"}
    Guest = {1, 2}
    Caller = {a}
    Cutoff = 1
    Every = 2
    JobTtl = 2
    Ttl = {1}
    Wait = {0, 1}
    Token = {t1, t2, t3}
    NoToken = NoToken
    Client <- MCClient
    Lock <- MCRunner
INVARIANTS
    JobTypeOK
    MutualExclusion
    WaitersQueued
PROPERTIES
    NoCatchUpBurst
    JobsGoOn
    EveryWaitEnds
