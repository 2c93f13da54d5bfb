SPECIFICATION JobSpec
CONSTANTS
    Process = {p, w}
    Primary = p
    Job = {"inactive", "oversized"}
    Guest = {1}
    Caller = {}
    Cutoff = 2
    Every = 2
    JobTtl = 2
    Ttl = {1, 2}
    Wait = {0, 1}
    Token = {t1, t2, t3, t4}
    NoToken = NoToken
    Client <- MCClient
    Lock <- MCRunner
PROPERTIES
    TrackedGuestKept
