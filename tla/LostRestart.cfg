SPECIFICATION FairSpec
CONSTANTS
    Child = {c1, c2, c3, c4}
    NoChild = none
    MaxRevision = 1
PROPERTIES
    ServiceRecovers
\* A stopped supervisor has nothing left to do.
CHECK_DEADLOCK FALSE
