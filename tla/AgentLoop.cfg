SPECIFICATION FairAgentSpec
CONSTANTS
    MaxSubmissions = 4
    MaxRetries = 2
INVARIANTS
    AgentTypeOK
    PanelBusyForOne
    SubmissionsInOrder
PROPERTIES
    FollowUpSeesOutput
    StopEnds
    FollowUpTaken
CHECK_DEADLOCK FALSE
