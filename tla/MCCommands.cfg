\* A call and a setID, a buffer for one message, one unexpected answer.
CONSTANTS
    Api <- OneCall
    Resets = {}
    Enforcers <- OneEnforcer
    CmdOf <- Cmds
    Capacity = 1
    FailureThreshold = 1
    Malicious = TRUE
    ResetCloseTCP = TRUE
    MaxUnasked = 1
SPECIFICATION FairSpec
INVARIANT AloneIsAnswered
PROPERTIES
    ConnectionEnds
    ProcessServes
CHECK_DEADLOCK FALSE
