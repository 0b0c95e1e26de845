\* A call of the API while the background of the sensor is reset.
CONSTANTS
    Api <- OneCall
    Resets <- OneReset
    Enforcers = {}
    CmdOf <- Cmds
    Capacity = 5
    FailureThreshold = 3
    Malicious = FALSE
    ResetCloseTCP = FALSE
    MaxUnasked = 0
SPECIFICATION Spec
INVARIANT AnswerIsTheDevices
CHECK_DEADLOCK FALSE
