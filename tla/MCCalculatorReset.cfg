\* The sliding windows of a space that is reset.
CONSTANTS
    Tick = 2
    Periods <- ShortAndLong
    References <- Longest
    Slots <- OneSlot
    MaxDelay = 0
    Start = 20
    Horizon = 30
    MaxCount = 2
    MaxEvents = 3
SPECIFICATION Spec
INVARIANT WindowIsPeriod
