\* The sliding windows of a space with a reset slot, with registers that a tick
\* overtakes.
CONSTANTS
    Tick = 2
    Periods <- ShortAndLong
    References <- Longest
    Slots <- OneSlot
    MaxDelay = 3
    Start = 20
    Horizon = 36
    MaxCount = 2
    MaxEvents = 3
SPECIFICATION Spec
INVARIANTS
    TypeOK
    WindowIsExact
    FlowIsExact
PROPERTY ReferencesAreExact
