\* What is saved to the shadow database.
CONSTANTS
    e0 = e0
    e1 = e1
    g0 = g0
    g1 = g1
    Entries <- TwoEntries
    Gates <- TwoGates
    GatesOf <- SharedGate
    ReversedEntries <- SecondEntry
    ReversedGates <- SharedReversed
    AcceptNegatives = FALSE
    Shadowing = TRUE
    HasSlot = FALSE
    ChannelLength = 1
    MaxNet = 2
SPECIFICATION Spec
PROPERTY ShadowDbIsUncorrected
