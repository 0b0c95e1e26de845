\* The shadow count of a reversed entry in the reset slot.
CONSTANTS
    e0 = e0
    e1 = e1
    g0 = g0
    g1 = g1
    Entries <- TwoEntries
    Gates <- TwoGates
    GatesOf <- SharedGate
    ReversedEntries <- SecondEntry
    ReversedGates <- SharedReversed
    AcceptNegatives = FALSE
    Shadowing = FALSE
    HasSlot = TRUE
    ChannelLength = 1
    MaxNet = 2
SPECIFICATION Spec
INVARIANT ShadowIsUncorrected
