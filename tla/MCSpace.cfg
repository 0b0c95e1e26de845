\* The corrected count of a space with a reset slot, a reversed entry and a gate
\* that one of its two entries reverses.
CONSTANTS
    e0 = e0
    e1 = e1
    g0 = g0
    g1 = g1
    Entries <- TwoEntries
    Gates <- TwoGates
    GatesOf <- SharedGate
    ReversedEntries <- SecondEntry
    ReversedGates <- SharedReversed
    AcceptNegatives = FALSE
    Shadowing = FALSE
    HasSlot = TRUE
    ChannelLength = 2
    MaxNet = 2
SPECIFICATION FairSpec
INVARIANTS
    TypeOK
    CountIsReflected
    EmptyAfterReset
    RegisterTellsOneCrossing
PROPERTIES
    SlotEmpties
    KeepsOccupancy
