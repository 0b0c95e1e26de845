\* One gate with both its sensors and two entries, with people that cross it
\* one after the other, and with any samples whatever.
CONSTANTS
    s0 = s0
    s1 = s1
    e0 = e0
    e1 = e1
    p0 = p0
    p1 = p1
    Sensors <- TwoSensors
    Layout <- TwoSensorLayout
    Reversed <- SecondReversed
    AsymmetryMax = 2
    AsymmetryIter = 2
    AsymmetricNull = TRUE
    AsymmetryReset = 5
    Entries <- TwoEntries
    Recipients <- ToTwoEntries
    ChannelLength = 1
    MaxOwed = 12
    MaxAny = 3
    Headings <- WalkIn
    Mirrored <- SecondMirrored
    SpacesOf <- SharedSpace
SPECIFICATION MCSpec
INVARIANTS
    TypeOK
    OneSidedScratch
    NoPhantomCrossing
    OrderedIsListening
    LeadBelowMax
    EveryCrossingCounted
    EverySpaceIsTold
PROPERTIES
    DisabledForGood
