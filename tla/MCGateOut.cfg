\* People walk out of a gate whose sensors fall silent only between two of
\* them: the expiry may cost one of them (README, section 5).
CONSTANTS
    s0 = s0
    s1 = s1
    e0 = e0
    e1 = e1
    p0 = p0
    p1 = p1
    Sensors <- TwoSensors
    Layout <- TwoSensorLayout
    Reversed <- SecondReversed
    AsymmetryMax = 2
    AsymmetryIter = 2
    AsymmetricNull = TRUE
    AsymmetryReset = 5
    Entries <- TwoEntries
    Recipients <- ToTwoEntries
    ChannelLength = 1
    MaxOwed = 12
    MaxAny = 3
    Headings <- WalkOut
    Mirrored <- SecondMirrored
    SpacesOf <- SharedSpace
SPECIFICATION MCSpec
INVARIANT EveryCrossingCounted
