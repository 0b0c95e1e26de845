\* Three connections of two devices, whose ids have the same last byte.
CONSTANTS
    c1 = c1
    c2 = c2
    c3 = c3
    m1 = m1
    m2 = m2
    Conns <- ThreeConns
    Macs <- TwoMacs
    Ids <- SomeIds
    Unset = 65535
    DefinedId <- OneDefined
    Tag <- OneEnforced
    Used <- UsedIds
    MaxTcp = 2
    MaxStuck = 1
SPECIFICATION FairSpec
INVARIANTS
    TypeOK
    RegisteredOnce
    IdsAreInUse
    NoLeftovers
    TokensAreHeld
PROPERTIES
    ProcessesEnd
    KeepsService
CHECK_DEADLOCK FALSE
