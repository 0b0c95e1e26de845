\* A device, its id defined, that connects a second time.
CONSTANTS
    c1 = c1
    c2 = c2
    c3 = c3
    m1 = m1
    m2 = m2
    Conns <- TwoConns
    Macs <- OneMac
    Ids <- FewIds
    Unset = 65535
    DefinedId <- OneId
    Tag <- OneStrict
    Used <- OneUsed
    MaxTcp = 2
    MaxStuck = 0
SPECIFICATION Spec
INVARIANT ActiveIsCommandable
CHECK_DEADLOCK FALSE
