\* A device whose id no gate uses goes on sending after its record is old.
CONSTANTS
    c1 = c1
    c2 = c2
    i1 = i1
    m1 = m1
    m2 = m2
    Conns <- TwoConns
    Ips <- OneIp
    Macs <- TwoMacs
    Defined <- OneDefined
    Strict <- OneDefined
    MaliciousTriesIP = 2
    MaliciousTriesMac = 1
    MalicioudMode = 1
    FailureThreshold = 1
    SecurityLength = 1
SPECIFICATION Spec
PROPERTY UnusedIsRejected
