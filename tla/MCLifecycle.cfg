\* Two spaces, a restart; every wait may end early.
CONSTANTS
    Managers <- Order
    Processes <- Two
    Buffered <- Gates
    Rank <- InTurn
    SaveState = TRUE
    MaxCount = 1
    MaxStarts = 2
    MaxStops = 1
SPECIFICATION FairSpec
INVARIANTS
    DoneMeansTold
    KeepsItsName
PROPERTY ServerExits
