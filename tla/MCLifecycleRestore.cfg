\* One space that saves its state.
CONSTANTS
    Managers <- Order
    Processes <- One
    Buffered <- Gates
    Rank <- First
    SaveState = TRUE
    MaxCount = 1
    MaxStarts = 2
    MaxStops = 1
SPECIFICATION FairSpec
INVARIANTS
    StateSurvives
