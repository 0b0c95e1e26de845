\* Integers of two bits, so that flows overflow; registers and resets get lost.
CONSTANTS
    e0 = e0
    e1 = e1
    g0 = g0
    g1 = g1
    Entries <- TwoEntries
    Gates <- TwoGates
    GatesOf <- OneShared
    AcceptNegatives = FALSE
    Width = 2
    MaxFlow = 1
SPECIFICATION Spec
INVARIANTS
    ElementsBalance
    DriftIsLoss
    EntryIsItsGates
