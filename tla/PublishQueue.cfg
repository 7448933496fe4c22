CONSTANTS
    Publishers = {p1, p2}
    Capacity = 2
    MaxMessages = 4
    MaxOutages = 2
SPECIFICATION FairSpec
INVARIANTS
    TypeOK
    NoLossUndisturbed
    HeldWhileSent
    TimerGuardsHead
PROPERTIES
    RefinesFifo
    Drained
