SPECIFICATION Spec
CONSTANTS
    Big = {"app"}
    MaxCommands = 3
    MaxResets = 2
INVARIANTS
    TypeOK
    LastCommandWins
    NoMarkedNetImageLeft
    RightCores
CHECK_DEADLOCK FALSE
